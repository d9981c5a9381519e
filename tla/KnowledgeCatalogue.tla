------------------------- MODULE KnowledgeCatalogue -------------------------
(* The governance of the knowledge catalogue (services/knowledge): official *)
(* sources are ingested as jobs, reviewed, approved, published as versions  *)
(* of a source, superseded by later versions and archived. An action is a   *)
(* transaction of the repository, which locks the rows it is about; an      *)
(* ingestion is several transactions, and a publication reads the document  *)
(* it rests on over a connection of its own, before it writes.              *)
EXTENDS Naturals, FiniteSets

CONSTANTS
    Requests,   \* ingestions in flight
    Keys,       \* idempotency keys of ingestions
    Payloads,   \* what is ingested, as its lineage identifies it: a document or a URL
    DocumentPayloads,  \* the payloads that are registered documents; the others are URLs
    Actors,     \* administrators
    Texts,      \* what a payload is approved as: a source and a window of days
    Titles,     \* the part of it that may still be corrected
    MaxJobs,    \* bound of the model
    ApprovedIsAllowed,  \* whether the schema admits the state the code approves with
    None        \* no value

\* An open window ends after all days.
ASSUME CatalogueAssumption ==
    /\ MaxJobs \in Nat /\ ApprovedIsAllowed \in BOOLEAN /\ DocumentPayloads \subseteq Payloads
    /\ \A t \in Texts : t.first \in Nat /\ t.last \in Nat /\ t.first <= t.last
    /\ None \notin Keys \cup Payloads \cup Actors \cup Titles \cup Nat

Jobs == 1..MaxJobs
Proposals == [text : Texts, title : Titles]

VARIABLES
    ingestion,  \* each request: where it is and what it carries
    jobs,       \* knowledge_ingestion_jobs
    versions,   \* knowledge_source_versions, by the job that published them
    sources,    \* knowledge_sources: the title each source is bound to
    publishing, \* who holds a job's row while a publication is under way
    purged,     \* documents whose content is gone
    overtaken   \* history: publications that had checked a document when it was purged

catalogueVars == <<ingestion, jobs, versions, sources, publishing, purged, overtaken>>

Existing == {j \in Jobs : jobs[j].state # "absent"}
Versions == {j \in Jobs : versions[j].state # "absent"}

NoIngestion == [phase |-> "idle", key |-> None, payload |-> None, known |-> {}]
\* lineage: whether the job still says what it was ingested as; known, ruling and edited are
\* history: the jobs there were when its ingestion began, the last decision on it, and whether a
\* review has ever touched its lineage.
NoJob == [state |-> "absent", key |-> None, payload |-> None, lineage |-> TRUE, proposal |-> None,
          approver |-> None, known |-> {}, ruling |-> None, edited |-> FALSE]
\* ruling and purged are history: the last decision on the job, and whether its document was purged.
NoVersion == [state |-> "absent", text |-> None, approver |-> None, publisher |-> None,
              successor |-> None, ruling |-> None, purged |-> FALSE]

\* What a look-up by key or by lineage may find.
Found == {j \in Existing : jobs[j].lineage}

CatalogueInit ==
    /\ ingestion = [r \in Requests |-> NoIngestion]
    /\ jobs = [j \in Jobs |-> NoJob]
    /\ versions = [j \in Jobs |-> NoVersion]
    /\ sources = [s \in {t.source : t \in Texts} |-> None]
    /\ publishing = [j \in Jobs |-> None]
    /\ purged = {}
    /\ overtaken = {}

-----------------------------------------------------------------------------
(* Ingestion: the look-ups by key and by lineage and the insertion are      *)
(* transactions of their own.                                               *)

BeginIngest(r, k, p) ==
    /\ ingestion[r].phase = "idle"
    /\ Cardinality(Existing) + Cardinality({s \in Requests : ingestion[s] # NoIngestion}) < MaxJobs
    /\ p \notin purged
    /\ ingestion' = [ingestion EXCEPT ![r] =
                       [phase |-> "key", key |-> k, payload |-> p, known |-> Existing]]
    /\ UNCHANGED <<jobs, versions, sources, publishing, purged, overtaken>>

\* A job of the key is the answer, or a conflict if it is of another payload.
LookUpKey(r) ==
    /\ ingestion[r].phase = "key"
    /\ ingestion' = IF \E j \in Found : jobs[j].key = ingestion[r].key
                    THEN [ingestion EXCEPT ![r] = NoIngestion]
                    ELSE [ingestion EXCEPT ![r].phase = "lineage"]
    /\ UNCHANGED <<jobs, versions, sources, publishing, purged, overtaken>>

\* Seeded fault: the lineage is not looked up.
LookUpLineage_Skipped(r) ==
    /\ ingestion[r].phase = "lineage"
    /\ ingestion' = [ingestion EXCEPT ![r].phase = "insert"]
    /\ UNCHANGED <<jobs, versions, sources, publishing, purged, overtaken>>

\* A job of the payload is the answer, whatever has become of it.
LookUpLineage(r) ==
    /\ ingestion[r].phase = "lineage"
    /\ ingestion' = IF \E j \in Found : jobs[j].payload = ingestion[r].payload
                    THEN [ingestion EXCEPT ![r] = NoIngestion]
                    ELSE [ingestion EXCEPT ![r].phase = "insert"]
    /\ UNCHANGED <<jobs, versions, sources, publishing, purged, overtaken>>

InsertJob(r) ==
    /\ ingestion[r].phase = "insert"
    /\ \E j \in Jobs \ Existing :
         /\ \A i \in Jobs \ Existing : j <= i
         /\ jobs' = [jobs EXCEPT ![j] =
                       [NoJob EXCEPT !.state = "uploaded", !.key = ingestion[r].key,
                                     !.payload = ingestion[r].payload,
                                     !.known = ingestion[r].known]]
    /\ ingestion' = [ingestion EXCEPT ![r] = NoIngestion]
    /\ UNCHANGED <<versions, sources, publishing, purged, overtaken>>

\* The process dies or the storage fails between two of the transactions.
AbandonIngest(r) ==
    /\ ingestion[r].phase # "idle"
    /\ ingestion' = [ingestion EXCEPT ![r] = NoIngestion]
    /\ UNCHANGED <<jobs, versions, sources, publishing, purged, overtaken>>

-----------------------------------------------------------------------------
(* Review: every decision locks the job's row.                              *)

Unlocked(j) == j \in Existing /\ publishing[j] = None

Decide(j, job) ==
    /\ jobs' = [jobs EXCEPT ![j] = job]
    /\ UNCHANGED <<ingestion, versions, sources, publishing, purged, overtaken>>

Reviewable(j) == jobs[j].state \in {"uploaded", "review_pending", "rejected"}

\* A review may put anything in place of what the job proposes, the key and the lineage it was
\* ingested with included, and may put them back.
ReviewJob(j, lineage, proposal) ==
    /\ Unlocked(j)
    /\ Reviewable(j)
    /\ Decide(j, [jobs[j] EXCEPT !.state = "review_pending", !.lineage = lineage,
                                 !.proposal = proposal, !.edited = @ \/ ~ lineage])

\* Seeded fault: the state's older name is written.
Approve_Legacy(j, a, proposal) ==
    /\ Unlocked(j)
    /\ ApprovedIsAllowed
    /\ Reviewable(j)
    /\ Decide(j, [jobs[j] EXCEPT !.state = "approved_for_publication", !.proposal = proposal,
                                 !.approver = a, !.ruling = [by |-> a, text |-> proposal.text]])

Approve(j, a, proposal) ==
    /\ Unlocked(j)
    /\ ApprovedIsAllowed
    /\ Reviewable(j)
    /\ Decide(j, [jobs[j] EXCEPT !.state = "approved", !.proposal = proposal, !.approver = a,
                                 !.ruling = [by |-> a, text |-> proposal.text]])

Reject(j) ==
    /\ Unlocked(j)
    /\ jobs[j].state # "published"
    /\ Decide(j, [jobs[j] EXCEPT !.state = "rejected", !.ruling = None])

\* Corrections reach the title and its like only, before and after the approval.
CorrectMetadata(j, title) ==
    /\ Unlocked(j)
    /\ jobs[j].state \in {"review_pending", "approved"}
    /\ jobs[j].proposal # None
    /\ Decide(j, [jobs[j] EXCEPT !.proposal.title = title])

-----------------------------------------------------------------------------
(* Publication.                                                             *)

\* Seeded fault: the approver may publish.
BeginPublish_Alone(j, a) ==
    /\ Unlocked(j)
    /\ jobs[j].state = "approved"
    /\ jobs[j].payload \notin purged
    /\ jobs[j].proposal # None
    /\ jobs[j].approver # None
    /\ publishing' = [publishing EXCEPT ![j] = a]
    /\ UNCHANGED <<ingestion, jobs, versions, sources, purged, overtaken>>

\* The checks, with the job's row locked. The lineage is checked for being consistent in itself,
\* as a review may have left it too, so an edited one may pass.
BeginPublish(j, a) ==
    /\ Unlocked(j)
    /\ jobs[j].state = "approved"
    /\ jobs[j].payload \notin purged
    /\ jobs[j].proposal # None
    /\ jobs[j].approver \notin {None, a}
    /\ publishing' = [publishing EXCEPT ![j] = a]
    /\ UNCHANGED <<ingestion, jobs, versions, sources, purged, overtaken>>

Overlap(t, u) == t.source = u.source /\ t.first <= u.last /\ u.first <= t.last

\* Neither the source's row nor the windows of its versions stand in the way.
Publishable(proposal) ==
    /\ sources[proposal.text.source] \in {None, proposal.title}
    /\ \A i \in Versions : ~ Overlap(proposal.text, versions[i].text)

FinishPublish(j) ==
    /\ publishing[j] # None
    /\ Publishable(jobs[j].proposal)
    /\ versions' = [versions EXCEPT ![j] =
                      [state |-> "published", text |-> jobs[j].proposal.text,
                       approver |-> jobs[j].approver, publisher |-> publishing[j],
                       successor |-> None, ruling |-> jobs[j].ruling,
                       purged |-> jobs[j].payload \in purged]]
    /\ sources' = [sources EXCEPT ![jobs[j].proposal.text.source] = jobs[j].proposal.title]
    /\ jobs' = [jobs EXCEPT ![j].state = "published"]
    /\ publishing' = [publishing EXCEPT ![j] = None]
    /\ UNCHANGED <<ingestion, purged, overtaken>>

\* The transaction is refused or fails, or its process dies: nothing of it remains.
AbandonPublish(j) ==
    /\ publishing[j] # None
    /\ publishing' = [publishing EXCEPT ![j] = None]
    /\ overtaken' = overtaken \ {j}
    /\ UNCHANGED <<ingestion, jobs, versions, sources, purged>>

\* External: document_ai purges a document.
PurgeDocument(p) ==
    /\ p \in DocumentPayloads \ purged
    /\ purged' = purged \cup {p}
    /\ overtaken' = overtaken \cup {j \in Jobs : publishing[j] # None /\ jobs[j].payload = p}
    /\ UNCHANGED <<ingestion, jobs, versions, sources, publishing>>

-----------------------------------------------------------------------------
(* The life of a version, with the rows of both versions locked.            *)

\* Seeded fault: the windows are not compared.
Supersede_AnyOrder(j, s) ==
    /\ j # s
    /\ versions[j].state = "published" /\ versions[s].state = "published"
    /\ versions[j].text.source = versions[s].text.source
    /\ versions' = [versions EXCEPT ![j].state = "superseded", ![j].successor = s]
    /\ UNCHANGED <<ingestion, jobs, sources, publishing, purged, overtaken>>

Supersede(j, s) ==
    /\ j # s
    /\ versions[j].state = "published" /\ versions[s].state = "published"
    /\ versions[j].text.source = versions[s].text.source
    /\ versions[j].text.last < versions[s].text.first
    /\ versions' = [versions EXCEPT ![j].state = "superseded", ![j].successor = s]
    /\ UNCHANGED <<ingestion, jobs, sources, publishing, purged, overtaken>>

Archive(j) ==
    /\ \/ versions[j].state = "superseded"
       \/ versions[j].state = "published" /\ versions[j].successor # None
    /\ versions' = [versions EXCEPT ![j].state = "archived"]
    /\ UNCHANGED <<ingestion, jobs, sources, publishing, purged, overtaken>>

-----------------------------------------------------------------------------
CatalogueNext ==
    \/ \E r \in Requests :
         \/ \E k \in Keys, p \in Payloads : BeginIngest(r, k, p)
         \/ LookUpKey(r)
         \/ LookUpLineage(r)
         \/ InsertJob(r)
         \/ AbandonIngest(r)
    \/ \E j \in Jobs :
         \/ \E l \in BOOLEAN, q \in Proposals \cup {jobs[j].proposal} : ReviewJob(j, l, q)
         \/ \E a \in Actors, q \in Proposals : Approve(j, a, q)
         \/ Reject(j)
         \/ \E t \in Titles : CorrectMetadata(j, t)
         \/ \E a \in Actors : BeginPublish(j, a)
         \/ FinishPublish(j)
         \/ AbandonPublish(j)
         \/ \E s \in Jobs : Supersede(j, s)
         \/ Archive(j)
    \/ \E p \in Payloads : PurgeDocument(p)

CatalogueSpec == CatalogueInit /\ [][CatalogueNext]_catalogueVars

-----------------------------------------------------------------------------
(* Properties.                                                              *)

OrNone(S) == S \cup {None}
Ruling == [by : Actors, text : Texts]

Ingestion ==
    [phase : {"idle", "key", "lineage", "insert"}, key : OrNone(Keys), payload : OrNone(Payloads),
     known : SUBSET Jobs]

Job ==
    [state : {"absent", "uploaded", "review_pending", "approved", "rejected", "published"},
     key : OrNone(Keys), payload : OrNone(Payloads), lineage : BOOLEAN,
     proposal : OrNone(Proposals), approver : OrNone(Actors), known : SUBSET Jobs,
     ruling : OrNone(Ruling), edited : BOOLEAN]

Version ==
    [state : {"absent", "published", "superseded", "archived"}, text : OrNone(Texts),
     approver : OrNone(Actors), publisher : OrNone(Actors), successor : OrNone(Jobs),
     ruling : OrNone(Ruling), purged : BOOLEAN]

CatalogueTypeOK ==
    /\ ingestion \in [Requests -> Ingestion]
    /\ jobs \in [Jobs -> Job]
    /\ versions \in [Jobs -> Version]
    /\ sources \in [{t.source : t \in Texts} -> OrNone(Titles)]
    /\ publishing \in [Jobs -> OrNone(Actors)]
    /\ purged \subseteq DocumentPayloads
    /\ overtaken \subseteq Jobs

\* One key and one payload are ingested as one job, whatever becomes of it, unless the ingestions
\* overlapped, neither finding the other's job, or a review has replaced a key or a lineage
\* (_persist_ingestion_job).
IngestionsAreOne ==
    \A i, j \in Existing :
        (jobs[i].key = jobs[j].key \/ jobs[i].payload = jobs[j].payload) /\ i # j =>
            \/ jobs[i].edited \/ jobs[j].edited
            \/ i \notin jobs[j].known /\ j \notin jobs[i].known

\* What is published is the text that was approved last and not rejected since, by another than
\* the one who publishes it, and its document was not purged before the publication began
\* (approve_ingestion_job, publish_ingestion_job).
PublicationIsGrounded ==
    \A j \in Versions :
        /\ versions[j].ruling = [by |-> versions[j].approver, text |-> versions[j].text]
        /\ versions[j].approver # versions[j].publisher
        /\ versions[j].purged => j \in overtaken

Later(j, s) ==
    versions[s].text.source = versions[j].text.source /\ versions[j].text.last < versions[s].text.first

\* A version is superseded by a later one of its source, one that has been published, and so the
\* latest version of a source is always the published one (supersede_source_version,
\* archive_source_version).
LatestIsPublished ==
    \A j \in Versions :
        IF versions[j].state = "published"
        THEN versions[j].successor = None
        ELSE versions[j].successor \in Versions /\ Later(j, versions[j].successor)
=============================================================================
