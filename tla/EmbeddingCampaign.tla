-------------------------- MODULE EmbeddingCampaign --------------------------
(***************************************************************************)
(* The change of the embedding model (nicekit/kb/embedding_reindex.py): a  *)
(* campaign has one job per knowledge base, workers lease the jobs and     *)
(* write an embedding of every chunk under the target model, searches read *)
(* both models for a while, and a finalizer switches the configuration.    *)
(* A reconciler repairs and resumes campaigns; the admin API creates them, *)
(* and retry_embedding_campaign starts them again.                         *)
(*                                                                         *)
(* Every transaction is a step.  A knowledge base has one chunk, so a page *)
(* holds everything and a batch one vector; its contents are numbered, and *)
(* 0 is no chunk.  The counters of a campaign are derived and left out.    *)
(* Of the time it matters whether a lease is over, and the dual read.      *)
(***************************************************************************)
EXTENDS Integers, FiniteSets

CONSTANTS
    Kb,           \* knowledge bases of all organizations
    Model,        \* fingerprints of embedding models
    First,        \* the model that is configured at the start
    Worker,       \* requests, dispatched tasks, reconcilers and finalizers
    None,         \* SQL NULL
    MaxCampaigns, \* bound: campaigns that are created
    MaxContent,   \* bound: contents a chunk may have
    MaxFaults     \* bound: crashes, errors, leases that run out, and edits

ASSUME ModelAssumption == First \in Model /\ None \notin Model \cup Kb \cup Worker
ASSUME BoundAssumption ==
    MaxCampaigns \in Nat /\ MaxContent \in Nat /\ MaxFaults \in Nat

VARIABLES
    config,   \* the fingerprint in service_configs
    kbStatus, \* lifecycle_status of each knowledge base
    content,  \* the content of its chunk
    version,  \* kb_chunk_embeddings: of each chunk under each model
    campaign, \* embedding_migration_campaigns, in the order of creation
    job,      \* embedding_reindex_jobs
    worker,   \* the memory of each process
    faults    \* so much has gone wrong

dataVars == <<config, kbStatus, content, version>>
vars == <<dataVars, campaign, job, worker, faults>>

Campaign == 1..MaxCampaigns
Content == 0..MaxContent

\* uq_embedding_migration_campaign_active is on these.
Open == {"queued", "running", "dual_read"}
CampaignStatuses == Open \cup {"absent", "completed", "failed"}
JobStatuses == {"absent", "queued", "running", "ready", "failed"}

NoVersion == [hash |-> 0, vectorOf |-> 0]
NoCampaign == [status |-> "absent", source |-> First, target |-> First, due |-> FALSE]
Job(s) == [status |-> s, owner |-> None, live |-> FALSE]

\* Where a process is: at the probe of a target, in _ensure_campaign_jobs, in
\* the loop of execute_embedding_campaign, in its error paths, in a retry or
\* in the finalizer.
Places == {"idle", "probing", "ensuring", "inserting", "repairing",
           "claiming", "claimed", "embedding", "covering", "finishing", "counting",
           "failing", "failed", "pausing", "paused",
           "requeueing", "locked", "validated"}

\* whole: the answer of the last count or comparison.
Idle == [at |-> "idle", campaign |-> None, kb |-> None, kbs |-> {}, source |-> None,
         target |-> None, seen |-> 0, whole |-> FALSE]

TypeOK ==
    /\ config \in Model
    /\ kbStatus \in [Kb -> {"absent", "active", "archived"}]
    /\ content \in [Kb -> Content]
    /\ version \in [Kb -> [Model -> [hash : Content, vectorOf : Content]]]
    /\ campaign \in [Campaign -> [status : CampaignStatuses, source : Model,
                                  target : Model, due : BOOLEAN]]
    /\ job \in [Campaign -> [Kb -> [status : JobStatuses,
                                    owner : Worker \cup {None}, live : BOOLEAN]]]
    /\ worker \in [Worker -> [at : Places, campaign : Campaign \cup {None},
                              kb : Kb \cup {None}, kbs : SUBSET Kb,
                              source : Model \cup {None}, target : Model \cup {None},
                              seen : Content, whole : BOOLEAN]]
    /\ \A c \in Campaign, k \in Kb :
        job[c][k].status = "running" <=> job[c][k].owner # None
    /\ faults \in 0..MaxFaults

Init ==
    /\ config = First
    /\ kbStatus \in [Kb -> {"absent", "active"}]
    /\ content = [k \in Kb |-> IF kbStatus[k] = "active" /\ MaxContent > 0 THEN 1 ELSE 0]
    /\ version = [k \in Kb |-> [m \in Model |->
                    IF m = First THEN [hash |-> content[k], vectorOf |-> content[k]]
                    ELSE NoVersion]]
    /\ campaign = [c \in Campaign |-> NoCampaign]
    /\ job = [c \in Campaign |-> [k \in Kb |-> Job("absent")]]
    /\ worker = [w \in Worker |-> Idle]
    /\ faults = 0

-----------------------------------------------------------------------------
Exists(c) == campaign[c].status # "absent"
IsOpen(c) == campaign[c].status \in Open
Runs(c) == campaign[c].status \in {"queued", "running"}
\* The unique index lets this campaign be open.
MayOpen(c) == \A d \in Campaign \ {c} : ~IsOpen(d)
Active == {k \in Kb : kbStatus[k] = "active"}
Jobs(c) == {k \in Kb : job[c][k].status # "absent"}
AllReady(c) == \A k \in Jobs(c) : job[c][k].status = "ready"

\* The chunk is embedded under the model, as it is now.
Embedded(k, m) == content[k] # 0 => version[k][m].hash = content[k]

\* The finalizer keeps the row of its campaign and the table of chunks locked
\* until it commits.
Finalizing(c) == \E w \in Worker : worker[w].at \in {"locked", "validated"}
                                   /\ worker[w].campaign = c
ChunksLocked == \E c \in Campaign : Finalizing(c)

Set(w, m) == worker' = [worker EXCEPT ![w] = m]
At(w, p) == Set(w, [worker[w] EXCEPT !.at = p])
Stop(w) == Set(w, Idle)
SetStatus(c, s) == campaign' = [campaign EXCEPT ![c].status = s]
SetJob(c, k, j) == job' = [job EXCEPT ![c][k] = j]
\* Neither dual_read nor due.
Resumed(c) == campaign' = [campaign EXCEPT ![c].status = "running", ![c].due = FALSE]
Fault == faults < MaxFaults /\ faults' = faults + 1

-----------------------------------------------------------------------------
(* Creating, and repairing, a campaign *)

\* A first look, then the probe of the target without any lock.
Probe(w) ==
    /\ worker[w].at = "idle"
    /\ \E m \in Model \ {config} :
        /\ \A c \in Campaign : IsOpen(c) => campaign[c].target = m
        /\ Set(w, [Idle EXCEPT !.at = "probing", !.kbs = Active,
                               !.source = config, !.target = m])
    /\ UNCHANGED <<dataVars, campaign, job, faults>>

\* Under the advisory lock: an open campaign is joined if it has the same
\* target, and excludes any other.
Create(w) ==
    /\ worker[w].at = "probing"
    /\ \/ /\ \A c \in Campaign : ~IsOpen(c)
          /\ \E c \in Campaign :
              /\ ~Exists(c) /\ \A d \in Campaign : d < c => Exists(d)
              /\ campaign' = [campaign EXCEPT ![c] =
                    [status |-> IF worker[w].kbs = {} THEN "dual_read" ELSE "queued",
                     source |-> worker[w].source, target |-> worker[w].target,
                     due |-> FALSE]]
              /\ Set(w, [Idle EXCEPT !.at = "ensuring", !.campaign = c,
                                     !.source = worker[w].source])
       \/ \E c \in Campaign :
            /\ IsOpen(c) /\ ~Finalizing(c)
            /\ UNCHANGED campaign
            /\ IF campaign[c].target = worker[w].target
               THEN Set(w, [Idle EXCEPT !.at = "ensuring", !.campaign = c])
               ELSE Stop(w)
    /\ UNCHANGED <<dataVars, job, faults>>

\* The target cannot be reached, or answers in another dimension.
ProbeFails(w) ==
    /\ worker[w].at = "probing"
    /\ Stop(w)
    /\ UNCHANGED <<dataVars, campaign, job, faults>>

\* reconcile_embedding_campaigns
Reconcile(w) ==
    /\ worker[w].at = "idle"
    /\ \E c \in Campaign :
        /\ IsOpen(c)
        /\ Set(w, [Idle EXCEPT !.at = "ensuring", !.campaign = c])
    /\ UNCHANGED <<dataVars, campaign, job, faults>>

ReadKbs(w) ==
    /\ worker[w].at = "ensuring"
    /\ Set(w, [worker[w] EXCEPT !.at = "inserting", !.kbs = Active])
    /\ UNCHANGED <<dataVars, campaign, job, faults>>

\* ON CONFLICT DO NOTHING; the foreign key waits for the row of the campaign.
InsertJob(w) ==
    LET c == worker[w].campaign IN
    /\ worker[w].at = "inserting"
    /\ ~Finalizing(c)
    /\ \E k \in worker[w].kbs :
        /\ job' = IF job[c][k].status = "absent"
                  THEN [job EXCEPT ![c][k] = Job("queued")] ELSE job
        /\ Set(w, [worker[w] EXCEPT !.kbs = @ \ {k}])
    /\ UNCHANGED <<dataVars, campaign, faults>>

CountJobs(w) ==
    /\ worker[w].at = "inserting" /\ worker[w].kbs = {}
    /\ Set(w, [worker[w] EXCEPT !.at = "repairing", !.whole = AllReady(worker[w].campaign)])
    /\ UNCHANGED <<dataVars, campaign, job, faults>>

\* What was counted decides, by the time of the update.
Repair(w) ==
    LET c == worker[w].campaign IN
    /\ worker[w].at = "repairing"
    /\ ~Finalizing(c)
    /\ IF ~worker[w].whole /\ IsOpen(c) THEN Resumed(c) ELSE UNCHANGED campaign
    /\ Stop(w)
    /\ UNCHANGED <<dataVars, job, faults>>

\* An error while the jobs of a new campaign are made.
CreateFails(w) ==
    LET c == worker[w].campaign IN
    /\ worker[w].at \in {"ensuring", "inserting", "repairing"}
    /\ worker[w].source # None
    /\ ~Finalizing(c)
    /\ Fault
    /\ SetStatus(c, "failed")
    /\ Stop(w)
    /\ UNCHANGED <<dataVars, job>>

-----------------------------------------------------------------------------
(* execute_embedding_campaign: dispatched, and after each repair *)

Start(w) ==
    /\ worker[w].at = "idle"
    /\ \E c \in Campaign :
        /\ Runs(c)
        /\ Set(w, [Idle EXCEPT !.at = "claiming", !.campaign = c])
    /\ UNCHANGED <<dataVars, campaign, job, faults>>

\* _claim_job locks the campaign with the job.
Claim(w) ==
    LET c == worker[w].campaign IN
    /\ worker[w].at = "claiming"
    /\ Runs(c) /\ ~Finalizing(c)
    /\ \E k \in Jobs(c) :
        /\ \/ job[c][k].status = "queued"
           \/ job[c][k].status = "running" /\ ~job[c][k].live
        /\ SetJob(c, k, [status |-> "running", owner |-> w, live |-> TRUE])
        /\ Set(w, [worker[w] EXCEPT !.at = "claimed", !.kb = k])
    /\ SetStatus(c, "running")
    /\ UNCHANGED <<dataVars, faults>>

\* Nothing is left, or a row is locked and skipped.
ClaimNothing(w) ==
    /\ worker[w].at = "claiming"
    /\ Stop(w)
    /\ UNCHANGED <<dataVars, campaign, job, faults>>

MyJob(w) == job[worker[w].campaign][worker[w].kb]
Target(w) == campaign[worker[w].campaign].target
\* Mutant: whoever has the job now.
Owns_Anyone(w) == MyJob(w).status = "running"
Owns(w) == MyJob(w).status = "running" /\ MyJob(w).owner = w
Holds(w) == Owns(w) /\ MyJob(w).live

\* A chunk that lacks its embedding is put to the model, under a renewed lease.
LoadPage(w) ==
    LET k == worker[w].kb IN
    /\ worker[w].at = "claimed"
    /\ IF Embedded(k, Target(w)) THEN At(w, "covering")
       ELSE IF Holds(w)
       THEN Set(w, [worker[w] EXCEPT !.at = "embedding", !.seen = content[k]])
       ELSE Stop(w)
    /\ UNCHANGED <<dataVars, campaign, job, faults>>

\* Mutant: the chunk is not compared with what was embedded.
WriteBatch_Blind(w) ==
    LET k == worker[w].kb IN
    /\ worker[w].at = "embedding"
    /\ IF Holds(w)
       THEN /\ At(w, "covering")
            /\ version' = IF content[k] # 0
                          THEN [version EXCEPT ![k][Target(w)] =
                                  [hash |-> content[k], vectorOf |-> worker[w].seen]]
                          ELSE version
       ELSE Stop(w) /\ UNCHANGED version
    /\ UNCHANGED <<config, kbStatus, content, campaign, job, faults>>

\* The vector is kept if the chunk is still the one it was made of.
WriteBatch(w) ==
    LET k == worker[w].kb IN
    /\ worker[w].at = "embedding"
    /\ IF Holds(w)
       THEN /\ At(w, "covering")
            /\ version' = IF content[k] = worker[w].seen
                          THEN [version EXCEPT ![k][Target(w)] =
                                  [hash |-> content[k], vectorOf |-> worker[w].seen]]
                          ELSE version
       ELSE Stop(w) /\ UNCHANGED version
    /\ UNCHANGED <<config, kbStatus, content, campaign, job, faults>>

Cover(w) ==
    /\ worker[w].at = "covering"
    /\ Set(w, [worker[w] EXCEPT !.at = "finishing",
                                !.whole = Embedded(worker[w].kb, Target(w))])
    /\ UNCHANGED <<dataVars, campaign, job, faults>>

\* _finish_job, its first transaction ...
FinishJob(w) ==
    /\ worker[w].at = "finishing"
    /\ IF Holds(w)
       THEN /\ SetJob(worker[w].campaign, worker[w].kb,
                      Job(IF worker[w].whole THEN "ready" ELSE "queued"))
            /\ At(w, "counting")
       ELSE Stop(w) /\ UNCHANGED job
    /\ UNCHANGED <<dataVars, campaign, faults>>

\* ... and its second: whoever finds all jobs ready opens the dual read,
\* whatever the campaign has become.  The index may refuse that.
Count(w) ==
    LET c == worker[w].campaign IN
    /\ worker[w].at = "counting"
    /\ ~Finalizing(c)
    /\ IF ~AllReady(c) THEN At(w, "claiming") /\ UNCHANGED campaign
       ELSE IF MayOpen(c)
       THEN /\ At(w, "claiming")
            /\ campaign' = [campaign EXCEPT ![c].status = "dual_read", ![c].due = FALSE]
       ELSE At(w, "failing") /\ UNCHANGED campaign
    /\ UNCHANGED <<dataVars, job, faults>>

-----------------------------------------------------------------------------
(* What goes wrong in it *)

\* An error of the model or of the database.
Breaks(w) ==
    /\ worker[w].at \in {"claimed", "embedding", "covering", "finishing", "counting"}
    /\ Fault
    /\ At(w, "failing")
    /\ UNCHANGED <<dataVars, campaign, job>>

\* _mark_job_failed: the job if it still is the worker's, then the campaign.
FailJob(w) ==
    /\ worker[w].at = "failing"
    /\ IF Owns(w) THEN SetJob(worker[w].campaign, worker[w].kb, Job("failed"))
                  ELSE UNCHANGED job
    /\ At(w, "failed")
    /\ UNCHANGED <<dataVars, campaign, faults>>

FailCampaign(w) ==
    /\ worker[w].at = "failed"
    /\ ~Finalizing(worker[w].campaign)
    /\ SetStatus(worker[w].campaign, "failed")
    /\ Stop(w)
    /\ UNCHANGED <<dataVars, job, faults>>

BudgetEnds(w) ==
    /\ worker[w].at = "embedding"
    /\ Fault
    /\ At(w, "pausing")
    /\ UNCHANGED <<dataVars, campaign, job>>

\* _release_budget_paused_job
PauseJob(w) ==
    /\ worker[w].at = "pausing"
    /\ IF Owns(w) THEN SetJob(worker[w].campaign, worker[w].kb, Job("queued"))
                  ELSE UNCHANGED job
    /\ At(w, "paused")
    /\ UNCHANGED <<dataVars, campaign, faults>>

PauseCampaign(w) ==
    LET c == worker[w].campaign IN
    /\ worker[w].at = "paused"
    /\ ~Finalizing(c)
    /\ IF Runs(c) THEN SetStatus(c, "running") ELSE UNCHANGED campaign
    /\ Stop(w)
    /\ UNCHANGED <<dataVars, job, faults>>

Crash(w) ==
    /\ worker[w].at # "idle"
    /\ Fault
    /\ Stop(w)
    /\ UNCHANGED <<dataVars, campaign, job>>

LeaseExpires ==
    /\ \E c \in Campaign, k \in Kb :
        /\ job[c][k].status = "running" /\ job[c][k].live
        /\ SetJob(c, k, [job[c][k] EXCEPT !.live = FALSE])
    /\ Fault
    /\ UNCHANGED <<dataVars, campaign, worker>>

-----------------------------------------------------------------------------
(* retry_embedding_campaign, for the latest campaign *)

Retry(w) ==
    /\ worker[w].at = "idle"
    /\ \E c \in Campaign :
        /\ campaign[c].status \in {"failed", "running", "queued"} /\ MayOpen(c)
        /\ \A d \in Campaign : d > c => ~Exists(d)
        /\ config = campaign[c].source
        /\ SetStatus(c, "queued")
        /\ Set(w, [Idle EXCEPT !.at = "requeueing", !.campaign = c])
    /\ UNCHANGED <<dataVars, job, faults>>

Requeue(w) ==
    LET c == worker[w].campaign IN
    /\ worker[w].at = "requeueing"
    /\ job' = [job EXCEPT ![c] = [k \in Kb |-> IF @[k].status = "failed"
                                               THEN Job("queued") ELSE @[k]]]
    /\ Stop(w)
    /\ UNCHANGED <<dataVars, campaign, faults>>

-----------------------------------------------------------------------------
(* finalize_due_embedding_campaigns *)

LockCampaign(w) ==
    /\ worker[w].at = "idle"
    /\ \E c \in Campaign :
        /\ campaign[c].status = "dual_read" /\ campaign[c].due
        /\ ~Finalizing(c)
        /\ Set(w, [Idle EXCEPT !.at = "locked", !.campaign = c])
    /\ UNCHANGED <<dataVars, campaign, job, faults>>

\* Mutant: what is ready is not compared with the content again.
Validate_Ready(w) ==
    LET c == worker[w].campaign IN
    /\ worker[w].at = "locked"
    /\ Set(w, [worker[w] EXCEPT !.at = "validated", !.kbs = Active,
                  !.whole = AllReady(c) /\ Jobs(c) = Active])
    /\ UNCHANGED <<dataVars, campaign, job, faults>>

\* In sessions of their own, which commit: jobs whose content has changed are
\* queued again.
Validate(w) ==
    LET c == worker[w].campaign
        Good(k) == job[c][k].status = "ready" /\ Embedded(k, campaign[c].target) IN
    /\ worker[w].at = "locked"
    /\ job' = [job EXCEPT ![c] =
                 [k \in Kb |-> IF @[k].status = "ready" /\ ~Good(k)
                               THEN Job("queued") ELSE @[k]]]
    /\ Set(w, [worker[w] EXCEPT !.at = "validated", !.kbs = Active,
                  !.whole = (\A k \in Jobs(c) : Good(k)) /\ Jobs(c) = Active])
    /\ UNCHANGED <<dataVars, campaign, faults>>

\* The switch, or another round, or the end of a campaign that started from
\* another model.
CutOver(w) ==
    LET c == worker[w].campaign IN
    /\ worker[w].at = "validated"
    /\ \/ /\ config # campaign[c].source
          /\ SetStatus(c, "failed") /\ UNCHANGED config
       \/ /\ config = campaign[c].source /\ ~worker[w].whole
          /\ Resumed(c) /\ UNCHANGED config
       \/ /\ config = campaign[c].source /\ worker[w].whole
          /\ SetStatus(c, "completed") /\ config' = campaign[c].target
    /\ Stop(w)
    /\ UNCHANGED <<kbStatus, content, version, job, faults>>

-----------------------------------------------------------------------------
(* What goes on meanwhile *)

\* The dual read has lasted long enough.
TimePasses ==
    /\ \E c \in Campaign :
        /\ campaign[c].status = "dual_read" /\ ~campaign[c].due
        /\ campaign' = [campaign EXCEPT ![c].due = TRUE]
    /\ UNCHANGED <<dataVars, job, worker, faults>>

\* Chunks are written, with an embedding under the configured model, and go.
Edit ==
    /\ ~ChunksLocked
    /\ Fault
    /\ \E k \in Active, n \in Content :
        /\ n # content[k]
        /\ content' = [content EXCEPT ![k] = n]
        /\ version' = [version EXCEPT ![k] =
              IF n = 0 THEN [m \in Model |-> NoVersion]
              ELSE [@ EXCEPT ![config] = [hash |-> n, vectorOf |-> n]]]
    /\ UNCHANGED <<config, kbStatus, campaign, job, worker>>

\* Knowledge bases are created, archived and restored.
ChangeKb ==
    /\ \E k \in Kb :
        kbStatus' = [kbStatus EXCEPT ![k] = IF @ = "active" THEN "archived" ELSE "active"]
    /\ Fault
    /\ UNCHANGED <<config, content, version, campaign, job, worker>>

-----------------------------------------------------------------------------
Prepare(w) == Probe(w) \/ Create(w) \/ ProbeFails(w) \/ Reconcile(w)
Ensure(w) == ReadKbs(w) \/ InsertJob(w) \/ CountJobs(w) \/ Repair(w) \/ CreateFails(w)
Execute(w) ==
    \/ Start(w) \/ Claim(w) \/ ClaimNothing(w) \/ LoadPage(w) \/ WriteBatch(w)
    \/ Cover(w) \/ FinishJob(w) \/ Count(w)
    \/ FailJob(w) \/ FailCampaign(w) \/ PauseJob(w) \/ PauseCampaign(w)
Again(w) == Retry(w) \/ Requeue(w)
Finalize(w) == LockCampaign(w) \/ Validate(w) \/ CutOver(w)

Next ==
    \/ \E w \in Worker :
        \/ Prepare(w) \/ Ensure(w) \/ Execute(w) \/ Again(w) \/ Finalize(w)
        \/ Breaks(w) \/ BudgetEnds(w) \/ Crash(w)
    \/ LeaseExpires \/ TimePasses \/ Edit \/ ChangeKb

Spec == Init /\ [][Next]_vars

-----------------------------------------------------------------------------
(* Properties *)

\* A stored vector was made of the text whose hash is stored with it, though
\* the chunk may be edited while the model computes.
VersionsAreTrue ==
    \A k \in Kb, m \in Model : version[k][m].hash = version[k][m].vectorOf

\* At the switch every chunk of every knowledge base the finalizer found active
\* is embedded under the new model as it is then, whatever was edited after its
\* job was ready and whatever late workers still do.
CutoverIsCovered ==
    [][config' # config =>
         \E w \in Worker : /\ worker[w].at = "validated"
                           /\ \A k \in worker[w].kbs : Embedded(k, config')]_vars

\* A worker that has lost its lease changes neither the job nor an embedding,
\* whether it goes on, breaks off or pauses.
LostWorkIsDropped ==
    [][\A w \in Worker :
         worker[w].kb # None /\ MyJob(w).owner # w /\ worker'[w] # worker[w]
         => worker'[w].at = "claimed" \/ UNCHANGED <<job, version>>]_vars

=============================================================================
