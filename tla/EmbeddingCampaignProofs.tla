----------------------- MODULE EmbeddingCampaignProofs -----------------------
(***************************************************************************)
(* The safety of the change of the embedding model for any number of       *)
(* knowledge bases, models, workers, campaigns and faults.  Its core: what *)
(* a finalizer has found embedded stays so until it switches, because it   *)
(* keeps the chunks locked and late workers write only true versions.      *)
(***************************************************************************)
EXTENDS EmbeddingCampaign, TLAPS

USE ModelAssumption, BoundAssumption

(***************************************************************************)
(* The invariant                                                           *)
(***************************************************************************)

VersionRecords == [hash : Content, vectorOf : Content]
CampaignRecords == [status : CampaignStatuses, source : Model, target : Model,
                    due : BOOLEAN]
JobRecords == [status : JobStatuses, owner : Worker \cup {None}, live : BOOLEAN]
WorkerRecords == [at : Places, campaign : Campaign \cup {None}, kb : Kb \cup {None},
                  kbs : SUBSET Kb, source : Model \cup {None},
                  target : Model \cup {None}, seen : Content, whole : BOOLEAN]

\* The parts of TypeOK.
DataTypes ==
    /\ config \in Model
    /\ kbStatus \in [Kb -> {"absent", "active", "archived"}]
    /\ content \in [Kb -> Content]
    /\ faults \in 0..MaxFaults
VersionTypes == version \in [Kb -> [Model -> VersionRecords]]
CampaignTypes == campaign \in [Campaign -> CampaignRecords]
JobTypes ==
    /\ job \in [Campaign -> [Kb -> JobRecords]]
    /\ \A c \in Campaign, k \in Kb :
        job[c][k].status = "running" <=> job[c][k].owner # None
WorkerTypes == worker \in [Worker -> WorkerRecords]

\* A process past its probe has a campaign that exists; one that works on a job
\* has a knowledge base, and one that does not has none.
Existing == {c \in Campaign : Exists(c)}
NoJobPlaces == {"idle", "probing", "ensuring", "inserting", "repairing",
                "requeueing", "locked", "validated"}
JobPlaces == {"claimed", "embedding", "covering", "finishing", "counting", "failing",
              "failed", "pausing", "paused"}
Fits(s, E) ==
    /\ s.at \notin {"idle", "probing"} => s.campaign \in E
    /\ s.at = "probing" => s.source \in Model /\ s.target \in Model
    /\ s.at \in NoJobPlaces => s.kb = None
    /\ s.at \in JobPlaces => s.kb \in Kb
WorkersInv == \A w \in Worker : Fits(worker[w], Existing)

\* What the finalizer has validated holds until it commits.
ValidatedInv ==
    \A w \in Worker : worker[w].at = "validated" /\ worker[w].whole
        => \A k \in worker[w].kbs : Embedded(k, campaign[worker[w].campaign].target)

Inv == TypeOK /\ WorkersInv /\ VersionsAreTrue /\ ValidatedInv

LEMMA TypeParts ==
    TypeOK <=> DataTypes /\ VersionTypes /\ CampaignTypes /\ JobTypes /\ WorkerTypes
BY DEF TypeOK, DataTypes, VersionTypes, CampaignTypes, JobTypes, WorkerTypes,
       VersionRecords, CampaignRecords, JobRecords, WorkerRecords

LEMMA IdleFits == /\ Idle \in WorkerRecords /\ Idle.at = "idle" /\ Idle.kb = None
                  /\ \A E : Fits(Idle, E)
<1>1. Idle \in WorkerRecords
  <2>1. 0 \in Content
    BY DEF Content
  <2>2. FALSE \in BOOLEAN
    OBVIOUS
  <2> QED
    BY <2>1, <2>2 DEF Idle, WorkerRecords, Places
<1> QED
  BY <1>1 DEF Idle, Fits, NoJobPlaces, JobPlaces

LEMMA JobIsRecord ==
    ASSUME NEW s \in {"absent", "queued", "ready", "failed"}
    PROVE  Job(s) \in JobRecords /\ Job(s).status = s /\ Job(s).owner = None
BY DEF Job, JobRecords, JobStatuses

LEMMA InitInv == Init => Inv
<1> SUFFICES ASSUME Init PROVE Inv
  OBVIOUS
<1>1. DataTypes
  <2>1. content \in [Kb -> Content]
    BY DEF Init, Content
  <2> QED
    BY <2>1 DEF Init, DataTypes
<1>2. VersionTypes
  <2>1. NoVersion \in VersionRecords
    BY DEF NoVersion, VersionRecords, Content
  <2>2. \A k \in Kb : [hash |-> content[k], vectorOf |-> content[k]] \in VersionRecords
    BY <1>1 DEF DataTypes, VersionRecords
  <2> QED
    BY <2>1, <2>2 DEF Init, VersionTypes
<1>3. CampaignTypes
  <2>1. NoCampaign \in CampaignRecords
    BY DEF NoCampaign, CampaignRecords, CampaignStatuses
  <2> QED
    BY <2>1 DEF Init, CampaignTypes
<1>4. JobTypes
  BY JobIsRecord DEF Init, JobTypes
<1>5. WorkerTypes /\ WorkersInv /\ ValidatedInv
  BY IdleFits DEF Init, WorkerTypes, WorkersInv, ValidatedInv
<1>6. VersionsAreTrue
  BY DEF Init, VersionsAreTrue, NoVersion
<1> QED
  BY <1>1, <1>2, <1>3, <1>4, <1>5, <1>6, TypeParts DEF Inv

-----------------------------------------------------------------------------
(***************************************************************************)
(* What the operators that steps are made of do                            *)
(***************************************************************************)

\* A process moves on: nothing else of it changes, and no other process.
LEMMA Moves ==
    ASSUME WorkerTypes, NEW w \in Worker, NEW p \in Places, At(w, p)
    PROVE  \E s \in WorkerRecords :
             /\ worker' = [worker EXCEPT ![w] = s]
             /\ s.at = p /\ s.campaign = worker[w].campaign /\ s.kb = worker[w].kb
<1> DEFINE s == [worker[w] EXCEPT !.at = p]
<1>1. /\ s \in WorkerRecords
      /\ s.at = p /\ s.campaign = worker[w].campaign /\ s.kb = worker[w].kb
  BY DEF WorkerTypes, WorkerRecords
<1>2. worker' = [worker EXCEPT ![w] = s]
  BY DEF At, Set
<1> HIDE DEF s
<1> QED
  BY <1>1, <1>2

\* What a step does to one process keeps the invariant of the processes.
LEMMA OneWorker ==
    ASSUME WorkerTypes, WorkersInv, NEW w \in Worker, NEW s \in WorkerRecords,
           worker' = [worker EXCEPT ![w] = s],
           Fits(s, Existing'), Existing \subseteq Existing'
    PROVE  WorkerTypes' /\ WorkersInv'
<1>1. \A v \in Worker : worker'[v] = IF v = w THEN s ELSE worker[v]
  BY DEF WorkerTypes
<1>2. \A v \in Worker \ {w} : Fits(worker[v], Existing')
  BY DEF WorkersInv, Fits
<1>3. WorkersInv'
  BY <1>1, <1>2 DEF WorkersInv
<1> QED
  BY <1>3 DEF WorkerTypes

LEMMA Statuses ==
    ASSUME CampaignTypes, NEW c \in Campaign, NEW s \in CampaignStatuses \ {"absent"},
           SetStatus(c, s)
    PROVE  /\ CampaignTypes'
           /\ \A d \in Campaign : campaign'[d].target = campaign[d].target
           /\ Existing \subseteq Existing'
<1> DEFINE r == [campaign[c] EXCEPT !.status = s]
<1>1. r \in CampaignRecords /\ r.status = s /\ r.target = campaign[c].target
  BY DEF CampaignTypes, CampaignRecords
<1>2. campaign' = [campaign EXCEPT ![c] = r]
  BY DEF SetStatus, CampaignTypes
<1> HIDE DEF r
<1> QED
  BY <1>1, <1>2 DEF CampaignTypes, Existing, Exists

LEMMA Resumptions ==
    ASSUME CampaignTypes, NEW c \in Campaign, NEW s \in Open, NEW b \in BOOLEAN,
           campaign' = [campaign EXCEPT ![c].status = s, ![c].due = b]
    PROVE  /\ CampaignTypes'
           /\ \A d \in Campaign : campaign'[d].target = campaign[d].target
           /\ Existing \subseteq Existing'
<1> DEFINE r == [campaign[c] EXCEPT !.status = s, !.due = b]
<1>1. r \in CampaignRecords /\ r.status # "absent" /\ r.target = campaign[c].target
  BY DEF CampaignTypes, CampaignRecords, CampaignStatuses, Open
<1>2. campaign' = [campaign EXCEPT ![c] = r]
  BY DEF CampaignTypes
<1> HIDE DEF r
<1> QED
  BY <1>1, <1>2 DEF CampaignTypes, Existing, Exists

LEMMA NewJob ==
    ASSUME JobTypes, NEW c \in Campaign, NEW k \in Kb, NEW r \in JobRecords,
           r.status = "running" <=> r.owner # None, SetJob(c, k, r)
    PROVE  JobTypes'
<1>1. job' = [job EXCEPT ![c] = [job[c] EXCEPT ![k] = r]]
  BY DEF SetJob, JobTypes
<1> DEFINE f == [job[c] EXCEPT ![k] = r]
<1>2. f \in [Kb -> JobRecords] /\ \A j \in Kb : f[j] = IF j = k THEN r ELSE job[c][j]
  BY DEF JobTypes
<1>3. job' = [job EXCEPT ![c] = f]
  BY <1>1
<1> HIDE DEF f
<1> QED
  BY <1>2, <1>3 DEF JobTypes

-----------------------------------------------------------------------------
(***************************************************************************)
(* The processes                                                           *)
(***************************************************************************)

\* Campaigns do not disappear, and keep their target.
CampaignsKept ==
    /\ CampaignTypes'
    /\ Existing \subseteq Existing'
    /\ \A d \in Existing : campaign'[d].target = campaign[d].target

\* A step of one process takes it to a place it may be at.
Moved(w) ==
    \E s \in WorkerRecords :
        /\ worker' = [worker EXCEPT ![w] = s]
        /\ Fits(s, Existing')
        /\ s.at = "validated" => Validate(w)

LEMMA StopMoves ==
    ASSUME NEW w \in Worker, Stop(w)
    PROVE  Moved(w)
<1>1. Idle \in WorkerRecords /\ Fits(Idle, Existing') /\ Idle.at # "validated"
  BY IdleFits
<1> QED
  BY <1>1 DEF Stop, Set, Moved

LEMMA SetMoves ==
    ASSUME NEW w \in Worker, NEW s \in WorkerRecords, Set(w, s),
           Fits(s, Existing'), s.at # "validated"
    PROVE  Moved(w)
BY DEF Set, Moved

LEMMA AtMoves ==
    ASSUME WorkerTypes, WorkersInv, CampaignsKept, NEW w \in Worker,
           NEW p \in Places \ {"validated", "idle", "probing"}, At(w, p),
           worker[w].at \notin {"idle", "probing"},
           p \in JobPlaces => worker[w].kb \in Kb,
           p \in NoJobPlaces => worker[w].kb = None
    PROVE  Moved(w)
<1>1. PICK s \in WorkerRecords :
             /\ worker' = [worker EXCEPT ![w] = s]
             /\ s.at = p /\ s.campaign = worker[w].campaign /\ s.kb = worker[w].kb
  BY Moves
<1>2. worker[w].campaign \in Existing'
  BY DEF WorkersInv, Fits, CampaignsKept
<1> QED
  BY <1>1, <1>2 DEF Fits, Moved

\* Everything a process does by itself.
Acts(w) ==
    \/ Prepare(w) \/ Ensure(w) \/ Execute(w) \/ Again(w) \/ Finalize(w)
    \/ Breaks(w) \/ BudgetEnds(w) \/ Crash(w)

LEMMA PreparingMoves ==
    ASSUME Inv, CampaignsKept, NEW w \in Worker, Prepare(w)
    PROVE  Moved(w)
<1>1. DataTypes /\ CampaignTypes /\ WorkerTypes /\ WorkersInv
  BY TypeParts DEF Inv
<1>2. CASE Probe(w)
  <2>1. PICK m \in Model :
          Set(w, [Idle EXCEPT !.at = "probing", !.kbs = Active, !.source = config,
                              !.target = m])
    BY <1>2 DEF Probe
  <2> DEFINE s == [Idle EXCEPT !.at = "probing", !.kbs = Active, !.source = config,
                               !.target = m]
  <2>2. /\ s \in WorkerRecords /\ s.at = "probing" /\ s.kb = None
        /\ s.source \in Model /\ s.target \in Model
    BY <1>1, IdleFits DEF WorkerRecords, Places, DataTypes, Active
  <2>3. Set(w, s) /\ Fits(s, Existing')
    BY <2>1, <2>2 DEF Fits, JobPlaces
  <2> HIDE DEF s
  <2> QED
    BY <2>2, <2>3, SetMoves
<1>3. CASE Create(w)
  <2>1. worker[w].source \in Model
    BY <1>1, <1>3 DEF Create, WorkersInv, Fits
  <2>2. ASSUME NEW c \in Campaign, NEW x \in {worker[w].source, None}, c \in Existing',
               Set(w, [Idle EXCEPT !.at = "ensuring", !.campaign = c, !.source = x])
        PROVE  Moved(w)
    <3> DEFINE s == [Idle EXCEPT !.at = "ensuring", !.campaign = c, !.source = x]
    <3>1. s \in WorkerRecords /\ s.at = "ensuring" /\ s.kb = None /\ s.campaign = c
      BY <2>1, IdleFits DEF WorkerRecords, Places
    <3>2. Set(w, s) /\ Fits(s, Existing')
      BY <2>2, <3>1 DEF Fits, JobPlaces
    <3> HIDE DEF s
    <3> QED
      BY <3>1, <3>2, SetMoves
  <2>3. ASSUME NEW c \in Campaign, c \in Existing',
               Set(w, [Idle EXCEPT !.at = "ensuring", !.campaign = c])
        PROVE  Moved(w)
    <3> DEFINE s == [Idle EXCEPT !.at = "ensuring", !.campaign = c]
    <3>1. s \in WorkerRecords /\ s.at = "ensuring" /\ s.kb = None /\ s.campaign = c
      BY IdleFits DEF WorkerRecords, Places
    <3>2. Set(w, s) /\ Fits(s, Existing')
      BY <2>3, <3>1 DEF Fits, JobPlaces
    <3> HIDE DEF s
    <3> QED
      BY <3>1, <3>2, SetMoves
  <2>4. ASSUME NEW c \in Campaign,
               campaign' = [campaign EXCEPT ![c] =
                    [status |-> IF worker[w].kbs = {} THEN "dual_read" ELSE "queued",
                     source |-> worker[w].source, target |-> worker[w].target,
                     due |-> FALSE]],
               Set(w, [Idle EXCEPT !.at = "ensuring", !.campaign = c,
                                   !.source = worker[w].source])
        PROVE  Moved(w)
    <3>1. c \in Existing'
      BY <1>1, <2>4 DEF CampaignTypes, Existing, Exists
    <3> QED
      BY <2>2, <2>4, <3>1
  <2>5. ASSUME NEW c \in Campaign, IsOpen(c), UNCHANGED campaign,
               IF campaign[c].target = worker[w].target
               THEN Set(w, [Idle EXCEPT !.at = "ensuring", !.campaign = c])
               ELSE Stop(w)
        PROVE  Moved(w)
    <3>1. c \in Existing'
      BY <2>5 DEF Existing, Exists, IsOpen, Open
    <3> QED
      BY <2>3, <2>5, <3>1, StopMoves
  <2> QED
    BY <1>3, <2>4, <2>5 DEF Create
<1>4. CASE ProbeFails(w)
  BY <1>4, StopMoves DEF ProbeFails
<1>5. CASE Reconcile(w)
  <2>1. PICK c \in Campaign :
          /\ IsOpen(c) /\ UNCHANGED campaign
          /\ Set(w, [Idle EXCEPT !.at = "ensuring", !.campaign = c])
    BY <1>5 DEF Reconcile
  <2> DEFINE s == [Idle EXCEPT !.at = "ensuring", !.campaign = c]
  <2>2. s \in WorkerRecords /\ s.at = "ensuring" /\ s.kb = None /\ s.campaign = c
    BY IdleFits DEF WorkerRecords, Places
  <2>3. Set(w, s) /\ Fits(s, Existing')
    BY <2>1, <2>2 DEF Fits, JobPlaces, Existing, Exists, IsOpen, Open
  <2> HIDE DEF s
  <2> QED
    BY <2>2, <2>3, SetMoves
<1> QED
  BY <1>2, <1>3, <1>4, <1>5 DEF Prepare

LEMMA EnsuringMoves ==
    ASSUME Inv, CampaignsKept, NEW w \in Worker, Ensure(w)
    PROVE  Moved(w)
<1>1. WorkerTypes /\ WorkersInv
  BY TypeParts DEF Inv
<1>2. ASSUME NEW s \in WorkerRecords, Set(w, s), worker[w].at \in {"ensuring", "inserting"},
             s.at \in {"inserting", "repairing"}, s.kb = worker[w].kb,
             s.campaign = worker[w].campaign
      PROVE  Moved(w)
  <2>1. Fits(s, Existing')
    BY <1>1, <1>2 DEF WorkersInv, Fits, CampaignsKept, NoJobPlaces, JobPlaces
  <2> QED
    BY <1>2, <2>1, SetMoves
<1>3. worker[w] \in WorkerRecords
  BY <1>1 DEF WorkerTypes
<1>4. CASE ReadKbs(w)
  <2> DEFINE s == [worker[w] EXCEPT !.at = "inserting", !.kbs = Active]
  <2>1. /\ s \in WorkerRecords /\ s.at = "inserting"
        /\ s.kb = worker[w].kb /\ s.campaign = worker[w].campaign
    BY <1>3 DEF WorkerRecords, Places, Active
  <2>2. Set(w, s) /\ worker[w].at = "ensuring"
    BY <1>4 DEF ReadKbs
  <2> HIDE DEF s
  <2> QED
    BY <1>2, <2>1, <2>2
<1>5. CASE InsertJob(w)
  <2>1. PICK k \in worker[w].kbs : Set(w, [worker[w] EXCEPT !.kbs = worker[w].kbs \ {k}])
    BY <1>5 DEF InsertJob
  <2> DEFINE s == [worker[w] EXCEPT !.kbs = worker[w].kbs \ {k}]
  <2>2. /\ s \in WorkerRecords /\ s.at = worker[w].at
        /\ s.kb = worker[w].kb /\ s.campaign = worker[w].campaign
    BY <1>3 DEF WorkerRecords
  <2>3. Set(w, s) /\ worker[w].at = "inserting"
    BY <1>5, <2>1 DEF InsertJob
  <2> HIDE DEF s
  <2> QED
    BY <1>2, <2>2, <2>3
<1>6. CASE CountJobs(w)
  <2>1. AllReady(worker[w].campaign) \in BOOLEAN
    BY Zenon DEF AllReady
  <2> DEFINE b == AllReady(worker[w].campaign)
             s == [worker[w] EXCEPT !.at = "repairing", !.whole = b]
  <2>2. Set(w, s) /\ worker[w].at = "inserting"
    BY <1>6 DEF CountJobs
  <2>3. b \in BOOLEAN
    BY <2>1
  <2> HIDE DEF b
  <2>4. /\ s \in WorkerRecords /\ s.at = "repairing"
        /\ s.kb = worker[w].kb /\ s.campaign = worker[w].campaign
    BY <1>3, <2>3 DEF WorkerRecords, Places
  <2> HIDE DEF s
  <2> QED
    BY <1>2, <2>2, <2>4
<1>7. CASE Repair(w) \/ CreateFails(w)
  BY <1>7, StopMoves DEF Repair, CreateFails
<1> QED
  BY <1>4, <1>5, <1>6, <1>7 DEF Ensure

LEMMA ExecutingMoves ==
    ASSUME Inv, CampaignsKept, NEW w \in Worker,
           Execute(w) \/ Breaks(w) \/ BudgetEnds(w) \/ Crash(w)
    PROVE  Moved(w)
<1>1. DataTypes /\ WorkerTypes /\ WorkersInv
  BY TypeParts DEF Inv
<1>2. worker[w] \in WorkerRecords /\ Fits(worker[w], Existing)
  BY <1>1 DEF WorkerTypes, WorkersInv
<1>3. ASSUME NEW p \in JobPlaces \cup {"claiming"}, At(w, p), worker[w].at \in JobPlaces
      PROVE  Moved(w)
  <2>1. /\ p \in Places \ {"validated", "idle", "probing"} /\ p \notin NoJobPlaces
        /\ worker[w].at \notin {"idle", "probing"} /\ worker[w].kb \in Kb
    BY <1>2, <1>3 DEF JobPlaces, NoJobPlaces, Places, Fits
  <2> QED
    BY <1>1, <1>3, <2>1, AtMoves
<1>4. ASSUME NEW s \in WorkerRecords, Set(w, s), worker[w].at \notin {"idle", "probing"},
             s.at \in JobPlaces, s.kb \in Kb, s.campaign = worker[w].campaign
      PROVE  Moved(w)
  <2>1. Fits(s, Existing') /\ s.at # "validated"
    BY <1>2, <1>4 DEF Fits, CampaignsKept, NoJobPlaces, JobPlaces
  <2> QED
    BY <1>4, <2>1, SetMoves
<1>5. CASE Start(w)
  <2>1. PICK c \in Campaign :
          /\ Runs(c) /\ UNCHANGED campaign
          /\ Set(w, [Idle EXCEPT !.at = "claiming", !.campaign = c])
    BY <1>5 DEF Start
  <2> DEFINE s == [Idle EXCEPT !.at = "claiming", !.campaign = c]
  <2>2. s \in WorkerRecords /\ s.at = "claiming" /\ s.kb = None /\ s.campaign = c
    BY IdleFits DEF WorkerRecords, Places
  <2>3. Set(w, s) /\ Fits(s, Existing')
    BY <2>1, <2>2 DEF Fits, JobPlaces, Existing, Exists, Runs
  <2> HIDE DEF s
  <2> QED
    BY <2>2, <2>3, SetMoves
<1>6. CASE Claim(w)
  <2>1. PICK k \in Kb : Set(w, [worker[w] EXCEPT !.at = "claimed", !.kb = k])
    BY <1>6 DEF Claim, Jobs
  <2> DEFINE s == [worker[w] EXCEPT !.at = "claimed", !.kb = k]
  <2>2. /\ s \in WorkerRecords /\ s.at = "claimed" /\ s.kb = k
        /\ s.campaign = worker[w].campaign
    BY <1>2 DEF WorkerRecords, Places
  <2>3. Set(w, s) /\ worker[w].at = "claiming"
    BY <1>6, <2>1 DEF Claim
  <2> HIDE DEF s
  <2> QED
    BY <1>4, <2>2, <2>3 DEF JobPlaces
<1>7. CASE LoadPage(w)
  <2>1. worker[w].at = "claimed" /\ worker[w].kb \in Kb
    BY <1>2, <1>7 DEF LoadPage, Fits, JobPlaces
  <2> DEFINE s == [worker[w] EXCEPT !.at = "embedding", !.seen = content[worker[w].kb]]
  <2>2. /\ s \in WorkerRecords /\ s.at = "embedding" /\ s.kb = worker[w].kb
        /\ s.campaign = worker[w].campaign
    BY <1>1, <1>2, <2>1 DEF WorkerRecords, Places, DataTypes
  <2>3. At(w, "covering") \/ Set(w, s) \/ Stop(w)
    BY <1>7 DEF LoadPage
  <2> HIDE DEF s
  <2> QED
    BY <1>3, <1>4, <2>1, <2>2, <2>3, StopMoves DEF JobPlaces
<1>8. CASE WriteBatch(w) \/ FinishJob(w) \/ Count(w)
  BY <1>3, <1>8, StopMoves DEF WriteBatch, FinishJob, Count, JobPlaces
<1>9. CASE Cover(w)
  <2>1. worker[w].at = "covering" /\ worker[w].kb \in Kb
    BY <1>2, <1>9 DEF Cover, Fits, JobPlaces
  <2>2. Embedded(worker[w].kb, Target(w)) \in BOOLEAN
    BY Zenon DEF Embedded
  <2> DEFINE b == Embedded(worker[w].kb, Target(w))
             s == [worker[w] EXCEPT !.at = "finishing", !.whole = b]
  <2>3. Set(w, s)
    BY <1>9 DEF Cover
  <2>4. b \in BOOLEAN
    BY <2>2
  <2> HIDE DEF b
  <2>5. /\ s \in WorkerRecords /\ s.at = "finishing" /\ s.kb = worker[w].kb
        /\ s.campaign = worker[w].campaign
    BY <1>2, <2>4 DEF WorkerRecords, Places
  <2> HIDE DEF s
  <2> QED
    BY <1>4, <2>1, <2>3, <2>5 DEF JobPlaces
<1>10. CASE ClaimNothing(w) \/ FailCampaign(w) \/ PauseCampaign(w) \/ Crash(w)
  BY <1>10, StopMoves DEF ClaimNothing, FailCampaign, PauseCampaign, Crash
<1>11. CASE FailJob(w) \/ PauseJob(w) \/ Breaks(w) \/ BudgetEnds(w)
  BY <1>3, <1>11 DEF FailJob, PauseJob, Breaks, BudgetEnds, JobPlaces
<1> QED
  BY <1>5, <1>6, <1>7, <1>8, <1>9, <1>10, <1>11 DEF Execute

LEMMA FinalizingMoves ==
    ASSUME Inv, CampaignsKept, NEW w \in Worker, Again(w) \/ Finalize(w)
    PROVE  Moved(w)
<1>1. WorkerTypes /\ WorkersInv
  BY TypeParts DEF Inv
<1>2. worker[w] \in WorkerRecords /\ Fits(worker[w], Existing)
  BY <1>1 DEF WorkerTypes, WorkersInv
<1>3. ASSUME NEW c \in Existing', NEW p \in {"requeueing", "locked"},
             Set(w, [Idle EXCEPT !.at = p, !.campaign = c])
      PROVE  Moved(w)
  <2> DEFINE s == [Idle EXCEPT !.at = p, !.campaign = c]
  <2>1. s \in WorkerRecords /\ s.at = p /\ s.kb = None /\ s.campaign = c
    BY IdleFits DEF WorkerRecords, Places, Existing
  <2>2. Set(w, s) /\ Fits(s, Existing')
    BY <1>3, <2>1 DEF Fits, JobPlaces
  <2> HIDE DEF s
  <2> QED
    BY <2>1, <2>2, SetMoves
<1>4. CASE Retry(w)
  <2>1. PICK c \in Existing : Set(w, [Idle EXCEPT !.at = "requeueing", !.campaign = c])
    BY <1>4 DEF Retry, Existing, Exists
  <2> QED
    BY <1>3, <2>1 DEF CampaignsKept
<1>5. CASE LockCampaign(w)
  <2>1. PICK c \in Existing : Set(w, [Idle EXCEPT !.at = "locked", !.campaign = c])
    BY <1>5 DEF LockCampaign, Existing, Exists
  <2> QED
    BY <1>3, <2>1 DEF CampaignsKept
<1>6. CASE Requeue(w) \/ CutOver(w)
  BY <1>6, StopMoves DEF Requeue, CutOver
<1>7. CASE Validate(w)
  <2> DEFINE c == worker[w].campaign
             Good(k) == job[c][k].status = "ready" /\ Embedded(k, campaign[c].target)
             b == (\A k \in Jobs(c) : Good(k)) /\ Jobs(c) = Active
             s == [worker[w] EXCEPT !.at = "validated", !.kbs = Active, !.whole = b]
  <2>1. Set(w, s) /\ worker[w].at = "locked"
    BY <1>7 DEF Validate
  <2>2. b \in BOOLEAN
    BY Zenon
  <2> HIDE DEF b
  <2>3. /\ s \in WorkerRecords /\ s.at = "validated" /\ s.kb = worker[w].kb
        /\ s.campaign = worker[w].campaign
    BY <1>2, <2>2 DEF WorkerRecords, Places, Active
  <2> HIDE DEF s
  <2>4. Fits(s, Existing')
    BY <1>2, <2>1, <2>3 DEF Fits, CampaignsKept, NoJobPlaces, JobPlaces
  <2> QED
    BY <1>7, <2>1, <2>3, <2>4 DEF Moved, Set
<1> QED
  BY <1>4, <1>5, <1>6, <1>7 DEF Again, Finalize

LEMMA ActingMoves ==
    ASSUME Inv, CampaignsKept, NEW w \in Worker, Acts(w)
    PROVE  /\ WorkerTypes' /\ WorkersInv'
           /\ \A v \in Worker \ {w} : worker'[v] = worker[v]
           /\ worker'[w].at = "validated" => Validate(w)
<1>1. Moved(w)
  BY PreparingMoves, EnsuringMoves, ExecutingMoves, FinalizingMoves DEF Acts
<1>2. WorkerTypes /\ WorkersInv
  BY TypeParts DEF Inv
<1>3. PICK s \in WorkerRecords :
        /\ worker' = [worker EXCEPT ![w] = s]
        /\ Fits(s, Existing')
        /\ s.at = "validated" => Validate(w)
  BY <1>1 DEF Moved
<1>4. WorkerTypes' /\ WorkersInv'
  BY <1>2, <1>3, OneWorker DEF CampaignsKept
<1> QED
  BY <1>2, <1>3, <1>4 DEF WorkerTypes

-----------------------------------------------------------------------------
(***************************************************************************)
(* The rows                                                                *)
(***************************************************************************)

LEMMA CampaignStep ==
    ASSUME Inv, [Next]_vars
    PROVE  CampaignsKept
<1>1. CampaignTypes /\ WorkerTypes /\ WorkersInv
  BY TypeParts DEF Inv
<1>2. ASSUME UNCHANGED campaign PROVE CampaignsKept
  BY <1>1, <1>2 DEF CampaignsKept, CampaignTypes, Existing, Exists
<1>3. ASSUME NEW w \in Worker, worker[w].at \notin {"idle", "probing"}
      PROVE  worker[w].campaign \in Campaign
  BY <1>1, <1>3 DEF WorkersInv, Fits, Existing
<1>4. ASSUME NEW c \in Campaign, NEW s \in CampaignStatuses \ {"absent"}, SetStatus(c, s)
      PROVE  CampaignsKept
  <2>1. /\ CampaignTypes' /\ Existing \subseteq Existing'
        /\ \A d \in Campaign : campaign'[d].target = campaign[d].target
    BY <1>1, <1>4, Statuses
  <2> QED
    BY <2>1 DEF CampaignsKept, Existing
<1>5. ASSUME NEW c \in Campaign, NEW s \in Open, NEW b \in BOOLEAN,
             campaign' = [campaign EXCEPT ![c].status = s, ![c].due = b]
      PROVE  CampaignsKept
  <2>1. /\ CampaignTypes' /\ Existing \subseteq Existing'
        /\ \A d \in Campaign : campaign'[d].target = campaign[d].target
    BY <1>1, <1>5, Resumptions
  <2> QED
    BY <2>1 DEF CampaignsKept, Existing
<1>6. {"queued", "running", "completed", "failed"} \subseteq CampaignStatuses \ {"absent"}
  BY DEF CampaignStatuses, Open
<1>7. ASSUME NEW w \in Worker, Create(w) PROVE CampaignsKept
  <2>1. CASE UNCHANGED campaign
    BY <1>2, <2>1
  <2>2. CASE ~UNCHANGED campaign
    <3> DEFINE r == [status |-> IF worker[w].kbs = {} THEN "dual_read" ELSE "queued",
                     source |-> worker[w].source, target |-> worker[w].target,
                     due |-> FALSE]
    <3>1. PICK c \in Campaign : ~Exists(c) /\ campaign' = [campaign EXCEPT ![c] = r]
      BY <1>7, <2>2 DEF Create
    <3>2. worker[w].source \in Model /\ worker[w].target \in Model
      BY <1>1, <1>7 DEF Create, WorkersInv, Fits
    <3>3. r \in CampaignRecords /\ r.status # "absent"
      BY <3>2 DEF CampaignRecords, CampaignStatuses, Open
    <3> HIDE DEF r
    <3>4. \A d \in Campaign : campaign'[d] = IF d = c THEN r ELSE campaign[d]
      BY <1>1, <3>1 DEF CampaignTypes
    <3>5. CampaignTypes'
      BY <1>1, <3>1, <3>3 DEF CampaignTypes
    <3> QED
      BY <3>1, <3>3, <3>4, <3>5 DEF CampaignsKept, Existing, Exists
  <2> QED
    BY <2>1, <2>2
<1>8. ASSUME NEW w \in Worker, Repair(w) PROVE CampaignsKept
  <2>1. worker[w].campaign \in Campaign
    BY <1>3, <1>8 DEF Repair
  <2> QED
    BY <1>2, <1>5, <1>8, <2>1 DEF Repair, Resumed, Open
<1>9. ASSUME NEW w \in Worker, CreateFails(w) \/ FailCampaign(w) \/ PauseCampaign(w)
      PROVE  CampaignsKept
  <2>1. worker[w].campaign \in Campaign
    BY <1>3, <1>9 DEF CreateFails, FailCampaign, PauseCampaign
  <2>2. \/ SetStatus(worker[w].campaign, "failed")
        \/ SetStatus(worker[w].campaign, "running")
        \/ UNCHANGED campaign
    BY <1>9 DEF CreateFails, FailCampaign, PauseCampaign
  <2> QED
    BY <1>2, <1>4, <1>6, <2>1, <2>2
<1>10. ASSUME NEW w \in Worker, Claim(w) PROVE CampaignsKept
  <2>1. worker[w].campaign \in Campaign /\ SetStatus(worker[w].campaign, "running")
    BY <1>3, <1>10 DEF Claim
  <2> QED
    BY <1>4, <1>6, <2>1
<1>11. ASSUME NEW w \in Worker, Count(w) PROVE CampaignsKept
  <2>1. worker[w].campaign \in Campaign
    BY <1>3, <1>11 DEF Count
  <2> QED
    BY <1>2, <1>5, <1>11, <2>1 DEF Count, Open
<1>12. ASSUME NEW w \in Worker, Retry(w) PROVE CampaignsKept
  BY <1>4, <1>6, <1>12 DEF Retry
<1>13. ASSUME NEW w \in Worker, CutOver(w) PROVE CampaignsKept
  <2>1. worker[w].campaign \in Campaign
    BY <1>3, <1>13 DEF CutOver
  <2>2. CASE SetStatus(worker[w].campaign, "failed") \/ SetStatus(worker[w].campaign, "completed")
    BY <1>4, <1>6, <2>1, <2>2
  <2>3. CASE Resumed(worker[w].campaign)
    BY <1>5, <2>1, <2>3 DEF Resumed, Open
  <2> QED
    BY <1>13, <2>2, <2>3 DEF CutOver
<1>14. ASSUME TimePasses PROVE CampaignsKept
  <2>1. PICK c \in Campaign : /\ campaign[c].status = "dual_read"
                             /\ campaign' = [campaign EXCEPT ![c].due = TRUE]
    BY <1>14 DEF TimePasses
  <2> DEFINE r == [campaign[c] EXCEPT !.due = TRUE]
  <2>2. r \in CampaignRecords /\ r.status = "dual_read" /\ r.target = campaign[c].target
    BY <1>1, <2>1 DEF CampaignTypes, CampaignRecords
  <2>3. campaign' = [campaign EXCEPT ![c] = r]
    BY <1>1, <2>1 DEF CampaignTypes
  <2> HIDE DEF r
  <2> QED
    BY <1>1, <2>2, <2>3 DEF CampaignsKept, CampaignTypes, Existing, Exists
<1>15. ASSUME NEW w \in Worker, Acts(w), ~Create(w), ~Repair(w), ~CreateFails(w),
              ~FailCampaign(w), ~PauseCampaign(w), ~Claim(w), ~Count(w), ~Retry(w),
              ~CutOver(w)
       PROVE  CampaignsKept
  <2>1. UNCHANGED campaign
    BY <1>15 DEF Acts, Prepare, Ensure, Execute, Again, Finalize, Probe, ProbeFails,
           Reconcile, ReadKbs, InsertJob, CountJobs, Start, ClaimNothing, LoadPage,
           WriteBatch, Cover, FinishJob, FailJob, PauseJob, Requeue, LockCampaign,
           Validate, Breaks, BudgetEnds, Crash
  <2> QED
    BY <1>2, <2>1
<1>16. CASE LeaseExpires \/ Edit \/ ChangeKb \/ UNCHANGED vars
  BY <1>2, <1>16 DEF LeaseExpires, Edit, ChangeKb, vars
<1>17. ASSUME NEW w \in Worker, Acts(w) PROVE CampaignsKept
  BY <1>7, <1>8, <1>9, <1>10, <1>11, <1>12, <1>13, <1>15, <1>17
<1> QED
  BY <1>14, <1>16, <1>17 DEF Next, Acts

LEMMA JobStep ==
    ASSUME Inv, [Next]_vars
    PROVE  JobTypes'
<1>1. JobTypes /\ WorkerTypes /\ WorkersInv
  BY TypeParts DEF Inv
<1>2. ASSUME UNCHANGED job PROVE JobTypes'
  BY <1>1, <1>2 DEF JobTypes
<1>3. ASSUME NEW w \in Worker, worker[w].at \notin {"idle", "probing"}
      PROVE  worker[w].campaign \in Campaign
  BY <1>1, <1>3 DEF WorkersInv, Fits, Existing
<1>4. ASSUME NEW w \in Worker, worker[w].at \in JobPlaces
      PROVE  worker[w].campaign \in Campaign /\ worker[w].kb \in Kb
  BY <1>1, <1>4 DEF WorkersInv, Fits, Existing, JobPlaces
<1>5. ASSUME NEW c \in Campaign, NEW k \in Kb, NEW s \in {"queued", "ready", "failed"},
             SetJob(c, k, Job(s))
      PROVE  JobTypes'
  <2>1. Job(s) \in JobRecords /\ (Job(s).status = "running" <=> Job(s).owner # None)
    BY JobIsRecord
  <2> QED
    BY <1>1, <1>5, <2>1, NewJob
<1>6. ASSUME NEW w \in Worker, InsertJob(w) PROVE JobTypes'
  <2>1. worker[w].campaign \in Campaign /\ worker[w].kbs \subseteq Kb
    BY <1>1, <1>3, <1>6 DEF InsertJob, WorkerTypes, WorkerRecords
  <2> QED
    BY <1>2, <1>5, <1>6, <2>1 DEF InsertJob, SetJob
<1>7. ASSUME NEW w \in Worker, Claim(w) PROVE JobTypes'
  <2> DEFINE r == [status |-> "running", owner |-> w, live |-> TRUE]
  <2>1. PICK k \in Kb : SetJob(worker[w].campaign, k, r)
    BY <1>7 DEF Claim, Jobs
  <2>2. r \in JobRecords /\ (r.status = "running" <=> r.owner # None)
    BY DEF JobRecords, JobStatuses
  <2>3. worker[w].campaign \in Campaign
    BY <1>3, <1>7 DEF Claim
  <2> HIDE DEF r
  <2> QED
    BY <1>1, <2>1, <2>2, <2>3, NewJob
<1>8. ASSUME NEW w \in Worker, FinishJob(w) \/ FailJob(w) \/ PauseJob(w) PROVE JobTypes'
  <2>1. worker[w].campaign \in Campaign /\ worker[w].kb \in Kb
    BY <1>4, <1>8 DEF FinishJob, FailJob, PauseJob, JobPlaces
  <2>2. \/ \E s \in {"queued", "ready", "failed"} :
             SetJob(worker[w].campaign, worker[w].kb, Job(s))
        \/ UNCHANGED job
    BY <1>8 DEF FinishJob, FailJob, PauseJob
  <2> QED
    BY <1>2, <1>5, <2>1, <2>2
<1>9. ASSUME NEW w \in Worker, NEW c \in Campaign, NEW f \in [Kb -> JobRecords],
             \A k \in Kb : f[k] \in {job[c][k], Job("queued")},
             job' = [job EXCEPT ![c] = f]
      PROVE  JobTypes'
  <2>1. Job("queued").status = "queued" /\ Job("queued").owner = None
    BY JobIsRecord
  <2> QED
    BY <1>1, <1>9, <2>1 DEF JobTypes
<1>10. ASSUME NEW w \in Worker, Requeue(w) PROVE JobTypes'
  <2> DEFINE c == worker[w].campaign
             f == [k \in Kb |-> IF job[c][k].status = "failed" THEN Job("queued")
                                ELSE job[c][k]]
  <2>1. c \in Campaign
    BY <1>3, <1>10 DEF Requeue
  <2>2. job' = [job EXCEPT ![c] = f]
    BY <1>10 DEF Requeue
  <2>3. f \in [Kb -> JobRecords] /\ \A k \in Kb : f[k] \in {job[c][k], Job("queued")}
    BY <1>1, <2>1, JobIsRecord DEF JobTypes
  <2> HIDE DEF c, f
  <2> QED
    BY <1>9, <2>1, <2>2, <2>3
<1>11. ASSUME NEW w \in Worker, Validate(w) PROVE JobTypes'
  <2> DEFINE c == worker[w].campaign
             Good(k) == job[c][k].status = "ready" /\ Embedded(k, campaign[c].target)
             f == [k \in Kb |-> IF job[c][k].status = "ready" /\ ~Good(k)
                                THEN Job("queued") ELSE job[c][k]]
  <2>1. c \in Campaign
    BY <1>3, <1>11 DEF Validate
  <2>2. job' = [job EXCEPT ![c] = f]
    BY <1>11 DEF Validate
  <2> HIDE DEF Good
  <2>3. f \in [Kb -> JobRecords] /\ \A k \in Kb : f[k] \in {job[c][k], Job("queued")}
    BY <1>1, <2>1, JobIsRecord DEF JobTypes
  <2> HIDE DEF c, f
  <2> QED
    BY <1>9, <2>1, <2>2, <2>3
<1>12. ASSUME LeaseExpires PROVE JobTypes'
  <2>1. PICK c \in Campaign, k \in Kb :
          SetJob(c, k, [job[c][k] EXCEPT !.live = FALSE])
    BY <1>12 DEF LeaseExpires
  <2> DEFINE r == [job[c][k] EXCEPT !.live = FALSE]
  <2>2. /\ r \in JobRecords /\ r.status = job[c][k].status /\ r.owner = job[c][k].owner
    <3>1. job[c][k] \in JobRecords
      BY <1>1 DEF JobTypes
    <3> QED
      BY <3>1 DEF JobRecords
  <2>3. SetJob(c, k, r)
    BY <2>1
  <2> HIDE DEF r
  <2>4. r.status = "running" <=> r.owner # None
    BY <1>1, <2>2 DEF JobTypes
  <2> QED
    BY <1>1, <2>2, <2>3, <2>4, NewJob
<1>13. ASSUME NEW w \in Worker, Acts(w), ~InsertJob(w), ~Claim(w), ~FinishJob(w),
              ~FailJob(w), ~PauseJob(w), ~Requeue(w), ~Validate(w)
       PROVE  JobTypes'
  <2>1. UNCHANGED job
    BY <1>13 DEF Acts, Prepare, Ensure, Execute, Again, Finalize, Probe, Create, ProbeFails,
           Reconcile, ReadKbs, CountJobs, Repair, CreateFails, Start, ClaimNothing,
           LoadPage, WriteBatch, Cover, Count, FailCampaign, PauseCampaign, Retry,
           LockCampaign, CutOver, Breaks, BudgetEnds, Crash
  <2> QED
    BY <1>2, <2>1
<1>14. CASE TimePasses \/ Edit \/ ChangeKb \/ UNCHANGED vars
  BY <1>2, <1>14 DEF TimePasses, Edit, ChangeKb, vars
<1>15. ASSUME NEW w \in Worker, Acts(w) PROVE JobTypes'
  BY <1>6, <1>7, <1>8, <1>10, <1>11, <1>13, <1>15
<1> QED
  BY <1>12, <1>14, <1>15 DEF Next, Acts

\* A stored vector stays true: the chunk is edited with its embedding, or the
\* vector is written only if the chunk is as it was read.
LEMMA VersionStep ==
    ASSUME Inv, [Next]_vars
    PROVE  VersionTypes' /\ VersionsAreTrue'
<1>1. VersionTypes /\ VersionsAreTrue /\ DataTypes /\ CampaignTypes /\ WorkerTypes /\ WorkersInv
  BY TypeParts DEF Inv
<1>2. ASSUME UNCHANGED version PROVE VersionTypes' /\ VersionsAreTrue'
  BY <1>1, <1>2 DEF VersionTypes, VersionsAreTrue
<1>3. ASSUME NEW k \in Kb, NEW f \in [Model -> VersionRecords],
             \A m \in Model : f[m].hash = f[m].vectorOf,
             version' = [version EXCEPT ![k] = f]
      PROVE  VersionTypes' /\ VersionsAreTrue'
  BY <1>1, <1>3 DEF VersionTypes, VersionsAreTrue
<1>4. ASSUME NEW k \in Kb, NEW m \in Model, NEW n \in Content
      PROVE  LET f == [version[k] EXCEPT ![m] = [hash |-> n, vectorOf |-> n]] IN
             f \in [Model -> VersionRecords] /\ \A d \in Model : f[d].hash = f[d].vectorOf
  <2> DEFINE r == [hash |-> n, vectorOf |-> n]
  <2>1. r \in VersionRecords /\ r.hash = r.vectorOf
    BY DEF VersionRecords
  <2> HIDE DEF r
  <2>2. version[k] \in [Model -> VersionRecords]
    BY <1>1 DEF VersionTypes
  <2>3. \A d \in Model : version[k][d].hash = version[k][d].vectorOf
    BY <1>1 DEF VersionsAreTrue
  <2>4. LET f == [version[k] EXCEPT ![m] = r] IN
        f \in [Model -> VersionRecords] /\ \A d \in Model : f[d].hash = f[d].vectorOf
    BY <2>1, <2>2, <2>3
  <2> QED
    BY <2>4 DEF r
<1>5. ASSUME NEW w \in Worker, WriteBatch(w) PROVE VersionTypes' /\ VersionsAreTrue'
  <2> DEFINE k == worker[w].kb
             n == content[k]
             f == [version[k] EXCEPT ![Target(w)] = [hash |-> n, vectorOf |-> n]]
  <2>1. k \in Kb /\ Target(w) \in Model /\ n \in Content
    BY <1>1, <1>5 DEF WriteBatch, WorkersInv, Fits, JobPlaces, Existing, Target,
                      CampaignTypes, CampaignRecords, DataTypes
  <2>2. UNCHANGED version \/ version' = [version EXCEPT ![k] = f]
    BY <1>1, <1>5, <2>1 DEF WriteBatch, VersionTypes
  <2>3. f \in [Model -> VersionRecords] /\ \A d \in Model : f[d].hash = f[d].vectorOf
    BY <1>4, <2>1
  <2> HIDE DEF k, f
  <2> QED
    BY <1>2, <1>3, <2>1, <2>2, <2>3
<1>6. ASSUME Edit PROVE VersionTypes' /\ VersionsAreTrue'
  <2>1. PICK k \in Kb, n \in Content :
          version' = [version EXCEPT ![k] =
              IF n = 0 THEN [m \in Model |-> NoVersion]
              ELSE [version[k] EXCEPT ![config] = [hash |-> n, vectorOf |-> n]]]
    BY <1>6 DEF Edit, Active
  <2>2. CASE n = 0
    <3> DEFINE f == [m \in Model |-> NoVersion]
    <3>1. NoVersion \in VersionRecords /\ NoVersion.hash = NoVersion.vectorOf
      BY DEF NoVersion, VersionRecords, Content
    <3>2. f \in [Model -> VersionRecords] /\ \A m \in Model : f[m].hash = f[m].vectorOf
      BY <3>1
    <3>3. version' = [version EXCEPT ![k] = f]
      BY <2>1, <2>2
    <3> HIDE DEF f
    <3> QED
      BY <1>3, <3>2, <3>3
  <2>3. CASE n # 0
    <3> DEFINE f == [version[k] EXCEPT ![config] = [hash |-> n, vectorOf |-> n]]
    <3>1. f \in [Model -> VersionRecords] /\ \A m \in Model : f[m].hash = f[m].vectorOf
      BY <1>1, <1>4 DEF DataTypes
    <3>2. version' = [version EXCEPT ![k] = f]
      BY <2>1, <2>3
    <3> HIDE DEF f
    <3> QED
      BY <1>3, <3>1, <3>2
  <2> QED
    BY <2>2, <2>3
<1>7. ASSUME NEW w \in Worker, Acts(w), ~WriteBatch(w)
      PROVE  VersionTypes' /\ VersionsAreTrue'
  <2>1. UNCHANGED version
    BY <1>7 DEF Acts, Prepare, Ensure, Execute, Again, Finalize, Probe, Create, ProbeFails,
           Reconcile, ReadKbs, InsertJob, CountJobs, Repair, CreateFails, Start, Claim,
           ClaimNothing, LoadPage, Cover, FinishJob, Count, FailJob, FailCampaign,
           PauseJob, PauseCampaign, Retry, Requeue, LockCampaign, Validate, CutOver,
           Breaks, BudgetEnds, Crash, dataVars
  <2> QED
    BY <1>2, <2>1
<1>8. CASE LeaseExpires \/ TimePasses \/ ChangeKb \/ UNCHANGED vars
  BY <1>2, <1>8 DEF LeaseExpires, TimePasses, ChangeKb, dataVars, vars
<1> QED
  BY <1>5, <1>6, <1>7, <1>8 DEF Next, Acts

LEMMA DataStep ==
    ASSUME Inv, [Next]_vars
    PROVE  DataTypes'
<1>1. DataTypes /\ CampaignTypes /\ WorkersInv
  BY TypeParts DEF Inv
<1>2. UNCHANGED faults \/ (faults < MaxFaults /\ faults' = faults + 1)
  <2>1. ASSUME NEW w \in Worker, Prepare(w) \/ Ensure(w) \/ Again(w) \/ Finalize(w)
        PROVE  UNCHANGED faults \/ Fault
    BY <2>1 DEF Prepare, Ensure, Again, Finalize, Probe, Create, ProbeFails, Reconcile,
           ReadKbs, InsertJob, CountJobs, Repair, CreateFails, Retry, Requeue,
           LockCampaign, Validate, CutOver
  <2>2. ASSUME NEW w \in Worker, Execute(w) PROVE UNCHANGED faults
    BY <2>2 DEF Execute, Start, Claim, ClaimNothing, LoadPage, WriteBatch, Cover,
           FinishJob, Count, FailJob, FailCampaign, PauseJob, PauseCampaign
  <2>3. ASSUME NEW w \in Worker, Breaks(w) \/ BudgetEnds(w) \/ Crash(w) PROVE Fault
    BY <2>3 DEF Breaks, BudgetEnds, Crash
  <2>4. CASE LeaseExpires \/ TimePasses \/ Edit \/ ChangeKb \/ UNCHANGED vars
    BY <2>4 DEF LeaseExpires, TimePasses, Edit, ChangeKb, Fault, vars
  <2> QED
    BY <2>1, <2>2, <2>3, <2>4 DEF Next, Fault
<1>3. faults' \in 0..MaxFaults
  BY <1>1, <1>2 DEF DataTypes
<1>4. ASSUME UNCHANGED <<config, kbStatus, content>> PROVE DataTypes'
  BY <1>1, <1>3, <1>4 DEF DataTypes
<1>5. ASSUME NEW w \in Worker, CutOver(w) PROVE DataTypes'
  <2>1. config' \in Model
    BY <1>1, <1>5 DEF CutOver, WorkersInv, Fits, Existing, CampaignTypes, CampaignRecords,
                      DataTypes
  <2>2. UNCHANGED <<kbStatus, content>>
    BY <1>5 DEF CutOver
  <2> QED
    BY <1>1, <1>3, <2>1, <2>2 DEF DataTypes
<1>6. ASSUME Edit PROVE DataTypes'
  <2>1. UNCHANGED <<config, kbStatus>>
    BY <1>6 DEF Edit
  <2>2. content' \in [Kb -> Content]
    BY <1>1, <1>6 DEF Edit, DataTypes
  <2> QED
    BY <1>1, <1>3, <2>1, <2>2 DEF DataTypes
<1>7. ASSUME ChangeKb PROVE DataTypes'
  <2>1. UNCHANGED <<config, content>>
    BY <1>7 DEF ChangeKb
  <2>2. kbStatus' \in [Kb -> {"absent", "active", "archived"}]
    BY <1>1, <1>7 DEF ChangeKb, DataTypes
  <2> QED
    BY <1>1, <1>3, <2>1, <2>2 DEF DataTypes
<1>8. ASSUME NEW w \in Worker, Acts(w), ~CutOver(w) PROVE DataTypes'
  <2>1. UNCHANGED <<config, kbStatus, content>>
    BY <1>8 DEF Acts, Prepare, Ensure, Execute, Again, Finalize, Probe, Create, ProbeFails,
           Reconcile, ReadKbs, InsertJob, CountJobs, Repair, CreateFails, Start, Claim,
           ClaimNothing, LoadPage, WriteBatch, Cover, FinishJob, Count, FailJob,
           FailCampaign, PauseJob, PauseCampaign, Retry, Requeue, LockCampaign, Validate,
           Breaks, BudgetEnds, Crash, dataVars
  <2> QED
    BY <1>4, <2>1
<1>9. CASE LeaseExpires \/ TimePasses \/ UNCHANGED vars
  BY <1>4, <1>9 DEF LeaseExpires, TimePasses, dataVars, vars
<1> QED
  BY <1>5, <1>6, <1>7, <1>8, <1>9 DEF Next, Acts

\* What a finalizer has validated stays: the chunks are locked, and what late
\* workers write is an embedding more.
LEMMA ValidatedStep ==
    ASSUME Inv, [Next]_vars
    PROVE  ValidatedInv'
<1>1. /\ DataTypes /\ VersionTypes /\ CampaignTypes /\ JobTypes /\ WorkerTypes
      /\ WorkersInv /\ ValidatedInv
  BY TypeParts DEF Inv
<1>2. CampaignsKept
  BY CampaignStep
<1>3. \A w \in Worker : worker[w].at = "validated" => worker[w].campaign \in Existing
  BY <1>1 DEF WorkersInv, Fits
<1>4. \A w \in Worker : worker[w].at = "validated" =>
        campaign'[worker[w].campaign].target = campaign[worker[w].campaign].target
  BY <1>2, <1>3 DEF CampaignsKept
<1>5. ASSUME NEW w \in Worker, \A v \in Worker \ {w} : worker'[v] = worker[v],
             worker'[w].at # "validated" \/ worker'[w] = worker[w],
             \A k \in Kb, m \in Model : Embedded(k, m) => Embedded(k, m)'
      PROVE  ValidatedInv'
  <2> SUFFICES ASSUME NEW v \in Worker, worker'[v].at = "validated", worker'[v].whole,
                      NEW k \in worker'[v].kbs
               PROVE  Embedded(k, campaign[worker[v].campaign].target)'
    BY DEF ValidatedInv
  <2>1. worker'[v] = worker[v]
    BY <1>5
  <2>2. /\ Embedded(k, campaign[worker[v].campaign].target)
        /\ k \in Kb /\ campaign[worker[v].campaign].target \in Model
    BY <1>1, <1>3, <2>1 DEF ValidatedInv, WorkerTypes, WorkerRecords, CampaignTypes,
                            CampaignRecords, Existing
  <2> QED
    BY <1>4, <1>5, <2>1, <2>2 DEF Embedded
<1>6. ASSUME NEW w \in Worker, WriteBatch(w)
      PROVE  \A k \in Kb, m \in Model : Embedded(k, m) => Embedded(k, m)'
  <2>1. content' = content
    BY <1>6 DEF WriteBatch
  <2>2. CASE UNCHANGED version
    BY <2>1, <2>2 DEF Embedded
  <2>3. CASE ~UNCHANGED version
    <3> DEFINE r == [hash |-> content[worker[w].kb], vectorOf |-> worker[w].seen]
    <3>1. version' = [version EXCEPT ![worker[w].kb][Target(w)] = r]
      BY <1>6, <2>3 DEF WriteBatch
    <3>2. r.hash = content[worker[w].kb]
      OBVIOUS
    <3> HIDE DEF r
    <3>3. \A k \in Kb, m \in Model :
            version'[k][m] = IF k = worker[w].kb /\ m = Target(w) THEN r ELSE version[k][m]
      BY <1>1, <3>1 DEF VersionTypes
    <3> QED
      BY <2>1, <3>2, <3>3 DEF Embedded
  <2> QED
    BY <2>2, <2>3
<1>7. ASSUME NEW w \in Worker, Acts(w), ~WriteBatch(w)
      PROVE  UNCHANGED <<content, version>>
  BY <1>7 DEF Acts, Prepare, Ensure, Execute, Again, Finalize, Probe, Create, ProbeFails,
           Reconcile, ReadKbs, InsertJob, CountJobs, Repair, CreateFails, Start, Claim,
           ClaimNothing, LoadPage, Cover, FinishJob, Count, FailJob, FailCampaign,
           PauseJob, PauseCampaign, Retry, Requeue, LockCampaign, Validate, CutOver,
           Breaks, BudgetEnds, Crash, dataVars
<1>8. ASSUME NEW w \in Worker, Acts(w) PROVE ValidatedInv'
  <2>1. /\ \A v \in Worker \ {w} : worker'[v] = worker[v]
        /\ worker'[w].at = "validated" => Validate(w)
    BY <1>2, <1>8, ActingMoves
  <2>2. \A k \in Kb, m \in Model : Embedded(k, m) => Embedded(k, m)'
    BY <1>6, <1>7, <1>8 DEF Embedded
  <2>3. CASE worker'[w].at # "validated"
    BY <1>5, <2>1, <2>2, <2>3
  <2>4. CASE Validate(w)
    <3> DEFINE c == worker[w].campaign
               Good(k) == job[c][k].status = "ready" /\ Embedded(k, campaign[c].target)
               b == (\A k \in Jobs(c) : Good(k)) /\ Jobs(c) = Active
               s == [worker[w] EXCEPT !.at = "validated", !.kbs = Active, !.whole = b]
    <3>1. worker' = [worker EXCEPT ![w] = s] /\ UNCHANGED <<content, version, campaign>>
      BY <2>4 DEF Validate, Set, dataVars
    <3>2. b => \A k \in Active : Embedded(k, campaign[c].target)
      OBVIOUS
    <3>3. b \in BOOLEAN
      BY Zenon
    <3> HIDE DEF b
    <3>4. s.kbs = Active /\ s.whole = b /\ s.campaign = c
      BY <1>1, <3>3 DEF WorkerTypes, WorkerRecords
    <3> HIDE DEF s
    <3>5. worker'[w] = s
      BY <1>1, <3>1 DEF WorkerTypes
    <3> SUFFICES ASSUME NEW v \in Worker, worker'[v].at = "validated", worker'[v].whole,
                        NEW k \in worker'[v].kbs
                 PROVE  Embedded(k, campaign[worker[v].campaign].target)'
      BY DEF ValidatedInv
    <3>6. CASE v = w
      BY <3>1, <3>2, <3>4, <3>5, <3>6 DEF Embedded
    <3>7. CASE v # w
      BY <1>1, <2>1, <3>1, <3>7 DEF ValidatedInv, Embedded
    <3> QED
      BY <3>6, <3>7
  <2> QED
    BY <2>1, <2>3, <2>4
<1>9. ASSUME Edit PROVE ValidatedInv'
  <2>1. \A w \in Worker : worker'[w].at # "validated"
    BY <1>3, <1>9 DEF Edit, ChunksLocked, Finalizing, Existing
  <2> QED
    BY <2>1 DEF ValidatedInv
<1>10. CASE LeaseExpires \/ TimePasses \/ ChangeKb \/ UNCHANGED vars
  <2>1. UNCHANGED <<worker, content, version>>
    BY <1>10 DEF LeaseExpires, TimePasses, ChangeKb, dataVars, vars
  <2>2. \A w \in Worker : worker[w].at = "validated" /\ worker[w].whole =>
          \A k \in worker[w].kbs : Embedded(k, campaign[worker[w].campaign].target)'
    BY <1>1, <1>4, <2>1 DEF ValidatedInv, Embedded
  <2> QED
    BY <2>1, <2>2 DEF ValidatedInv
<1> QED
  BY <1>8, <1>9, <1>10 DEF Next, Acts

LEMMA StepInv ==
    ASSUME Inv, [Next]_vars
    PROVE  Inv'
<1>1. CampaignsKept
  BY CampaignStep
<1>2. WorkerTypes' /\ WorkersInv'
  <2>1. ASSUME NEW w \in Worker, Acts(w) PROVE WorkerTypes' /\ WorkersInv'
    BY <1>1, <2>1, ActingMoves
  <2>2. CASE LeaseExpires \/ TimePasses \/ Edit \/ ChangeKb \/ UNCHANGED vars
    <3>1. UNCHANGED worker
      BY <2>2 DEF LeaseExpires, TimePasses, Edit, ChangeKb, vars
    <3>2. WorkerTypes /\ WorkersInv
      BY TypeParts DEF Inv
    <3> QED
      BY <1>1, <3>1, <3>2 DEF WorkerTypes, WorkersInv, Fits, CampaignsKept
  <2> QED
    BY <2>1, <2>2 DEF Next, Acts
<1>3. TypeOK'
  <2>1. DataTypes' /\ VersionTypes' /\ CampaignTypes' /\ JobTypes' /\ WorkerTypes'
    BY <1>1, <1>2, DataStep, VersionStep, JobStep DEF CampaignsKept
  <2> QED
    BY <2>1 DEF TypeOK, DataTypes, VersionTypes, CampaignTypes, JobTypes, WorkerTypes,
       VersionRecords, CampaignRecords, JobRecords, WorkerRecords
<1> QED
  BY <1>2, <1>3, VersionStep, ValidatedStep DEF Inv

-----------------------------------------------------------------------------
(***************************************************************************)
(* The theorems                                                            *)
(***************************************************************************)

\* Every reachable state satisfies the invariant the other theorems rest on.
THEOREM InvHolds == Spec => []Inv
BY InitInv, StepInv, PTL DEF Spec

\* Every variable keeps its type (the rows of nicekit/models/kb.py and the
\* memory of processes); a job has an owner exactly while it is running.
THEOREM TypesHold == Spec => []TypeOK
<1>1. Inv => TypeOK
  BY DEF Inv
<1> QED
  BY <1>1, InvHolds, PTL

\* A vector is never stored with the hash of another text, whatever is edited
\* while _write_batch waits for the model.
THEOREM VectorsAreTrue == Spec => []VersionsAreTrue
<1>1. Inv => VersionsAreTrue
  BY DEF Inv
<1> QED
  BY <1>1, InvHolds, PTL

\* The configuration is switched only when all that the finalizer looked at is
\* embedded under the new model, for any number of late workers and faults.
THEOREM SwitchIsCovered == Spec => CutoverIsCovered
<1> DEFINE Covered ==
      config' # config =>
         \E w \in Worker : /\ worker[w].at = "validated"
                           /\ \A k \in worker[w].kbs : Embedded(k, config')
<1>1. ASSUME Inv, [Next]_vars PROVE [Covered]_vars
  <2>1. ASSUME NEW w \in Worker, CutOver(w) PROVE Covered
    BY <1>1, <2>1 DEF CutOver, Inv, ValidatedInv
  <2>2. ASSUME NEW w \in Worker, Acts(w), ~CutOver(w) PROVE Covered
    <3>1. UNCHANGED config
      BY <2>2 DEF Acts, Prepare, Ensure, Execute, Again, Finalize, Probe, Create, ProbeFails,
           Reconcile, ReadKbs, InsertJob, CountJobs, Repair, CreateFails, Start, Claim,
           ClaimNothing, LoadPage, WriteBatch, Cover, FinishJob, Count, FailJob,
           FailCampaign, PauseJob, PauseCampaign, Retry, Requeue, LockCampaign, Validate,
           Breaks, BudgetEnds, Crash, dataVars
    <3> QED
      BY <3>1
  <2>3. CASE LeaseExpires \/ TimePasses \/ Edit \/ ChangeKb
    BY <2>3 DEF LeaseExpires, TimePasses, Edit, ChangeKb, dataVars
  <2> HIDE DEF Covered
  <2> QED
    BY <1>1, <2>1, <2>2, <2>3 DEF Next, Acts
<1> QED
  BY <1>1, InvHolds, PTL DEF Spec, CutoverIsCovered

\* Whatever a worker that has lost its lease goes on to do, the job and the
\* embeddings are those of the others.
THEOREM LateWorkChangesNothing == Spec => LostWorkIsDropped
<1> DEFINE Dropped ==
      \A w \in Worker :
         worker[w].kb # None /\ MyJob(w).owner # w /\ worker'[w] # worker[w]
         => worker'[w].at = "claimed" \/ UNCHANGED <<job, version>>
<1>1. ASSUME Inv, [Next]_vars PROVE [Dropped]_vars
  <2>1. WorkerTypes /\ WorkersInv
    BY <1>1, TypeParts DEF Inv
  <2>2. ASSUME NEW w \in Worker, Acts(w) PROVE Dropped
    <3>1. \A v \in Worker \ {w} : worker'[v] = worker[v]
      BY <1>1, <2>2, CampaignStep, ActingMoves
    <3>2. ASSUME worker[w].kb # None, MyJob(w).owner # w
          PROVE  worker'[w].at = "claimed" \/ UNCHANGED <<job, version>>
      <4>1. worker[w].at \notin NoJobPlaces
        BY <2>1, <3>2 DEF WorkersInv, Fits
      <4>2. CASE Claim(w)
        BY <2>1, <4>2 DEF Claim, Set, WorkerTypes, WorkerRecords
      <4>3. CASE WriteBatch(w) \/ FinishJob(w) \/ FailJob(w) \/ PauseJob(w)
        BY <3>2, <4>3 DEF WriteBatch, FinishJob, FailJob, PauseJob, Holds, Owns, dataVars
      <4>4. CASE ~Claim(w) /\ ~WriteBatch(w) /\ ~FinishJob(w) /\ ~FailJob(w) /\ ~PauseJob(w)
        BY <2>2, <4>1, <4>4 DEF NoJobPlaces, Acts, Prepare, Ensure, Execute, Again,
           Finalize, Probe, Create, ProbeFails, Reconcile, ReadKbs, InsertJob, CountJobs,
           Repair, CreateFails, Start, ClaimNothing, LoadPage, Cover, Count, FailCampaign,
           PauseCampaign, Retry, Requeue, LockCampaign, Validate, CutOver, Breaks,
           BudgetEnds, Crash, dataVars
      <4> QED
        BY <4>2, <4>3, <4>4
    <3> QED
      BY <3>1, <3>2
  <2>3. CASE LeaseExpires \/ TimePasses \/ Edit \/ ChangeKb
    <3>1. UNCHANGED worker
      BY <2>3 DEF LeaseExpires, TimePasses, Edit, ChangeKb
    <3> QED
      BY <3>1
  <2> HIDE DEF Dropped
  <2> QED
    BY <1>1, <2>2, <2>3 DEF Next, Acts
<1> QED
  BY <1>1, InvHolds, PTL DEF Spec, LostWorkIsDropped

=============================================================================
