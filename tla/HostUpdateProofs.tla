--------------------------- MODULE HostUpdateProofs ---------------------------
(***************************************************************************)
(* Proofs about HostUpdate, for any number of releases, installations,     *)
(* writes, failures and deaths: types, that the services run on the        *)
(* database of their release with every answered write in it, and that a   *)
(* job that ended says what is installed.                                  *)
(***************************************************************************)
EXTENDS HostUpdate, TLAPS

-----------------------------------------------------------------------------
(* Whose turn it is.                                                       *)

Waiting == {"launch", "lock"}

Holding == Steps \ {"idle", "launch", "lock"}

Running == Steps \ {"idle", "clear", "unlock"}

Marked == Holding \ {"prepare", "maintenance", "unlock"}

\* One installation at most is beyond its end, and it is the last one; it has
\* the lock from its second step on and the marker while members are kept out.
JobsTakeTurns ==
    \A u \in Updates :
        /\ job[u].at \notin {"idle", "unlock"} =>
               u = latest /\ network \notin {"lock", "apply"}
        /\ job[u].at \in Running => job[u].phase = "RUNNING"
        /\ job[u].at \in {"clear", "unlock"} => job[u].phase \in Done
        /\ job[u].at \in Holding => locked /\ network # "apply"
        /\ job[u].at \in Marked => marker
        /\ \A v \in Updates : job[u].at \in Holding /\ job[v].at \in Holding => u = v

Turns == JobsTakeTurns /\ (network = "apply" => locked)

-----------------------------------------------------------------------------
(* What a job can rely on.                                                 *)

\* The services that run fit the files and the database.
HostFits ==
    /\ services # 0 => files.env = services /\ db.schema = services
    /\ db.writes = acknowledged
    /\ request => services # 0 /\ acknowledged < MaxWrites
    /\ network \in {"lock", "apply"} => services # 0

\* Where the services run, and where they are stopped.
JobStops(u) ==
    /\ job[u].at \in Waiting \cup {"prepare", "maintenance", "stop", "health",
                                   "entrance", "entrance_again"} => services # 0
    /\ job[u].at \in {"backup", "migrate", "compose", "env", "restart",
                      "files_back", "restore", "start_again"} => services = 0
    /\ job[u].at \in {"health", "stop_again"} => ~ request

\* The backup is of the files' release, with every answered write.
JobBacksUp(u) ==
    job[u].at \in {"migrate", "compose", "env", "restart", "health", "stop_again",
                   "files_back", "restore"} =>
        job[u].backup.writes = acknowledged /\ job[u].backup.schema = job[u].files.env

\* The files and the database, between the old release and the new one.
JobWrites(u) ==
    /\ job[u].at \in {"maintenance", "stop", "backup", "resume", "migrate", "compose",
                      "restore", "start_again", "entrance_again"} => files = job[u].files
    /\ job[u].at = "stop_again" /\ job[u].way = "database" => files = job[u].files
    /\ job[u].at = "env" => files = [compose |-> job[u].target, env |-> job[u].files.env]
    /\ job[u].at \in {"restart", "health", "entrance"} => files = Of(job[u].target)
    /\ job[u].at \in {"compose", "env", "restart", "health", "entrance"} =>
           db.schema = job[u].target
    /\ job[u].at \in {"backup", "resume", "migrate", "start_again"} =>
           db.schema = files.env
    /\ job[u].at \in {"maintenance", "stop", "backup", "migrate", "compose", "env",
                      "restart", "health", "entrance"} => job[u].target \in Releases

Fits ==
    HostFits /\ \A u \in Updates : JobStops(u) /\ JobBacksUp(u) /\ JobWrites(u)

-----------------------------------------------------------------------------
(* What a job says.                                                        *)

\* The host is of one release, but for services a network job left stopped.
Whole(r) ==
    /\ files = Of(r) /\ db.schema = r /\ version = r
    /\ services = r \/ (services = 0 /\ network = "failed")

NoManualBefore == \A u \in 1 .. latest - 1 : job[u].phase # "NEEDS_MANUAL_RECOVERY"

\* The last job, as it goes and when it ended.
LastTells(j) ==
    /\ j.phase = "SUCCEEDED" => Whole(j.target)
    /\ j.phase = "ROLLED_BACK" => Whole(j.files.env)
    /\ j.phase = "FAILED" => Whole(version)
    /\ j.at \in Waiting \cup {"prepare", "maintenance", "stop"} => Whole(version)
    /\ j.at \in Running \ (Waiting \cup {"prepare"}) => j.files = Of(version)

JobsTell ==
    NoManualBefore =>
        /\ latest = 0 => Whole(version)
        /\ latest # 0 => LastTells(job[latest])

\* A marker is the last job's.
MarkerTells ==
    marker /\ deaths = 0 =>
        /\ latest # 0
        /\ job[latest].at \in Marked \/ job[latest].phase = "NEEDS_MANUAL_RECOVERY"

IInv == TypeOK /\ Turns /\ Fits /\ JobsTell /\ MarkerTells

-----------------------------------------------------------------------------
(* Steps of a job.                                                         *)

LEMMA Constants ==
    /\ LastRelease \in Nat /\ LastRelease > 0 /\ 1 \in Releases
    /\ MaxUpdates \in Nat /\ MaxWrites \in Nat /\ MaxFaults \in Nat /\ MaxDeaths \in Nat
    /\ Releases \subseteq Nat \ {0} /\ Updates \subseteq Nat \ {0}
BY ConstantsAssumption DEF Releases, Updates

LEMMA Types ==
    ASSUME TypeOK
    PROVE  /\ manifest \in Releases \cup {0} /\ version \in Releases
           /\ latest \in 0 .. MaxUpdates
           /\ services \in Releases \cup {0} /\ acknowledged \in 0 .. MaxWrites
           /\ files.compose \in Releases /\ files.env \in Releases
           /\ files = [compose |-> files.compose, env |-> files.env]
           /\ db.schema \in Releases \cup {0, -1} /\ db.writes \in 0 .. MaxWrites
           /\ \A u \in Updates :
                  /\ job[u] \in Job /\ job[u].at \in Steps
                  /\ job[u].phase \in Done \cup {"none", "RUNNING"}
                  /\ job[u].target \in Releases \cup {0}
                  /\ job[u].files \in Files /\ job[u].backup \in Database
BY DEF TypeOK, Files, Database, Job

\* The job of u goes on, or ends; what it knows stays.
Moved(u, phase, step) ==
    /\ job' \in [Updates -> Job]
    /\ \A v \in Updates : v # u => job'[v] = job[v]
    /\ job'[u].at = step /\ job'[u].phase = phase
    /\ job'[u].target = job[u].target /\ job'[u].files = job[u].files
    /\ job'[u].backup = job[u].backup

\* Assignments to one field.
LEMMA FieldWrites ==
    ASSUME NEW j \in Job
    PROVE  /\ \A x \in Steps : [j EXCEPT !.at = x] \in Job
           /\ \A x \in Done \cup {"none", "RUNNING"} : [j EXCEPT !.phase = x] \in Job
           /\ \A x \in Releases \cup {0} : [j EXCEPT !.target = x] \in Job
           /\ \A x \in Files : [j EXCEPT !.files = x] \in Job
           /\ \A x \in Database : [j EXCEPT !.backup = x] \in Job
           /\ \A x \in {"none", "database", "installation"} : [j EXCEPT !.way = x] \in Job
           /\ \A x \in {"FAILED", "ROLLED_BACK"} : [j EXCEPT !.outcome = x] \in Job
BY DEF Job

LEMMA GoIs ==
    ASSUME TypeOK, NEW u \in Updates, NEW step \in Steps, Go(u, step)
    PROVE  /\ Moved(u, job[u].phase, step)
           /\ job'[u].way = job[u].way /\ job'[u].outcome = job[u].outcome
<1> DEFINE k == [job[u] EXCEPT !.at = step]
<1>1. job \in [Updates -> Job] /\ job[u] \in Job
  BY DEF TypeOK
<1>2. k \in Job
  BY <1>1, FieldWrites
<1>3. k.at = step /\ k.phase = job[u].phase /\ k.target = job[u].target
      /\ k.files = job[u].files /\ k.backup = job[u].backup
      /\ k.way = job[u].way /\ k.outcome = job[u].outcome
  BY <1>1 DEF Job
<1>4. job' = [job EXCEPT ![u] = k]
  BY DEF Go
<1> HIDE DEF k
<1> QED BY <1>1, <1>2, <1>3, <1>4 DEF Moved

LEMMA FinishIs ==
    ASSUME TypeOK, NEW u \in Updates, NEW step \in Steps,
           NEW phase \in Done \cup {"none", "RUNNING"}, Finish(u, phase, step)
    PROVE  Moved(u, phase, step)
<1> DEFINE j == [job[u] EXCEPT !.phase = phase]
           k == [j EXCEPT !.at = step]
<1>1. job \in [Updates -> Job] /\ job[u] \in Job
  BY DEF TypeOK
<1>2. j \in Job
  BY <1>1, FieldWrites
<1>3. k \in Job
  <2> HIDE DEF j
  <2> QED BY <1>2, FieldWrites
<1>4. k.at = step /\ k.phase = phase /\ k.target = job[u].target
      /\ k.files = job[u].files /\ k.backup = job[u].backup
  BY <1>1 DEF Job
<1>5. job' = [job EXCEPT ![u] = k]
  BY DEF Finish
<1> HIDE DEF k
<1> QED BY <1>1, <1>3, <1>4, <1>5 DEF Moved

LEMMA UndoIs ==
    ASSUME TypeOK, NEW u \in Updates, NEW step \in Steps,
           NEW way \in {"none", "database", "installation"},
           NEW outcome \in {"FAILED", "ROLLED_BACK"}, Undo(u, way, outcome, step)
    PROVE  Moved(u, job[u].phase, step) /\ job'[u].way = way
<1> DEFINE i == [job[u] EXCEPT !.way = way]
           j == [i EXCEPT !.outcome = outcome]
           k == [j EXCEPT !.at = step]
<1>1. job \in [Updates -> Job] /\ job[u] \in Job
  BY DEF TypeOK
<1>2. i \in Job
  BY <1>1, FieldWrites
<1>3. j \in Job
  <2> HIDE DEF i
  <2> QED BY <1>2, FieldWrites
<1>4. k \in Job
  <2> HIDE DEF j
  <2> QED BY <1>3, FieldWrites
<1>5. k.at = step /\ k.phase = job[u].phase /\ k.target = job[u].target
      /\ k.files = job[u].files /\ k.backup = job[u].backup /\ k.way = way
  BY <1>1 DEF Job
<1>6. job' = [job EXCEPT ![u] = k]
  BY DEF Undo
<1> HIDE DEF k
<1> QED BY <1>1, <1>4, <1>5, <1>6 DEF Moved

\* The database, with another schema.
LEMMA SchemaIs ==
    ASSUME TypeOK, NEW s \in Releases \cup {0, -1}, db' = [db EXCEPT !.schema = s]
    PROVE  db' \in Database /\ db'.schema = s /\ db'.writes = db.writes
BY DEF TypeOK, Database

\* Everybody else is done.
LEMMA OthersRest ==
    ASSUME Turns, NEW u \in Updates, job[u].at \notin {"idle", "unlock"}
    PROVE  /\ u = latest /\ latest # 0 /\ network \notin {"lock", "apply"}
           /\ \A v \in Updates : v # u => job[v].at \in {"idle", "unlock"}
BY Constants DEF Turns, JobsTakeTurns

\* The turn stays with the job while it holds the lock.
LEMMA TurnKept ==
    ASSUME Turns, NEW u \in Updates, job[u].at \in Holding \ {"unlock"},
           NEW phase, NEW step, Moved(u, phase, step),
           step \in Holding, step \in Running => phase = "RUNNING",
           step \in {"clear", "unlock"} => phase \in Done,
           step \in Marked => marker', UNCHANGED <<latest, network, locked>>
    PROVE  Turns'
<1>1. job[u].at \notin {"idle", "unlock"}
  BY DEF Holding
<1>2. \A v \in Updates : v # u => job'[v] = job[v] /\ job[v].at = "idle"
  <2> TAKE v \in Updates
  <2> HAVE v # u
  <2>1. job'[v] = job[v]
    BY DEF Moved
  <2>2. job[v].at \in {"idle", "unlock"}
    BY <1>1, OthersRest
  <2>3. job[v].at \notin Holding
    BY DEF Turns, JobsTakeTurns
  <2> QED BY <2>1, <2>2, <2>3 DEF Holding, Steps
<1> QED BY <1>1, <1>2, OthersRest DEF Turns, JobsTakeTurns, Moved, Holding, Running, Marked

\* It is enough to look at the job that moves.
LEMMA FitsMove ==
    ASSUME Turns, NEW u \in Updates, job[u].at \notin {"idle", "unlock"},
           NEW phase, NEW step, Moved(u, phase, step),
           HostFits', JobStops(u)', JobBacksUp(u)', JobWrites(u)'
    PROVE  Fits'
<1>1. \A v \in Updates : v # u => job'[v].at \in {"idle", "unlock"}
  BY OthersRest DEF Moved
<1>2. ASSUME NEW v \in Updates, v # u
      PROVE  JobStops(v)' /\ JobBacksUp(v)' /\ JobWrites(v)'
  BY <1>1, <1>2 DEF JobStops, JobBacksUp, JobWrites, Waiting
<1> QED BY <1>2 DEF Fits

LEMMA TellMove ==
    ASSUME TypeOK, Turns, JobsTell, NEW u \in Updates,
           job[u].at \notin {"idle", "unlock"}, UNCHANGED latest,
           NEW phase, NEW step, Moved(u, phase, step),
           LastTells(job[u]) => LastTells(job[u])'
    PROVE  JobsTell'
<1>1. u = latest /\ latest # 0 /\ latest \in Nat
  BY OthersRest, Types
<1>2. NoManualBefore' => NoManualBefore
  <2>1. \A v \in 1 .. latest - 1 : v \in Updates /\ v # u
    BY <1>1, Constants, Types DEF Updates
  <2> QED BY <2>1 DEF NoManualBefore, Moved
<1> QED BY <1>1, <1>2 DEF JobsTell

LEMMA MarkerMove ==
    ASSUME Turns, MarkerTells, NEW u \in Updates, job[u].at \notin {"idle", "unlock"},
           UNCHANGED <<latest, deaths>>,
           NEW phase, NEW step, Moved(u, phase, step),
           marker' /\ deaths = 0 => step \in Marked \/ phase = "NEEDS_MANUAL_RECOVERY"
    PROVE  MarkerTells'
<1>1. u = latest /\ latest # 0
  BY OthersRest
<1> QED BY <1>1 DEF MarkerTells, Moved

LEMMA Count ==
    ASSUME TypeOK, Fault \/ Works
    PROVE  faults' \in 0 .. MaxFaults
BY Constants DEF TypeOK, Fault, Works

-----------------------------------------------------------------------------
(* Before the members are kept out.                                        *)

LEMMA LaunchKeeps ==
    ASSUME IInv, NEW u \in Updates, Launch(u)
    PROVE  IInv'
<1> USE DEF IInv
<1> DEFINE i == [job[u] EXCEPT !.target = manifest]
           k == [i EXCEPT !.at = "lock"]
<1>1. job \in [Updates -> Job] /\ job[u] \in Job /\ manifest \in Releases \cup {0}
  BY DEF TypeOK
<1>2. i \in Job
  BY <1>1, FieldWrites
<1>3. k \in Job
  <2> HIDE DEF i
  <2> QED BY <1>2, FieldWrites DEF Steps
<1>4. k.at = "lock" /\ k.phase = job[u].phase /\ k.files = job[u].files
  BY <1>1 DEF Job
<1>5. job' = [job EXCEPT ![u] = k] /\ job[u].at = "launch"
      /\ UNCHANGED <<manifest, latest, network, deaths, acknowledged, version, locked,
                     marker, files, db, services, request, faults>>
  BY DEF Launch, At, Context
<1> HIDE DEF k
<1>6. \A v \in Updates : job'[v] = IF v = u THEN k ELSE job[v]
  BY <1>1, <1>5
<1>7. TypeOK'
  BY <1>1, <1>3, <1>5 DEF TypeOK
<1>8. u = latest /\ latest # 0 /\ latest \in Nat /\ job[u].phase = "RUNNING"
  BY <1>5, OthersRest, Types DEF Turns, JobsTakeTurns, Running, Steps
<1>9. Turns'
  BY <1>4, <1>5, <1>6, <1>8, OthersRest
     DEF Turns, JobsTakeTurns, Holding, Running, Marked, Steps
<1>10. \A v \in Updates : v # u => job[v].at \in {"idle", "unlock"}
  BY <1>5, OthersRest
<1>11. Fits'
  BY <1>4, <1>5, <1>6 DEF Fits, HostFits, JobStops, JobBacksUp, JobWrites, Waiting
<1>12. JobsTell'
  <2>1. NoManualBefore' => NoManualBefore
    BY <1>4, <1>5, <1>6, <1>8, Types DEF NoManualBefore, Updates
  <2>2. LastTells(job[u]) => LastTells(job[u])'
    BY <1>4, <1>5, <1>6, <1>8 DEF LastTells, Whole, Waiting
  <2> QED BY <1>5, <1>8, <2>1, <2>2 DEF JobsTell
<1>13. MarkerTells'
  BY <1>4, <1>5, <1>6, <1>8 DEF MarkerTells, Marked, Holding
<1> QED BY <1>7, <1>9, <1>11, <1>12, <1>13

LEMMA LockKeeps ==
    ASSUME IInv, NEW u \in Updates, LockDeployment(u)
    PROVE  IInv'
<1> USE DEF IInv
<1>1. job[u].at = "lock"
      /\ UNCHANGED <<manifest, latest, network, deaths, acknowledged, version, marker,
                     files, db, services, request>>
  BY DEF LockDeployment, At, Context
<1>2. u = latest /\ latest # 0 /\ latest \in Nat /\ job[u].phase = "RUNNING"
      /\ network \notin {"lock", "apply"}
      /\ \A v \in Updates : v # u => job[v].at \in {"idle", "unlock"}
  BY <1>1, OthersRest, Types DEF Turns, JobsTakeTurns, Running, Steps
<1>3. services # 0
  BY <1>1 DEF Fits, JobStops, Waiting
<1>4. CASE ~ locked /\ locked' = TRUE /\ Go(u, "prepare") /\ Works
  <2>1. Moved(u, "RUNNING", "prepare")
    BY <1>2, <1>4, GoIs DEF Steps
  <2>2. TypeOK'
    BY <1>1, <1>4, <2>1, Count DEF TypeOK, Moved
  <2>3. Turns'
    BY <1>1, <1>2, <1>4, <2>1
       DEF Turns, JobsTakeTurns, Moved, Holding, Running, Marked
  <2>4. Fits'
    <3>1. JobStops(u)' /\ JobBacksUp(u)' /\ JobWrites(u)'
      BY <1>1, <1>3, <2>1 DEF Moved, JobStops, JobBacksUp, JobWrites, Waiting
    <3>2. HostFits'
      BY <1>1 DEF Fits, HostFits
    <3> QED BY <1>1, <2>1, <3>1, <3>2, FitsMove
  <2>5. JobsTell'
    <3>1. LastTells(job[u]) => LastTells(job[u])'
      BY <1>1, <2>1 DEF LastTells, Whole, Waiting, Moved
    <3> QED BY <1>1, <2>1, <3>1, TellMove
  <2>6. MarkerTells'
    BY <1>1, <1>2, <2>1 DEF MarkerTells, Moved, Marked, Holding
  <2> QED BY <2>2, <2>3, <2>4, <2>5, <2>6
<1>5. CASE Fault /\ Finish(u, "FAILED", "idle") /\ UNCHANGED locked
  <2>1. Moved(u, "FAILED", "idle")
    BY <1>5, FinishIs DEF Steps, Done
  <2>2. TypeOK'
    BY <1>1, <1>5, <2>1, Count DEF TypeOK, Moved
  <2>3. Turns'
    BY <1>1, <1>2, <1>5, <2>1
       DEF Turns, JobsTakeTurns, Moved, Holding, Running, Marked
  <2>4. Fits'
    <3>1. JobStops(u)' /\ JobBacksUp(u)' /\ JobWrites(u)'
      BY <2>1 DEF Moved, JobStops, JobBacksUp, JobWrites, Waiting
    <3>2. HostFits'
      BY <1>1 DEF Fits, HostFits
    <3> QED BY <1>1, <2>1, <3>1, <3>2, FitsMove
  <2>5. JobsTell'
    <3>1. LastTells(job[u]) => LastTells(job[u])'
      BY <1>1, <2>1 DEF LastTells, Whole, Waiting, Moved, Running
    <3> QED BY <1>1, <2>1, <3>1, TellMove
  <2>6. MarkerTells'
    BY <1>1, <1>2, <2>1 DEF MarkerTells, Moved, Marked, Holding
  <2> QED BY <2>2, <2>3, <2>4, <2>5, <2>6
<1> QED BY <1>4, <1>5 DEF LockDeployment

\* What remains to be shown of a command.
LEMMA CommandKeeps ==
    ASSUME IInv, NEW u \in Updates, job[u].at \in Holding \ {"unlock"},
           NEW phase, NEW step, Moved(u, phase, step),
           step \in Holding, step \in Running => phase = "RUNNING",
           step \in {"clear", "unlock"} => phase \in Done,
           Fault \/ Works, UNCHANGED <<Context, locked>>,
           version' \in Releases, files' \in Files, db' \in Database,
           services' \in Releases \cup {0}, request' \in BOOLEAN, marker' \in BOOLEAN,
           step \in Marked => marker',
           marker' /\ deaths = 0 => step \in Marked \/ phase = "NEEDS_MANUAL_RECOVERY",
           HostFits', JobStops(u)', JobBacksUp(u)', JobWrites(u)',
           LastTells(job[u]) => LastTells(job[u])'
    PROVE  IInv'
<1> USE DEF IInv
<1>1. job[u].at \notin {"idle", "unlock"}
  BY DEF Holding
<1>2. UNCHANGED <<manifest, latest, network, deaths, acknowledged, locked>>
  BY DEF Context
<1>3. TypeOK'
  BY <1>2, Count DEF TypeOK, Moved
<1>4. Turns'
  BY <1>2, TurnKept
<1>5. Fits'
  BY <1>1, FitsMove
<1>6. JobsTell'
  BY <1>1, <1>2, TellMove
<1>7. MarkerTells'
  BY <1>1, <1>2, MarkerMove
<1> QED BY <1>3, <1>4, <1>5, <1>6, <1>7

\* What a command may rely on.
LEMMA CommandFinds ==
    ASSUME IInv, NEW u \in Updates, job[u].at \in Holding \ {"unlock"}
    PROVE  /\ job[u].at \notin {"idle", "unlock"}
           /\ network \notin {"lock", "apply"}
           /\ job[u].at \in Running => job[u].phase = "RUNNING"
           /\ job[u].at \in Marked => marker
           /\ marker /\ deaths = 0 => job[u].at \in Marked
           /\ files \in Files /\ db \in Database /\ services \in Releases \cup {0}
           /\ request \in BOOLEAN /\ marker \in BOOLEAN /\ version \in Releases
           /\ files.env \in Releases /\ job[u].files \in Files
           /\ job[u].backup \in Database
           /\ HostFits /\ JobStops(u) /\ JobBacksUp(u) /\ JobWrites(u)
<1> USE DEF IInv
<1>1. u = latest /\ network \notin {"lock", "apply"} /\ job[u].at \notin {"idle", "unlock"}
  BY OthersRest DEF Holding
<1>2. /\ job[u].at \in Running => job[u].phase = "RUNNING"
      /\ job[u].at \in Marked => marker
      /\ job[u].at = "clear" => job[u].phase \in Done
  BY DEF Turns, JobsTakeTurns
<1>3. marker /\ deaths = 0 => job[u].at \in Marked
  BY <1>1, <1>2 DEF MarkerTells, Holding, Running, Marked, Steps
<1> QED BY <1>1, <1>2, <1>3, Types DEF TypeOK, Fits

LEMMA PrepareKeeps ==
    ASSUME IInv, NEW u \in Updates, Prepare(u)
    PROVE  IInv'
<1>1. job[u].at = "prepare" /\ job[u].at \in Holding \ {"unlock"}
      /\ job[u].at \notin Marked /\ job[u].at \in Running
      /\ UNCHANGED <<Context, version, locked, marker, files, db, services, request>>
  BY DEF Prepare, At, Holding, Marked, Running, Steps
<1>2. UNCHANGED <<version, locked, marker, files, db, services, request, network,
                  acknowledged>>
  BY <1>1 DEF Context
<1>3. /\ job[u].phase = "RUNNING" /\ ~(marker /\ deaths = 0)
      /\ files \in Files /\ db \in Database /\ services \in Releases \cup {0}
      /\ request \in BOOLEAN /\ marker \in BOOLEAN /\ version \in Releases
      /\ HostFits /\ services # 0
  BY <1>1, CommandFinds DEF JobStops
<1>4. HostFits'
  BY <1>2, <1>3 DEF HostFits
<1>5. ASSUME Finish(u, "FAILED", "unlock"), Fault \/ Works
      PROVE  IInv'
  <2>1. Moved(u, "FAILED", "unlock")
    BY <1>5, FinishIs DEF Steps, Done, IInv
  <2>2. JobStops(u)' /\ JobBacksUp(u)' /\ JobWrites(u)'
    BY <2>1 DEF Moved, JobStops, JobBacksUp, JobWrites, Waiting
  <2>3. LastTells(job[u]) => LastTells(job[u])'
    BY <1>1, <1>2, <2>1 DEF LastTells, Whole, Waiting, Moved, Running
  <2>4. "unlock" \in Holding /\ "unlock" \notin Running /\ "unlock" \notin Marked
        /\ "FAILED" \in Done
    BY DEF Holding, Running, Marked, Steps, Done
  <2> QED BY <1>1, <1>2, <1>3, <1>4, <1>5, <2>1, <2>2, <2>3, <2>4, CommandKeeps
<1>6. ASSUME job[u].target > version, Works,
             job' = [job EXCEPT ![u].files = files, ![u].at = "maintenance"]
      PROVE  IInv'
  <2> DEFINE i == [job[u] EXCEPT !.files = files]
             k == [i EXCEPT !.at = "maintenance"]
  <2>1. job \in [Updates -> Job] /\ job[u] \in Job
    BY DEF IInv, TypeOK
  <2>2. i \in Job
    BY <1>3, <2>1, FieldWrites
  <2>3. k \in Job
    <3> HIDE DEF i
    <3> QED BY <2>2, FieldWrites DEF Steps
  <2>4. k.at = "maintenance" /\ k.phase = "RUNNING" /\ k.files = files
        /\ k.target = job[u].target
    BY <1>3, <2>1 DEF Job
  <2>5. job' = [job EXCEPT ![u] = k]
    BY <1>6
  <2> HIDE DEF k
  <2>6. \A v \in Updates : job'[v] = IF v = u THEN k ELSE job[v]
    BY <2>1, <2>5
  <2>7. job[u].target \in Releases
    <3>1. job[u].target \in Releases \cup {0} /\ version \in Nat /\ version > 0
      BY Types, Constants DEF IInv
    <3> QED BY <1>6, <3>1
  <2>8. u = latest /\ latest # 0
        /\ \A v \in Updates : v # u => job[v].at \in {"idle", "unlock"}
    BY <1>1, OthersRest DEF IInv
  <2>9. UNCHANGED <<manifest, latest, deaths>>
    BY <1>1 DEF Context
  <2>10. TypeOK'
    BY <1>2, <1>6, <2>1, <2>3, <2>5, <2>9 DEF IInv, TypeOK, Works
  <2>11. Turns'
    BY <1>1, <1>2, <1>3, <2>4, <2>6, <2>8, <2>9
       DEF IInv, Turns, JobsTakeTurns, Holding, Running, Marked, Steps
  <2>12. Fits'
    <3>1. JobStops(u)' /\ JobBacksUp(u)' /\ JobWrites(u)'
      BY <1>2, <1>3, <2>4, <2>6, <2>7 DEF JobStops, JobBacksUp, JobWrites, Waiting
    <3>2. ASSUME NEW v \in Updates, v # u
          PROVE  JobStops(v)' /\ JobBacksUp(v)' /\ JobWrites(v)'
      BY <2>6, <2>8, <3>2 DEF JobStops, JobBacksUp, JobWrites, Waiting
    <3> QED BY <1>4, <3>1, <3>2 DEF Fits
  <2>13. JobsTell'
    <3>1. NoManualBefore' => NoManualBefore
      <4>1. \A v \in 1 .. latest - 1 : v \in Updates /\ v # u
        BY <2>8, Constants, Types DEF IInv, Updates
      <4> QED BY <2>6, <2>9, <4>1 DEF NoManualBefore
    <3>2. LastTells(job[u]) => LastTells(job[u])'
      BY <1>1, <1>2, <1>3, <2>4, <2>6 DEF LastTells, Whole, Waiting
    <3> QED BY <2>8, <2>9, <3>1, <3>2 DEF IInv, JobsTell
  <2>14. MarkerTells'
    BY <1>2, <1>3, <2>9 DEF MarkerTells
  <2> QED BY <2>10, <2>11, <2>12, <2>13, <2>14 DEF IInv
<1> QED BY <1>5, <1>6 DEF Prepare

LEMMA MaintenanceKeeps ==
    ASSUME IInv, NEW u \in Updates, Maintenance(u)
    PROVE  IInv'
<1>1. job[u].at = "maintenance" /\ job[u].at \in Holding \ {"unlock"}
      /\ job[u].at \notin Marked /\ job[u].at \in Running
      /\ UNCHANGED <<Context, version, locked, files, db, services, request>>
  BY DEF Maintenance, At, Holding, Marked, Running, Steps
<1>2. UNCHANGED <<version, locked, files, db, services, request, network, acknowledged>>
  BY <1>1 DEF Context
<1>3. /\ job[u].phase = "RUNNING" /\ ~(marker /\ deaths = 0)
      /\ files \in Files /\ db \in Database /\ services \in Releases \cup {0}
      /\ request \in BOOLEAN /\ marker \in BOOLEAN /\ version \in Releases
      /\ HostFits /\ JobStops(u) /\ JobWrites(u)
  BY <1>1, CommandFinds
<1>4. HostFits'
  BY <1>2, <1>3 DEF HostFits
<1>5. CASE marker' = TRUE /\ Go(u, "stop") /\ Works
  <2>1. Moved(u, "RUNNING", "stop")
    BY <1>3, <1>5, GoIs DEF Steps, IInv
  <2>2. JobStops(u)' /\ JobBacksUp(u)' /\ JobWrites(u)'
    BY <1>1, <1>2, <1>3, <2>1 DEF Moved, JobStops, JobBacksUp, JobWrites, Waiting
  <2>3. LastTells(job[u]) => LastTells(job[u])'
    BY <1>1, <1>2, <2>1 DEF LastTells, Whole, Waiting, Moved, Running
  <2>4. "stop" \in Holding /\ "stop" \in Marked
    BY DEF Holding, Marked, Steps
  <2> QED BY <1>1, <1>2, <1>3, <1>4, <1>5, <2>1, <2>2, <2>3, <2>4, CommandKeeps
<1>6. CASE Fault /\ Finish(u, "FAILED", "unlock") /\ UNCHANGED marker
  <2>1. Moved(u, "FAILED", "unlock")
    BY <1>6, FinishIs DEF Steps, Done, IInv
  <2>2. JobStops(u)' /\ JobBacksUp(u)' /\ JobWrites(u)'
    BY <2>1 DEF Moved, JobStops, JobBacksUp, JobWrites, Waiting
  <2>3. LastTells(job[u]) => LastTells(job[u])'
    BY <1>1, <1>2, <2>1 DEF LastTells, Whole, Waiting, Moved, Running
  <2>4. "unlock" \in Holding /\ "unlock" \notin Running /\ "unlock" \notin Marked
        /\ "FAILED" \in Done
    BY DEF Holding, Running, Marked, Steps, Done
  <2> QED BY <1>1, <1>2, <1>3, <1>4, <1>6, <2>1, <2>2, <2>3, <2>4, CommandKeeps
<1> QED BY <1>5, <1>6 DEF Maintenance

-----------------------------------------------------------------------------
(* While the marker keeps the members out.                                 *)

LEMMA MarkedKeeps ==
    ASSUME IInv, NEW u \in Updates, job[u].at \in Marked \ {"clear"},
           NEW phase, NEW step \in Marked, Moved(u, phase, step),
           IF step = "clear" THEN phase \in Done ELSE phase = "RUNNING",
           Fault \/ Works, UNCHANGED <<Context, locked, marker>>,
           version' \in Releases, files' \in Files, db' \in Database,
           services' \in Releases \cup {0}, request' \in BOOLEAN,
           HostFits', JobStops(u)', JobBacksUp(u)', JobWrites(u)',
           LastTells(job[u]) => LastTells(job[u])'
    PROVE  IInv'
<1>1. job[u].at \in Holding \ {"unlock"} /\ step \in Holding /\ step # "unlock"
      /\ (step \in Running => step # "clear")
  BY DEF Marked, Running, Holding
<1>2. marker' /\ marker' \in BOOLEAN
  BY <1>1, CommandFinds
<1> QED BY <1>1, <1>2, CommandKeeps

\* A job left to manual recovery says nothing.
LEMMA ManualKeeps ==
    ASSUME IInv, NEW u \in Updates, job[u].at \in Marked \ {"clear"},
           Manual(u), Fault, UNCHANGED Command,
           files' \in Files, db' \in Database,
           services' \in Releases \cup {0}, request' \in BOOLEAN, HostFits'
    PROVE  IInv'
<1>1. Moved(u, "NEEDS_MANUAL_RECOVERY", "unlock")
  BY FinishIs DEF Manual, Steps, Done, IInv
<1>2. job[u].at \in Holding \ {"unlock"} /\ "unlock" \in Holding
      /\ "unlock" \notin Running /\ "unlock" \notin Marked
      /\ "NEEDS_MANUAL_RECOVERY" \in Done
  BY DEF Marked, Running, Holding, Steps, Done
<1>3. UNCHANGED <<Context, version, locked, marker>>
  BY DEF Command
<1>4. marker' \in BOOLEAN /\ version' \in Releases
  BY <1>2, <1>3, CommandFinds
<1>5. JobStops(u)' /\ JobBacksUp(u)' /\ JobWrites(u)'
  BY <1>1 DEF Moved, JobStops, JobBacksUp, JobWrites, Waiting
<1>6. LastTells(job[u])'
  BY <1>1 DEF LastTells, Moved, Waiting, Running
<1> QED BY <1>1, <1>2, <1>3, <1>4, <1>5, <1>6, CommandKeeps

\* What a command of the maintenance finds.
LEMMA MarkedFinds ==
    ASSUME IInv, NEW u \in Updates, job[u].at \in Marked \ {"clear"}
    PROVE  /\ job[u].phase = "RUNNING" /\ network \notin {"lock", "apply"} /\ marker
           /\ files \in Files /\ db \in Database /\ services \in Releases \cup {0}
           /\ request \in BOOLEAN /\ version \in Releases
           /\ files.env \in Releases /\ job[u].files \in Files
           /\ job[u].backup \in Database
           /\ HostFits /\ JobStops(u) /\ JobBacksUp(u) /\ JobWrites(u)
<1>1. job[u].at \in Holding \ {"unlock"} /\ job[u].at \in Running
  BY DEF Marked, Running, Holding
<1> QED BY <1>1, CommandFinds

LEMMA StopKeeps ==
    ASSUME IInv, NEW u \in Updates, StopClients(u)
    PROVE  IInv'
<1>1. job[u].at = "stop" /\ job[u].at \in Marked \ {"clear"}
      /\ UNCHANGED <<Context, version, locked, marker, files, db>>
  BY DEF StopClients, At, Command, Holding, Marked, Steps
<1>2. UNCHANGED <<network, acknowledged>>
  BY <1>1 DEF Context
<1>3. /\ job[u].phase = "RUNNING" /\ network \notin {"lock", "apply"}
      /\ files \in Files /\ db \in Database /\ services \in Releases \cup {0}
      /\ request \in BOOLEAN /\ version \in Releases
      /\ HostFits /\ services # 0 /\ files = job[u].files
  BY <1>1, MarkedFinds DEF JobStops, JobWrites
<1>4. ASSUME NEW r \in {0, services}, Run(r)
      PROVE  HostFits' /\ services' \in {0, services} /\ request' \in BOOLEAN
  BY <1>1, <1>2, <1>3, <1>4 DEF Run, HostFits
<1>5. CASE Run(0) /\ Go(u, "backup") /\ Works
  <2>1. Moved(u, "RUNNING", "backup")
    BY <1>3, <1>5, GoIs DEF Steps, IInv
  <2>2. services' = 0
    BY <1>5 DEF Run
  <2>3. JobStops(u)' /\ JobBacksUp(u)' /\ JobWrites(u)'
    BY <1>1, <1>3, <2>1, <2>2, MarkedFinds
       DEF Moved, JobStops, JobBacksUp, JobWrites, Waiting, HostFits
  <2>4. LastTells(job[u]) => LastTells(job[u])'
    BY <1>1, <1>3, <2>1 DEF LastTells, Waiting, Moved, Running, Steps
  <2>5. "backup" \in Marked
    BY DEF Holding, Marked, Steps
  <2> QED BY <1>1, <1>3, <1>4, <1>5, <2>1, <2>3, <2>4, <2>5, MarkedKeeps
<1>6. CASE Fault /\ (\E r \in {0, services} : Run(r)) /\ Go(u, "resume")
  <2>1. Moved(u, "RUNNING", "resume")
    BY <1>3, <1>6, GoIs DEF Steps, IInv
  <2>2. JobStops(u)' /\ JobBacksUp(u)' /\ JobWrites(u)'
    BY <1>1, <1>3, <2>1 DEF Moved, JobStops, JobBacksUp, JobWrites, Waiting, HostFits
  <2>3. LastTells(job[u]) => LastTells(job[u])'
    BY <1>1, <1>3, <2>1 DEF LastTells, Waiting, Moved, Running, Steps
  <2>4. "resume" \in Marked
    BY DEF Holding, Marked, Steps
  <2>5. HostFits' /\ services' \in {0, services} /\ request' \in BOOLEAN
    BY <1>4, <1>6
  <2> QED BY <1>1, <1>3, <1>6, <2>1, <2>2, <2>3, <2>4, <2>5, MarkedKeeps
<1> QED BY <1>5, <1>6 DEF StopClients

LEMMA BackupKeeps ==
    ASSUME IInv, NEW u \in Updates, BackupDatabase(u)
    PROVE  IInv'
<1>1. job[u].at = "backup" /\ job[u].at \in Marked \ {"clear"}
      /\ UNCHANGED <<Context, version, locked, marker, files, db, services, request>>
  BY DEF BackupDatabase, At, Command, Holding, Marked, Steps
<1>2. UNCHANGED <<manifest, latest, network, deaths, acknowledged>>
  BY <1>1 DEF Context
<1>3. /\ job[u].phase = "RUNNING" /\ network \notin {"lock", "apply"} /\ marker
      /\ files \in Files /\ db \in Database /\ services \in Releases \cup {0}
      /\ request \in BOOLEAN /\ version \in Releases
      /\ HostFits /\ services = 0 /\ files = job[u].files /\ db.schema = files.env
      /\ job[u].target \in Releases
  BY <1>1, MarkedFinds DEF JobStops, JobWrites
<1>4. HostFits'
  BY <1>1, <1>2, <1>3 DEF HostFits
<1>5. CASE Fault /\ Go(u, "resume")
  <2>1. Moved(u, "RUNNING", "resume")
    BY <1>3, <1>5, GoIs DEF Steps, IInv
  <2>2. JobStops(u)' /\ JobBacksUp(u)' /\ JobWrites(u)'
    BY <1>1, <1>3, <2>1 DEF Moved, JobStops, JobBacksUp, JobWrites, Waiting
  <2>3. LastTells(job[u]) => LastTells(job[u])'
    BY <1>1, <1>3, <2>1 DEF LastTells, Waiting, Moved, Running, Steps
  <2>4. "resume" \in Marked
    BY DEF Holding, Marked, Steps
  <2> QED BY <1>1, <1>3, <1>4, <1>5, <2>1, <2>2, <2>3, <2>4, MarkedKeeps
<1>6. ASSUME Works, job' = [job EXCEPT ![u].backup = db, ![u].at = "migrate"]
      PROVE  IInv'
  <2> DEFINE i == [job[u] EXCEPT !.backup = db]
             k == [i EXCEPT !.at = "migrate"]
  <2>1. job \in [Updates -> Job] /\ job[u] \in Job
    BY DEF IInv, TypeOK
  <2>2. i \in Job
    BY <1>3, <2>1, FieldWrites
  <2>3. k \in Job
    <3> HIDE DEF i
    <3> QED BY <2>2, FieldWrites DEF Steps
  <2>4. k.at = "migrate" /\ k.phase = "RUNNING" /\ k.files = job[u].files
        /\ k.target = job[u].target /\ k.backup = db
    BY <1>3, <2>1 DEF Job
  <2>5. job' = [job EXCEPT ![u] = k]
    BY <1>6
  <2> HIDE DEF k
  <2>6. \A v \in Updates : job'[v] = IF v = u THEN k ELSE job[v]
    BY <2>1, <2>5
  <2>7. u = latest /\ latest # 0
        /\ \A v \in Updates : v # u => job[v].at \in {"idle", "unlock"}
    BY <1>1, OthersRest DEF IInv
  <2>8. TypeOK'
    BY <1>1, <1>2, <1>6, <2>1, <2>3, <2>5 DEF IInv, TypeOK, Works
  <2>9. Turns'
    BY <1>1, <1>2, <1>3, <2>4, <2>6, <2>7
       DEF IInv, Turns, JobsTakeTurns, Holding, Running, Marked, Steps
  <2>10. Fits'
    <3>1. JobStops(u)' /\ JobBacksUp(u)' /\ JobWrites(u)'
      BY <1>1, <1>2, <1>3, <2>4, <2>6
         DEF JobStops, JobBacksUp, JobWrites, Waiting, HostFits
    <3>2. ASSUME NEW v \in Updates, v # u
          PROVE  JobStops(v)' /\ JobBacksUp(v)' /\ JobWrites(v)'
      BY <2>6, <2>7, <3>2 DEF JobStops, JobBacksUp, JobWrites, Waiting
    <3> QED BY <1>4, <3>1, <3>2 DEF Fits
  <2>11. JobsTell'
    <3>1. NoManualBefore' => NoManualBefore
      <4>1. \A v \in 1 .. latest - 1 : v \in Updates /\ v # u
        BY <2>7, Constants, Types DEF IInv, Updates
      <4> QED BY <1>2, <2>6, <4>1 DEF NoManualBefore
    <3>2. LastTells(job[u]) => LastTells(job[u])'
      BY <1>1, <1>2, <1>3, <2>4, <2>6 DEF LastTells, Waiting, Running, Steps
    <3> QED BY <1>2, <2>7, <3>1, <3>2 DEF IInv, JobsTell
  <2>12. MarkerTells'
    BY <1>2, <2>4, <2>6, <2>7 DEF MarkerTells, Marked, Holding, Steps
  <2> QED BY <2>8, <2>9, <2>10, <2>11, <2>12 DEF IInv
<1> QED BY <1>5, <1>6 DEF BackupDatabase

\* Containers of the release that the files name, on its database.
LEMMA RunFits ==
    ASSUME HostFits, UNCHANGED <<files, db, acknowledged, network>>,
           network \notin {"lock", "apply"}, services \in Releases \cup {0},
           files.env \in Releases, request \in BOOLEAN,
           NEW r \in {0, services, files.env}, Run(r),
           r = files.env => db.schema = files.env
    PROVE  /\ HostFits' /\ services' \in Releases \cup {0} /\ request' \in BOOLEAN
           /\ services' = r /\ (request' => request /\ r = services)
BY DEF HostFits, Run

\* A command that only moves the job on.
LEMMA ResumeKeeps ==
    ASSUME IInv, NEW u \in Updates, Resume(u)
    PROVE  IInv'
<1>1. job[u].at = "resume" /\ job[u].at \in Marked \ {"clear"}
      /\ UNCHANGED <<Context, version, locked, marker, files, db>>
      /\ UNCHANGED Command
  BY DEF Resume, Up, At, Command, Holding, Marked, Steps
<1>2. UNCHANGED <<network, acknowledged>>
  BY <1>1 DEF Context
<1>3. /\ job[u].phase = "RUNNING" /\ network \notin {"lock", "apply"} /\ marker
      /\ files \in Files /\ db \in Database /\ services \in Releases \cup {0}
      /\ request \in BOOLEAN /\ version \in Releases /\ files.env \in Releases
      /\ HostFits /\ files = job[u].files /\ db.schema = files.env
  BY <1>1, MarkedFinds DEF JobWrites
<1>4. CASE Run(files.env) /\ Finish(u, "FAILED", "clear") /\ Works
  <2>1. Moved(u, "FAILED", "clear")
    BY <1>4, FinishIs DEF Steps, Done, IInv
  <2>2. HostFits' /\ services' = files.env /\ services' \in Releases \cup {0}
        /\ request' \in BOOLEAN
    BY <1>1, <1>2, <1>3, <1>4, RunFits
  <2>3. JobStops(u)' /\ JobBacksUp(u)' /\ JobWrites(u)'
    BY <2>1 DEF Moved, JobStops, JobBacksUp, JobWrites, Waiting
  <2>4. LastTells(job[u]) => LastTells(job[u])'
    <3>1. job[u].at \in Running \ (Waiting \cup {"prepare"})
      BY <1>1 DEF Running, Waiting, Steps
    <3>2. LastTells(job[u]) => files = Of(version)
      BY <1>3, <3>1 DEF LastTells
    <3>3. files = Of(version) => Whole(version)'
      BY <1>1, <1>3, <2>2 DEF Whole, Of
    <3> QED BY <2>1, <3>2, <3>3 DEF LastTells, Waiting, Moved, Running
  <2>5. "clear" \in Marked /\ "FAILED" \in Done
    BY DEF Holding, Marked, Steps, Done
  <2> QED BY <1>1, <1>3, <1>4, <2>1, <2>2, <2>3, <2>4, <2>5, MarkedKeeps
<1>5. CASE Fault /\ (\E r \in {services, files.env} : Run(r)) /\ Manual(u)
  <2>1. PICK r \in {0, services, files.env} : Run(r)
    BY <1>5
  <2>2. HostFits' /\ services' \in Releases \cup {0} /\ request' \in BOOLEAN
    BY <1>1, <1>2, <1>3, <2>1, RunFits
  <2> QED BY <1>1, <1>3, <1>5, <2>2, ManualKeeps
<1> QED BY <1>4, <1>5 DEF Resume, Up

LEMMA StartAgainKeeps ==
    ASSUME IInv, NEW u \in Updates, StartAgain(u)
    PROVE  IInv'
<1>1. job[u].at = "start_again" /\ job[u].at \in Marked \ {"clear"}
      /\ UNCHANGED <<Context, version, locked, marker, files, db>>
      /\ UNCHANGED Command
  BY DEF StartAgain, Up, At, Command, Holding, Marked, Steps
<1>2. UNCHANGED <<network, acknowledged>>
  BY <1>1 DEF Context
<1>3. /\ job[u].phase = "RUNNING" /\ network \notin {"lock", "apply"} /\ marker
      /\ files \in Files /\ db \in Database /\ services \in Releases \cup {0}
      /\ request \in BOOLEAN /\ version \in Releases /\ files.env \in Releases
      /\ HostFits /\ files = job[u].files /\ db.schema = files.env
  BY <1>1, MarkedFinds DEF JobWrites
<1>4. LastTells(job[u]) => files = Of(version)
  BY <1>1, <1>3 DEF LastTells, Running, Waiting, Steps
<1>5. ASSUME Run(files.env), Works
      PROVE  HostFits' /\ services' = files.env /\ services' \in Releases \cup {0}
             /\ request' \in BOOLEAN /\ services' # 0
  BY <1>1, <1>2, <1>3, <1>5, RunFits, Constants
<1>6. CASE Run(files.env) /\ Finish(u, job[u].outcome, "clear") /\ Works
  <2>1. job[u].outcome \in {"FAILED", "ROLLED_BACK"}
    BY Types DEF IInv, Job
  <2>2. Moved(u, job[u].outcome, "clear")
    BY <1>6, <2>1, FinishIs DEF Steps, Done, IInv
  <2>3. JobStops(u)' /\ JobBacksUp(u)' /\ JobWrites(u)'
    BY <2>2 DEF Moved, JobStops, JobBacksUp, JobWrites, Waiting
  <2>4. LastTells(job[u]) => LastTells(job[u])'
    <3>1. files = Of(version) => Whole(version)'
      BY <1>1, <1>3, <1>5, <1>6 DEF Whole, Of
    <3>2. files = Of(version) => Whole(job[u].files.env)'
      BY <1>3, <2>2, <3>1, <1>1 DEF Of, Moved, Whole
    <3> QED BY <1>4, <2>1, <2>2, <3>1, <3>2 DEF LastTells, Waiting, Moved, Running
  <2>5. "clear" \in Marked /\ job[u].outcome \in Done
    BY <2>1 DEF Holding, Marked, Steps, Done
  <2> QED BY <1>1, <1>3, <1>5, <1>6, <2>2, <2>3, <2>4, <2>5, MarkedKeeps
<1>7. CASE Run(files.env) /\ Go(u, "entrance_again") /\ Works
  <2>1. Moved(u, "RUNNING", "entrance_again")
    BY <1>3, <1>7, GoIs DEF Steps, IInv
  <2>2. JobStops(u)' /\ JobBacksUp(u)' /\ JobWrites(u)'
    BY <1>1, <1>3, <1>5, <1>7, <2>1 DEF Moved, JobStops, JobBacksUp, JobWrites, Waiting
  <2>3. LastTells(job[u]) => LastTells(job[u])'
    BY <1>1, <1>3, <2>1 DEF LastTells, Waiting, Moved, Running, Steps
  <2>4. "entrance_again" \in Marked
    BY DEF Holding, Marked, Steps
  <2> QED BY <1>1, <1>3, <1>5, <1>7, <2>1, <2>2, <2>3, <2>4, MarkedKeeps
<1>8. CASE Fault /\ (\E r \in {services, files.env} : Run(r)) /\ Manual(u)
  <2>1. PICK r \in {0, services, files.env} : Run(r)
    BY <1>8
  <2>2. HostFits' /\ services' \in Releases \cup {0} /\ request' \in BOOLEAN
    BY <1>1, <1>2, <1>3, <2>1, RunFits
  <2> QED BY <1>1, <1>3, <1>8, <2>2, ManualKeeps
<1> QED BY <1>6, <1>7, <1>8 DEF StartAgain, Up

LEMMA MigrateKeeps ==
    ASSUME IInv, NEW u \in Updates, Migrate(u)
    PROVE  IInv'
<1>1. job[u].at = "migrate" /\ job[u].at \in Marked \ {"clear"}
      /\ UNCHANGED <<Context, version, locked, marker, files, services, request>>
  BY DEF Migrate, At, Command, Holding, Marked, Steps
<1>2. UNCHANGED <<network, acknowledged>>
  BY <1>1 DEF Context
<1>3. /\ job[u].phase = "RUNNING" /\ network \notin {"lock", "apply"} /\ marker
      /\ files \in Files /\ db \in Database /\ services \in Releases \cup {0}
      /\ request \in BOOLEAN /\ version \in Releases /\ files.env \in Releases
      /\ HostFits /\ services = 0 /\ files = job[u].files
      /\ job[u].backup.writes = acknowledged /\ job[u].backup.schema = job[u].files.env
      /\ job[u].target \in Releases
  BY <1>1, MarkedFinds DEF JobStops, JobBacksUp, JobWrites
<1>4. ASSUME NEW s \in Releases \cup {0, -1}, db' = [db EXCEPT !.schema = s]
      PROVE  HostFits' /\ db' \in Database /\ db'.schema = s
  BY <1>1, <1>2, <1>3, <1>4, SchemaIs DEF HostFits, IInv
<1>5. CASE db' = [db EXCEPT !.schema = job[u].target] /\ Go(u, "compose") /\ Works
  <2>1. Moved(u, "RUNNING", "compose")
    BY <1>3, <1>5, GoIs DEF Steps, IInv
  <2>2. JobStops(u)' /\ JobBacksUp(u)' /\ JobWrites(u)'
    BY <1>1, <1>2, <1>3, <1>4, <1>5, <2>1
       DEF Moved, JobStops, JobBacksUp, JobWrites, Waiting
  <2>3. LastTells(job[u]) => LastTells(job[u])'
    BY <1>1, <1>3, <2>1 DEF LastTells, Waiting, Moved, Running, Steps
  <2>4. "compose" \in Marked
    BY DEF Holding, Marked, Steps
  <2> QED BY <1>1, <1>3, <1>4, <1>5, <2>1, <2>2, <2>3, <2>4, MarkedKeeps
<1>6. ASSUME Fault, Undo(u, "database", "ROLLED_BACK", "stop_again"),
             NEW s \in {db.schema, -1, job[u].target}, db' = [db EXCEPT !.schema = s]
      PROVE  IInv'
  <2>1. Moved(u, "RUNNING", "stop_again")
    BY <1>3, <1>6, UndoIs DEF Steps, IInv
  <2>2. s \in Releases \cup {0, -1}
    BY <1>3, Types DEF IInv
  <2>3. JobStops(u)' /\ JobBacksUp(u)' /\ JobWrites(u)'
    BY <1>1, <1>2, <1>3, <2>1 DEF Moved, JobStops, JobBacksUp, JobWrites, Waiting, HostFits
  <2>4. LastTells(job[u]) => LastTells(job[u])'
    BY <1>1, <1>3, <2>1 DEF LastTells, Waiting, Moved, Running, Steps
  <2>5. "stop_again" \in Marked
    BY DEF Holding, Marked, Steps
  <2> QED BY <1>1, <1>3, <1>4, <1>6, <2>1, <2>2, <2>3, <2>4, <2>5, MarkedKeeps
<1> QED BY <1>5, <1>6 DEF Migrate

LEMMA ComposeKeeps ==
    ASSUME IInv, NEW u \in Updates, WriteFile(u, "compose", "env")
    PROVE  IInv'
<1>1. job[u].at = "compose" /\ job[u].at \in Marked \ {"clear"}
      /\ UNCHANGED <<Context, version, locked, marker, db, services, request>>
  BY DEF WriteFile, At, Command, Holding, Marked, Steps
<1>2. UNCHANGED <<network, acknowledged>>
  BY <1>1 DEF Context
<1>3. /\ job[u].phase = "RUNNING" /\ network \notin {"lock", "apply"} /\ marker
      /\ files \in Files /\ db \in Database /\ services \in Releases \cup {0}
      /\ request \in BOOLEAN /\ version \in Releases /\ files.env \in Releases
      /\ HostFits /\ services = 0 /\ files = job[u].files
      /\ db.schema = job[u].target
      /\ job[u].backup.writes = acknowledged /\ job[u].backup.schema = job[u].files.env
      /\ job[u].target \in Releases
  BY <1>1, MarkedFinds DEF JobStops, JobBacksUp, JobWrites
<1>4. HostFits'
  BY <1>1, <1>2, <1>3 DEF HostFits
<1>5. CASE files' = [files EXCEPT !["compose"] = job[u].target] /\ Go(u, "env") /\ Works
  <2>1. Moved(u, "RUNNING", "env")
    BY <1>3, <1>5, GoIs DEF Steps, IInv
  <2>2. files' = [compose |-> job[u].target, env |-> job[u].files.env] /\ files' \in Files
    BY <1>3, <1>5 DEF Files
  <2>3. JobStops(u)' /\ JobBacksUp(u)' /\ JobWrites(u)'
    BY <1>1, <1>2, <1>3, <2>1, <2>2 DEF Moved, JobStops, JobBacksUp, JobWrites, Waiting
  <2>4. LastTells(job[u]) => LastTells(job[u])'
    BY <1>1, <1>3, <2>1 DEF LastTells, Waiting, Moved, Running, Steps
  <2>5. "env" \in Marked
    BY DEF Holding, Marked, Steps
  <2> QED BY <1>1, <1>3, <1>4, <1>5, <2>1, <2>2, <2>3, <2>4, <2>5, MarkedKeeps
<1>6. CASE Fault /\ UNCHANGED files /\ Undo(u, "installation", "ROLLED_BACK", "files_back")
  <2>1. Moved(u, "RUNNING", "files_back")
    BY <1>3, <1>6, UndoIs DEF Steps, IInv
  <2>2. JobStops(u)' /\ JobBacksUp(u)' /\ JobWrites(u)'
    BY <1>1, <1>2, <1>3, <2>1 DEF Moved, JobStops, JobBacksUp, JobWrites, Waiting
  <2>3. LastTells(job[u]) => LastTells(job[u])'
    BY <1>1, <1>3, <2>1 DEF LastTells, Waiting, Moved, Running, Steps
  <2>4. "files_back" \in Marked
    BY DEF Holding, Marked, Steps
  <2> QED BY <1>1, <1>3, <1>4, <1>6, <2>1, <2>2, <2>3, <2>4, MarkedKeeps
<1> QED BY <1>5, <1>6 DEF WriteFile

LEMMA EnvKeeps ==
    ASSUME IInv, NEW u \in Updates, WriteFile(u, "env", "restart")
    PROVE  IInv'
<1>1. job[u].at = "env" /\ job[u].at \in Marked \ {"clear"}
      /\ UNCHANGED <<Context, version, locked, marker, db, services, request>>
  BY DEF WriteFile, At, Command, Holding, Marked, Steps
<1>2. UNCHANGED <<network, acknowledged>>
  BY <1>1 DEF Context
<1>3. /\ job[u].phase = "RUNNING" /\ network \notin {"lock", "apply"} /\ marker
      /\ files \in Files /\ db \in Database /\ services \in Releases \cup {0}
      /\ request \in BOOLEAN /\ version \in Releases /\ files.env \in Releases
      /\ HostFits /\ services = 0
      /\ files = [compose |-> job[u].target, env |-> job[u].files.env]
      /\ db.schema = job[u].target
      /\ job[u].backup.writes = acknowledged /\ job[u].backup.schema = job[u].files.env
      /\ job[u].target \in Releases
  BY <1>1, MarkedFinds DEF JobStops, JobBacksUp, JobWrites
<1>4. HostFits'
  BY <1>1, <1>2, <1>3 DEF HostFits
<1>5. CASE files' = [files EXCEPT !["env"] = job[u].target] /\ Go(u, "restart") /\ Works
  <2>1. Moved(u, "RUNNING", "restart")
    BY <1>3, <1>5, GoIs DEF Steps, IInv
  <2>2. files' = Of(job[u].target) /\ files' \in Files
    BY <1>3, <1>5 DEF Files, Of
  <2>3. JobStops(u)' /\ JobBacksUp(u)' /\ JobWrites(u)'
    BY <1>1, <1>2, <1>3, <2>1, <2>2 DEF Moved, JobStops, JobBacksUp, JobWrites, Waiting
  <2>4. LastTells(job[u]) => LastTells(job[u])'
    BY <1>1, <1>3, <2>1 DEF LastTells, Waiting, Moved, Running, Steps
  <2>5. "restart" \in Marked
    BY DEF Holding, Marked, Steps
  <2> QED BY <1>1, <1>3, <1>4, <1>5, <2>1, <2>2, <2>3, <2>4, <2>5, MarkedKeeps
<1>6. CASE Fault /\ UNCHANGED files /\ Undo(u, "installation", "ROLLED_BACK", "files_back")
  <2>1. Moved(u, "RUNNING", "files_back")
    BY <1>3, <1>6, UndoIs DEF Steps, IInv
  <2>2. JobStops(u)' /\ JobBacksUp(u)' /\ JobWrites(u)'
    BY <1>1, <1>2, <1>3, <2>1 DEF Moved, JobStops, JobBacksUp, JobWrites, Waiting
  <2>3. LastTells(job[u]) => LastTells(job[u])'
    BY <1>1, <1>3, <2>1 DEF LastTells, Waiting, Moved, Running, Steps
  <2>4. "files_back" \in Marked
    BY DEF Holding, Marked, Steps
  <2> QED BY <1>1, <1>3, <1>4, <1>6, <2>1, <2>2, <2>3, <2>4, MarkedKeeps
<1> QED BY <1>5, <1>6 DEF WriteFile

LEMMA RestartKeeps ==
    ASSUME IInv, NEW u \in Updates, Restart(u)
    PROVE  IInv'
<1>1. job[u].at = "restart" /\ job[u].at \in Marked \ {"clear"}
      /\ UNCHANGED <<Context, version, locked, marker, files, db>>
  BY DEF Restart, At, Command, Holding, Marked, Steps
<1>2. UNCHANGED <<network, acknowledged>>
  BY <1>1 DEF Context
<1>3. /\ job[u].phase = "RUNNING" /\ network \notin {"lock", "apply"} /\ marker
      /\ files \in Files /\ db \in Database /\ services \in Releases \cup {0}
      /\ request \in BOOLEAN /\ version \in Releases /\ files.env \in Releases
      /\ HostFits /\ services = 0 /\ files = Of(job[u].target)
      /\ db.schema = job[u].target
      /\ job[u].backup.writes = acknowledged /\ job[u].backup.schema = job[u].files.env
      /\ job[u].target \in Releases
  BY <1>1, MarkedFinds DEF JobStops, JobBacksUp, JobWrites
<1>4. db.schema = files.env /\ ~ request
  BY <1>3 DEF Of, HostFits
<1>5. ASSUME NEW r \in {services, files.env}, Run(r)
      PROVE  HostFits' /\ services' = r /\ services' \in Releases \cup {0}
             /\ request' \in BOOLEAN /\ ~ request'
  BY <1>1, <1>2, <1>3, <1>4, <1>5, RunFits
<1>6. CASE Run(files.env) /\ Go(u, "health") /\ Works
  <2>1. Moved(u, "RUNNING", "health")
    BY <1>3, <1>6, GoIs DEF Steps, IInv
  <2>2. services' # 0
    BY <1>3, <1>5, <1>6, Constants
  <2>3. JobStops(u)' /\ JobBacksUp(u)' /\ JobWrites(u)'
    BY <1>1, <1>2, <1>3, <1>5, <1>6, <2>1, <2>2
       DEF Moved, JobStops, JobBacksUp, JobWrites, Waiting
  <2>4. LastTells(job[u]) => LastTells(job[u])'
    BY <1>1, <1>3, <2>1 DEF LastTells, Waiting, Moved, Running, Steps
  <2>5. "health" \in Marked
    BY DEF Holding, Marked, Steps
  <2> QED BY <1>1, <1>3, <1>5, <1>6, <2>1, <2>3, <2>4, <2>5, MarkedKeeps
<1>7. CASE Fault /\ (\E r \in {services, files.env} : Run(r)) /\ RestartUndo(u)
  <2>1. PICK r \in {services, files.env} : Run(r)
    BY <1>7
  <2>2. Moved(u, "RUNNING", "stop_again") /\ job'[u].way = "installation"
    BY <1>3, <1>7, UndoIs DEF Steps, IInv, RestartUndo
  <2>3. HostFits' /\ services' \in Releases \cup {0} /\ request' \in BOOLEAN /\ ~ request'
    BY <1>5, <2>1
  <2>4. JobStops(u)' /\ JobBacksUp(u)' /\ JobWrites(u)'
    BY <1>1, <1>2, <1>3, <2>2, <2>3 DEF Moved, JobStops, JobBacksUp, JobWrites, Waiting
  <2>5. LastTells(job[u]) => LastTells(job[u])'
    BY <1>1, <1>3, <2>2 DEF LastTells, Waiting, Moved, Running, Steps
  <2>6. "stop_again" \in Marked
    BY DEF Holding, Marked, Steps
  <2> QED BY <1>1, <1>3, <1>7, <2>2, <2>3, <2>4, <2>5, <2>6, MarkedKeeps
<1> QED BY <1>6, <1>7 DEF Restart

LEMMA HealthKeeps ==
    ASSUME IInv, NEW u \in Updates, Health(u)
    PROVE  IInv'
<1>1. job[u].at = "health" /\ job[u].at \in Marked \ {"clear"}
      /\ UNCHANGED <<Context, version, locked, marker, files, db, services, request>>
  BY DEF Health, At, Command, Holding, Marked, Steps
<1>2. UNCHANGED <<network, acknowledged>>
  BY <1>1 DEF Context
<1>3. /\ job[u].phase = "RUNNING" /\ network \notin {"lock", "apply"} /\ marker
      /\ files \in Files /\ db \in Database /\ services \in Releases \cup {0}
      /\ request \in BOOLEAN /\ version \in Releases /\ ~ request
      /\ HostFits /\ services # 0 /\ files = Of(job[u].target)
      /\ db.schema = job[u].target
      /\ job[u].backup.writes = acknowledged /\ job[u].backup.schema = job[u].files.env
      /\ job[u].target \in Releases
  BY <1>1, MarkedFinds DEF JobStops, JobBacksUp, JobWrites
<1>4. HostFits'
  BY <1>1, <1>2, <1>3 DEF HostFits
<1>5. CASE Go(u, "entrance") /\ Works
  <2>1. Moved(u, "RUNNING", "entrance")
    BY <1>3, <1>5, GoIs DEF Steps, IInv
  <2>2. JobStops(u)' /\ JobBacksUp(u)' /\ JobWrites(u)'
    BY <1>1, <1>2, <1>3, <2>1 DEF Moved, JobStops, JobBacksUp, JobWrites, Waiting
  <2>3. LastTells(job[u]) => LastTells(job[u])'
    BY <1>1, <1>3, <2>1 DEF LastTells, Waiting, Moved, Running, Steps
  <2>4. "entrance" \in Marked
    BY DEF Holding, Marked, Steps
  <2> QED BY <1>1, <1>3, <1>4, <1>5, <2>1, <2>2, <2>3, <2>4, MarkedKeeps
<1>6. CASE Fault /\ Undo(u, "installation", "ROLLED_BACK", "stop_again")
  <2>1. Moved(u, "RUNNING", "stop_again") /\ job'[u].way = "installation"
    BY <1>3, <1>6, UndoIs DEF Steps, IInv
  <2>2. JobStops(u)' /\ JobBacksUp(u)' /\ JobWrites(u)'
    BY <1>1, <1>2, <1>3, <2>1 DEF Moved, JobStops, JobBacksUp, JobWrites, Waiting
  <2>3. LastTells(job[u]) => LastTells(job[u])'
    BY <1>1, <1>3, <2>1 DEF LastTells, Waiting, Moved, Running, Steps
  <2>4. "stop_again" \in Marked
    BY DEF Holding, Marked, Steps
  <2> QED BY <1>1, <1>3, <1>4, <1>6, <2>1, <2>2, <2>3, <2>4, MarkedKeeps
<1> QED BY <1>5, <1>6 DEF Health

LEMMA EntranceKeeps ==
    ASSUME IInv, NEW u \in Updates, FinishEntrance(u)
    PROVE  IInv'
<1>1. job[u].at = "entrance" /\ job[u].at \in Marked \ {"clear"}
      /\ UNCHANGED <<Context, locked, marker, files, db, services, request>>
      /\ version' = job[u].target
  BY DEF FinishEntrance, At, Holding, Marked, Steps
<1>2. UNCHANGED <<network, acknowledged>>
  BY <1>1 DEF Context
<1>3. /\ job[u].phase = "RUNNING" /\ network \notin {"lock", "apply"} /\ marker
      /\ files \in Files /\ db \in Database /\ services \in Releases \cup {0}
      /\ request \in BOOLEAN
      /\ HostFits /\ services # 0 /\ files = Of(job[u].target)
      /\ db.schema = job[u].target /\ job[u].target \in Releases
  BY <1>1, MarkedFinds DEF JobStops, JobWrites
<1>4. HostFits'
  BY <1>1, <1>2, <1>3 DEF HostFits
<1>6. PICK phase \in {"SUCCEEDED", "FAILED"} : Finish(u, phase, "clear") /\ (Fault \/ Works)
  BY DEF FinishEntrance
<1>7. Moved(u, phase, "clear")
  BY <1>6, FinishIs DEF Steps, Done, IInv
<1>8. JobStops(u)' /\ JobBacksUp(u)' /\ JobWrites(u)'
  BY <1>7 DEF Moved, JobStops, JobBacksUp, JobWrites, Waiting
<1>9. LastTells(job[u])'
  <2>1. Whole(job[u].target)' /\ Whole(version)'
    BY <1>1, <1>3, <1>7 DEF Whole, HostFits, Moved
  <2> QED BY <1>7, <2>1 DEF LastTells, Waiting, Moved, Running
<1>10. "clear" \in Marked /\ phase \in Done
  BY DEF Holding, Marked, Steps, Done
<1> QED BY <1>1, <1>3, <1>4, <1>6, <1>7, <1>8, <1>9, <1>10, MarkedKeeps

-----------------------------------------------------------------------------
(* The way back.                                                           *)

LEMMA StopAgainKeeps ==
    ASSUME IInv, NEW u \in Updates, StopAgain(u)
    PROVE  IInv'
<1>1. job[u].at = "stop_again" /\ job[u].at \in Marked \ {"clear"}
      /\ UNCHANGED <<Context, version, locked, marker, files, db>>
      /\ UNCHANGED Command
  BY DEF StopAgain, At, Command, Holding, Marked, Steps
<1>2. UNCHANGED <<network, acknowledged>>
  BY <1>1 DEF Context
<1>3. /\ job[u].phase = "RUNNING" /\ network \notin {"lock", "apply"} /\ marker
      /\ files \in Files /\ db \in Database /\ services \in Releases \cup {0}
      /\ request \in BOOLEAN /\ version \in Releases /\ files.env \in Releases
      /\ HostFits /\ (job[u].way = "database" => files = job[u].files)
      /\ job[u].backup.writes = acknowledged /\ job[u].backup.schema = job[u].files.env
  BY <1>1, MarkedFinds DEF JobBacksUp, JobWrites
<1>4. ASSUME NEW r \in {0, services}, Run(r)
      PROVE  HostFits' /\ services' = r /\ services' \in Releases \cup {0}
             /\ request' \in BOOLEAN
  BY <1>1, <1>2, <1>3, <1>4 DEF Run, HostFits
<1>5. ASSUME Run(0), Works, NEW step \in {"restore", "files_back"}, Go(u, step),
             step = "restore" => job[u].way = "database"
      PROVE  IInv'
  <2>1. Moved(u, "RUNNING", step)
    BY <1>3, <1>5, GoIs DEF Steps, IInv
  <2>2. services' = 0
    BY <1>5 DEF Run
  <2>3. JobStops(u)' /\ JobBacksUp(u)' /\ JobWrites(u)'
    BY <1>1, <1>2, <1>3, <1>5, <2>1, <2>2
       DEF Moved, JobStops, JobBacksUp, JobWrites, Waiting
  <2>4. LastTells(job[u]) => LastTells(job[u])'
    BY <1>1, <1>3, <2>1 DEF LastTells, Waiting, Moved, Running, Steps
  <2>5. step \in Marked /\ step # "clear"
    BY DEF Holding, Marked, Steps
  <2> QED BY <1>1, <1>3, <1>4, <1>5, <2>1, <2>3, <2>4, <2>5, MarkedKeeps
<1>6. CASE Fault /\ (\E r \in {0, services} : Run(r)) /\ Manual(u)
  <2>1. HostFits' /\ services' \in Releases \cup {0} /\ request' \in BOOLEAN
    BY <1>4, <1>6
  <2> QED BY <1>1, <1>3, <1>6, <2>1, ManualKeeps
<1>7. CASE Run(0) /\ Works
           /\ Go(u, IF job[u].way = "database" THEN "restore" ELSE "files_back")
  <2>1. CASE job[u].way = "database"
    BY <1>5, <1>7, <2>1
  <2>2. CASE job[u].way # "database"
    BY <1>5, <1>7, <2>2
  <2> QED BY <2>1, <2>2
<1> QED BY <1>6, <1>7 DEF StopAgain

LEMMA RestoreFilesKeeps ==
    ASSUME IInv, NEW u \in Updates, RestoreFiles(u)
    PROVE  IInv'
<1>1. job[u].at = "files_back" /\ job[u].at \in Marked \ {"clear"}
      /\ UNCHANGED <<Context, version, locked, marker, db, services, request>>
      /\ UNCHANGED Command
  BY DEF RestoreFiles, At, Command, Holding, Marked, Steps
<1>2. UNCHANGED <<network, acknowledged>>
  BY <1>1 DEF Context
<1>3. /\ job[u].phase = "RUNNING" /\ network \notin {"lock", "apply"} /\ marker
      /\ files \in Files /\ db \in Database /\ services \in Releases \cup {0}
      /\ request \in BOOLEAN /\ version \in Releases /\ job[u].files \in Files
      /\ HostFits /\ services = 0
      /\ job[u].backup.writes = acknowledged /\ job[u].backup.schema = job[u].files.env
  BY <1>1, MarkedFinds DEF JobBacksUp, JobStops
<1>4. HostFits'
  BY <1>1, <1>2, <1>3 DEF HostFits
<1>5. CASE files' = job[u].files /\ Go(u, "restore") /\ Works
  <2>1. Moved(u, "RUNNING", "restore")
    BY <1>3, <1>5, GoIs DEF Steps, IInv
  <2>2. JobStops(u)' /\ JobBacksUp(u)' /\ JobWrites(u)'
    BY <1>1, <1>2, <1>3, <1>5, <2>1 DEF Moved, JobStops, JobBacksUp, JobWrites, Waiting
  <2>3. LastTells(job[u]) => LastTells(job[u])'
    BY <1>1, <1>3, <2>1 DEF LastTells, Waiting, Moved, Running, Steps
  <2>4. "restore" \in Marked
    BY DEF Holding, Marked, Steps
  <2> QED BY <1>1, <1>3, <1>4, <1>5, <2>1, <2>2, <2>3, <2>4, MarkedKeeps
<1>6. CASE /\ Fault /\ Manual(u)
           /\ files' \in {files, [files EXCEPT !.compose = job[u].files.compose]}
  <2>1. files' \in Files
    BY <1>3, <1>6 DEF Files
  <2> QED BY <1>1, <1>3, <1>4, <1>6, <2>1, ManualKeeps
<1> QED BY <1>5, <1>6 DEF RestoreFiles

LEMMA RestoreDatabaseKeeps ==
    ASSUME IInv, NEW u \in Updates, RestoreDatabase(u)
    PROVE  IInv'
<1>1. job[u].at = "restore" /\ job[u].at \in Marked \ {"clear"}
      /\ UNCHANGED <<Context, version, locked, marker, files, services, request>>
      /\ UNCHANGED Command
  BY DEF RestoreDatabase, At, Command, Holding, Marked, Steps
<1>2. UNCHANGED <<network, acknowledged>>
  BY <1>1 DEF Context
<1>3. /\ job[u].phase = "RUNNING" /\ network \notin {"lock", "apply"} /\ marker
      /\ files \in Files /\ db \in Database /\ services \in Releases \cup {0}
      /\ request \in BOOLEAN /\ version \in Releases /\ job[u].backup \in Database
      /\ HostFits /\ services = 0 /\ files = job[u].files
      /\ job[u].backup.writes = acknowledged /\ job[u].backup.schema = job[u].files.env
  BY <1>1, MarkedFinds DEF JobBacksUp, JobStops, JobWrites
<1>4. CASE db' = job[u].backup /\ Go(u, "start_again") /\ Works
  <2>1. Moved(u, "RUNNING", "start_again")
    BY <1>3, <1>4, GoIs DEF Steps, IInv
  <2>2. JobStops(u)' /\ JobBacksUp(u)' /\ JobWrites(u)'
    BY <1>1, <1>2, <1>3, <1>4, <2>1 DEF Moved, JobStops, JobBacksUp, JobWrites, Waiting
  <2>3. LastTells(job[u]) => LastTells(job[u])'
    BY <1>1, <1>3, <2>1 DEF LastTells, Waiting, Moved, Running, Steps
  <2>4. "start_again" \in Marked
    BY DEF Holding, Marked, Steps
  <2>5. HostFits'
    BY <1>1, <1>2, <1>3, <1>4 DEF HostFits
  <2> QED BY <1>1, <1>3, <1>4, <2>1, <2>2, <2>3, <2>4, <2>5, MarkedKeeps
<1>5. ASSUME Fault, Manual(u), NEW s \in {db.schema, 0, -1}, db' = [db EXCEPT !.schema = s]
      PROVE  IInv'
  <2>1. s \in Releases \cup {0, -1}
    BY Types DEF IInv
  <2>2. db' \in Database /\ db'.writes = db.writes
    BY <1>5, <2>1, SchemaIs DEF IInv
  <2>3. HostFits'
    BY <1>1, <1>2, <1>3, <2>2 DEF HostFits
  <2> QED BY <1>1, <1>3, <1>5, <2>2, <2>3, ManualKeeps
<1> QED BY <1>4, <1>5 DEF RestoreDatabase

LEMMA EntranceAgainKeeps ==
    ASSUME IInv, NEW u \in Updates, EntranceAgain(u)
    PROVE  IInv'
<1>1. job[u].at = "entrance_again" /\ job[u].at \in Marked \ {"clear"}
      /\ UNCHANGED <<Context, version, locked, marker, files, db, services, request>>
      /\ UNCHANGED Command
  BY DEF EntranceAgain, At, Command, Holding, Marked, Steps
<1>2. UNCHANGED <<network, acknowledged>>
  BY <1>1 DEF Context
<1>3. /\ job[u].phase = "RUNNING" /\ network \notin {"lock", "apply"} /\ marker
      /\ files \in Files /\ db \in Database /\ services \in Releases \cup {0}
      /\ request \in BOOLEAN /\ version \in Releases
      /\ HostFits /\ services # 0 /\ files = job[u].files
  BY <1>1, MarkedFinds DEF JobStops, JobWrites
<1>4. HostFits'
  BY <1>1, <1>2, <1>3 DEF HostFits
<1>5. CASE Finish(u, job[u].outcome, "clear") /\ Works
  <2>1. job[u].outcome \in {"FAILED", "ROLLED_BACK"}
    BY Types DEF IInv, Job
  <2>2. Moved(u, job[u].outcome, "clear")
    BY <1>5, <2>1, FinishIs DEF Steps, Done, IInv
  <2>3. JobStops(u)' /\ JobBacksUp(u)' /\ JobWrites(u)'
    BY <2>2 DEF Moved, JobStops, JobBacksUp, JobWrites, Waiting
  <2>4. LastTells(job[u]) => LastTells(job[u])'
    <3>1. LastTells(job[u]) => files = Of(version)
      BY <1>1, <1>3 DEF LastTells, Running, Waiting, Steps
    <3>2. files = Of(version) => Whole(version)'
      BY <1>1, <1>3 DEF Whole, Of, HostFits
    <3>3. files = Of(version) => job[u].files.env = version
      BY <1>3 DEF Of
    <3>4. files = Of(version) => Whole(job[u].files.env)'
      BY <1>1, <2>2, <3>2, <3>3 DEF Moved, Whole
    <3> QED BY <2>1, <2>2, <3>1, <3>2, <3>4 DEF LastTells, Waiting, Moved, Running
  <2>5. "clear" \in Marked /\ job[u].outcome \in Done
    BY <2>1 DEF Holding, Marked, Steps, Done
  <2> QED BY <1>1, <1>3, <1>4, <1>5, <2>2, <2>3, <2>4, <2>5, MarkedKeeps
<1>6. CASE Fault /\ Manual(u)
  BY <1>1, <1>3, <1>4, <1>6, ManualKeeps
<1> QED BY <1>5, <1>6 DEF EntranceAgain

LEMMA ClearKeeps ==
    ASSUME IInv, NEW u \in Updates, ClearMaintenance(u)
    PROVE  IInv'
<1>1. job[u].at = "clear" /\ job[u].at \in Holding \ {"unlock"}
      /\ UNCHANGED <<Context, version, locked, files, db, services, request, faults>>
      /\ marker' = FALSE /\ Go(u, "unlock")
  BY DEF ClearMaintenance, At, Holding, Steps
<1>2. UNCHANGED <<network, acknowledged>>
  BY <1>1 DEF Context
<1>3. Moved(u, job[u].phase, "unlock")
  BY <1>1, GoIs DEF Steps, IInv
<1>4. job[u].phase \in Done
  BY <1>1 DEF IInv, Turns, JobsTakeTurns
<1>5. /\ files \in Files /\ db \in Database /\ services \in Releases \cup {0}
      /\ request \in BOOLEAN /\ version \in Releases /\ HostFits
  BY <1>1, CommandFinds
<1>6. HostFits'
  BY <1>1, <1>2, <1>5 DEF HostFits
<1>7. JobStops(u)' /\ JobBacksUp(u)' /\ JobWrites(u)'
  BY <1>3 DEF Moved, JobStops, JobBacksUp, JobWrites, Waiting
<1>8. LastTells(job[u]) => LastTells(job[u])'
  BY <1>1, <1>2, <1>3 DEF LastTells, Whole, Waiting, Moved, Running
<1>9. "unlock" \in Holding /\ "unlock" \notin Running /\ "unlock" \notin Marked
  BY DEF Holding, Running, Marked, Steps
<1>10. Fault \/ Works
  BY <1>1 DEF Works
<1> QED BY <1>1, <1>3, <1>4, <1>5, <1>6, <1>7, <1>8, <1>9, <1>10, CommandKeeps

LEMMA UnlockKeeps ==
    ASSUME IInv, NEW u \in Updates, Unlock(u)
    PROVE  IInv'
<1> USE DEF IInv
<1>1. job[u].at = "unlock" /\ locked' = FALSE /\ Go(u, "idle")
      /\ UNCHANGED <<manifest, latest, network, deaths, acknowledged, version, marker,
                     files, db, services, request, faults>>
  BY DEF Unlock, At, Context
<1>2. Moved(u, job[u].phase, "idle")
  BY <1>1, GoIs DEF Steps
<1>3. TypeOK'
  BY <1>1, <1>2 DEF TypeOK, Moved
<1>4. network # "apply" /\ \A v \in Updates : v # u => job[v].at \notin Holding
  BY <1>1 DEF Turns, JobsTakeTurns, Holding, Steps
<1>5. Turns'
  BY <1>1, <1>2, <1>4 DEF Turns, JobsTakeTurns, Moved, Holding, Running, Marked
<1>6. Fits'
  <2>1. JobStops(u)' /\ JobBacksUp(u)' /\ JobWrites(u)'
    BY <1>2 DEF Moved, JobStops, JobBacksUp, JobWrites, Waiting
  <2>2. ASSUME NEW v \in Updates, v # u
        PROVE  JobStops(v)' /\ JobBacksUp(v)' /\ JobWrites(v)'
    BY <1>1, <1>2, <2>2 DEF Fits, Moved, JobStops, JobBacksUp, JobWrites
  <2> QED BY <1>1, <2>1, <2>2 DEF Fits, HostFits
<1>7. \A v \in Updates : job'[v].phase = job[v].phase
  BY <1>2 DEF Moved
<1>8. latest # 0 => latest \in Updates
  BY Types DEF Updates
<1>9. JobsTell'
  <2>1. NoManualBefore' => NoManualBefore
    BY <1>1, <1>7, Constants, Types DEF NoManualBefore, Updates
  <2>2. ASSUME latest # 0, LastTells(job[latest])
        PROVE  LastTells(job[latest])'
    <3>1. CASE u = latest
      BY <1>1, <1>2, <2>2, <3>1 DEF LastTells, Whole, Moved, Waiting, Running
    <3>2. CASE u # latest
      BY <1>1, <1>2, <1>8, <2>2, <3>2 DEF LastTells, Whole, Moved
    <3> QED BY <3>1, <3>2
  <2> QED BY <1>1, <2>1, <2>2 DEF JobsTell, Whole
<1>10. MarkerTells'
  BY <1>1, <1>2, <1>7, <1>8 DEF MarkerTells, Moved, Marked, Holding
<1> QED BY <1>3, <1>5, <1>6, <1>9, <1>10

-----------------------------------------------------------------------------
(* Members, the network and deaths.                                        *)

LEMMA WritesKeep ==
    ASSUME IInv, BeginWrite \/ CommitWrite
    PROVE  IInv'
<1> USE DEF IInv
<1>1. UNCHANGED <<manifest, version, latest, job, network, locked, marker, faults,
                  deaths, files, services>>
  BY DEF BeginWrite, CommitWrite, Updater
<1>2. CASE BeginWrite
  <2>1. services # 0 /\ ~ marker /\ request' = TRUE /\ acknowledged < MaxWrites
        /\ UNCHANGED <<db, acknowledged>>
    BY <1>2 DEF BeginWrite, Open
  <2>2. TypeOK'
    BY <1>1, <2>1 DEF TypeOK
  <2>3. \A u \in Updates : job[u].at \notin {"health", "stop_again"}
    BY <2>1 DEF Turns, JobsTakeTurns, Marked, Holding, Steps
  <2>4. Fits'
    BY <1>1, <2>1, <2>3 DEF Fits, HostFits, JobStops, JobBacksUp, JobWrites
  <2>5. Turns' /\ JobsTell' /\ MarkerTells'
    BY <1>1, <2>1 DEF Turns, JobsTakeTurns, JobsTell, NoManualBefore, LastTells, Whole,
                      MarkerTells
  <2> QED BY <2>2, <2>4, <2>5
<1>3. CASE CommitWrite
  <2>1. request /\ request' = FALSE /\ db' = [db EXCEPT !.writes = @ + 1]
        /\ acknowledged' = acknowledged + 1 /\ db.schema = services
    BY <1>3 DEF CommitWrite
  <2>2. services # 0 /\ db.writes = acknowledged /\ acknowledged < MaxWrites
    BY <2>1 DEF Fits, HostFits
  <2>3. db'.schema = db.schema /\ db'.writes = db.writes + 1
    BY <2>1 DEF TypeOK, Database
  <2>4. db.writes + 1 \in 0 .. MaxWrites /\ acknowledged + 1 \in 0 .. MaxWrites
    BY <2>2, Types, Constants
  <2>5. db' \in Database
    <3>1. db \in Database
      BY DEF TypeOK
    <3> QED BY <2>1, <2>2, <2>4, <3>1 DEF Database
  <2>6. TypeOK'
    BY <1>1, <2>1, <2>4, <2>5 DEF TypeOK
  <2>7. \A u \in Updates :
            job[u].at \notin {"migrate", "compose", "env", "restart", "health",
                             "stop_again", "files_back", "restore"}
    BY <2>1, <2>2 DEF Fits, JobStops
  <2>8. Fits'
    BY <1>1, <2>1, <2>2, <2>3, <2>7 DEF Fits, HostFits, JobStops, JobBacksUp, JobWrites
  <2>9. Turns' /\ JobsTell' /\ MarkerTells'
    BY <1>1, <2>1, <2>3 DEF Turns, JobsTakeTurns, JobsTell, NoManualBefore, LastTells,
                           Whole, MarkerTells
  <2> QED BY <2>6, <2>8, <2>9
<1> QED BY <1>2, <1>3

LEMMA CheckKeeps ==
    ASSUME IInv, NEW r \in Releases, Check(r)
    PROVE  IInv'
<1>1. manifest' = r
      /\ UNCHANGED <<version, latest, job, network, locked, marker, faults, deaths,
                     files, db, services, request, acknowledged>>
  BY DEF Check, Host
<1> QED BY <1>1 DEF IInv, TypeOK, Turns, JobsTakeTurns, Fits, HostFits, JobStops,
                    JobBacksUp, JobWrites, JobsTell, NoManualBefore, LastTells, Whole,
                    MarkerTells

\* Nobody is busy: every job is over.
LEMMA NotBusy ==
    ASSUME IInv, Open, ~ Busy
    PROVE  /\ \A u \in Updates : job[u].at \in {"idle", "unlock"}
           /\ network \notin {"lock", "apply"} /\ services # 0
           /\ latest # 0 => job[latest].phase \in Done
<1> USE DEF IInv
<1>1. network \notin {"lock", "apply"} /\ services # 0 /\ ~ marker
      /\ (latest # 0 => job[latest].phase \in Done)
  BY DEF Open, Busy
<1>2. ASSUME NEW u \in Updates, job[u].at \notin {"idle", "unlock"}
      PROVE  FALSE
  <2>1. u = latest /\ latest # 0
    BY <1>2, OthersRest
  <2>2. job[u].at \notin Marked
    BY <1>1 DEF Turns, JobsTakeTurns
  <2>3. job[u].at \in Running
    BY <1>2, <2>2, Types DEF Running, Marked, Holding
  <2>4. job[u].phase = "RUNNING"
    BY <2>3 DEF Turns, JobsTakeTurns
  <2> QED BY <1>1, <2>1, <2>4 DEF Done
<1> QED BY <1>1, <1>2

LEMMA InstallKeeps ==
    ASSUME IInv, Install
    PROVE  IInv'
<1> USE DEF IInv
<1> DEFINE u == latest + 1
           i == [NoJob EXCEPT !.phase = "RUNNING"]
           k == [i EXCEPT !.at = "launch"]
<1>1. Open /\ ~ Busy /\ latest < MaxUpdates /\ latest' = u
      /\ job' = [job EXCEPT ![u] = k]
      /\ UNCHANGED <<manifest, version, network, locked, marker, faults, deaths, files,
                     db, services, request, acknowledged>>
  BY DEF Install, Host
<1>2. /\ \A v \in Updates : job[v].at \in {"idle", "unlock"}
      /\ network \notin {"lock", "apply"} /\ services # 0 /\ ~ marker
      /\ latest # 0 => job[latest].phase \in Done
  BY <1>1, NotBusy DEF Open
<1>3. latest \in Nat /\ u \in Updates /\ u # 0 /\ latest' \in 0 .. MaxUpdates
  BY <1>1, Types, Constants DEF Updates
<1>4. k \in Job /\ k.at = "launch" /\ k.phase = "RUNNING"
  <2>1. NoJob \in Job
    BY Constants DEF NoJob, Job, Of, Files, Database, Steps
  <2>2. i \in Job
    BY <2>1, FieldWrites
  <2>3. k.at = "launch" /\ k.phase = "RUNNING"
    BY DEF NoJob
  <2>4. k \in Job
    <3> HIDE DEF i
    <3> QED BY <2>2, FieldWrites DEF Steps
  <2> QED BY <2>3, <2>4
<1> HIDE DEF k
<1>5. job \in [Updates -> Job]
  BY DEF TypeOK
<1>6. \A v \in Updates : job'[v] = IF v = u THEN k ELSE job[v]
  BY <1>1, <1>5
<1>7. TypeOK'
  BY <1>1, <1>3, <1>4, <1>5 DEF TypeOK
<1>8. Turns'
  BY <1>1, <1>2, <1>3, <1>4, <1>6
     DEF Turns, JobsTakeTurns, Holding, Running, Marked, Steps
<1>9. Fits'
  BY <1>1, <1>2, <1>4, <1>6 DEF Fits, HostFits, JobStops, JobBacksUp, JobWrites, Waiting
<1>10. MarkerTells'
  BY <1>1, <1>2 DEF MarkerTells
<1>11. JobsTell'
  <2> SUFFICES ASSUME NoManualBefore'
               PROVE  Whole(version)
    BY <1>1, <1>3, <1>4, <1>6 DEF JobsTell, LastTells, Whole, Running, Waiting
  <2>1. \A v \in 1 .. latest : job[v].phase # "NEEDS_MANUAL_RECOVERY"
    <3> TAKE v \in 1 .. latest
    <3>1. latest < MaxUpdates /\ MaxUpdates \in Nat /\ latest \in Nat
      BY <1>1, <1>3, Constants
    <3>2. v \in Updates /\ v # u
      BY <3>1 DEF Updates
    <3>3. latest' - 1 = latest
      BY <1>1, <3>1
    <3> QED BY <1>6, <3>2, <3>3 DEF NoManualBefore
  <2>2. NoManualBefore
    BY <1>3, <2>1 DEF NoManualBefore
  <2>3. CASE latest = 0
    BY <2>2, <2>3 DEF JobsTell
  <2>4. CASE latest # 0
    <3>1. LastTells(job[latest]) /\ job[latest].phase # "NEEDS_MANUAL_RECOVERY"
      BY <1>3, <2>1, <2>2, <2>4 DEF JobsTell
    <3>2. job[latest].phase \in {"SUCCEEDED", "FAILED", "ROLLED_BACK"}
      BY <1>2, <2>4, <3>1 DEF Done
    <3>3. Whole(version) \/ Whole(job[latest].target) \/ Whole(job[latest].files.env)
      BY <3>1, <3>2 DEF LastTells
    <3> QED BY <3>3 DEF Whole
  <2> QED BY <2>3, <2>4
<1> QED BY <1>7, <1>8, <1>9, <1>10, <1>11

LEMMA NetworkKeeps ==
    ASSUME IInv, ApplyNetwork \/ LockNetwork \/ RestartNetwork
    PROVE  IInv'
<1> USE DEF IInv
<1>1. UNCHANGED <<manifest, version, latest, job, marker, files, db, acknowledged,
                  deaths>>
  BY DEF ApplyNetwork, LockNetwork, RestartNetwork, Installation
<1>2. CASE ApplyNetwork
  <2>1. Open /\ ~ Busy /\ network' = "lock" /\ UNCHANGED <<locked, services, request, faults>>
    BY <1>2 DEF ApplyNetwork
  <2>2. services # 0 /\ \A v \in Updates : job[v].at \in {"idle", "unlock"}
    BY <2>1, NotBusy
  <2>3. TypeOK'
    BY <1>1, <2>1 DEF TypeOK
  <2>4. Turns'
    BY <1>1, <2>1, <2>2 DEF Turns, JobsTakeTurns
  <2>5. Fits'
    BY <1>1, <2>1, <2>2 DEF Fits, HostFits, JobStops, JobBacksUp, JobWrites
  <2>6. JobsTell' /\ MarkerTells'
    BY <1>1, <2>1, <2>2 DEF JobsTell, NoManualBefore, LastTells, Whole, MarkerTells
  <2> QED BY <2>3, <2>4, <2>5, <2>6
<1>3. CASE LockNetwork
  <2>1. network = "lock" /\ UNCHANGED <<services, request>>
        /\ \/ ~ locked /\ network' = "apply" /\ locked' = TRUE
           \/ network' = "none" /\ UNCHANGED locked
    BY <1>3 DEF LockNetwork
  <2>2. TypeOK'
    BY <1>1, <1>3, <2>1, Count DEF TypeOK, LockNetwork
  <2>3. Turns'
    BY <1>1, <2>1 DEF Turns, JobsTakeTurns, Holding
  <2>4. Fits'
    BY <1>1, <2>1 DEF Fits, HostFits, JobStops, JobBacksUp, JobWrites
  <2>5. JobsTell' /\ MarkerTells'
    BY <1>1, <2>1 DEF JobsTell, NoManualBefore, LastTells, Whole, MarkerTells
  <2> QED BY <2>2, <2>3, <2>4, <2>5
<1>4. CASE RestartNetwork
  <2>1. network = "apply" /\ request' = FALSE /\ locked' = FALSE
        /\ \/ services' = files.env /\ network' = "none"
           \/ services' \in {0, files.env} /\ network' = "failed"
    BY <1>4 DEF RestartNetwork
  <2>2. services # 0 /\ files.env = services /\ db.schema = services
    BY <2>1 DEF Fits, HostFits
  <2>3. \A u \in Updates : job[u].at \in {"idle", "unlock"} /\ job[u].at \notin Holding
    BY <2>1, Types DEF Turns, JobsTakeTurns, Holding
  <2>4. TypeOK'
    BY <1>1, <1>4, <2>1, <2>2, Count, Types DEF TypeOK, RestartNetwork
  <2>5. Turns'
    BY <1>1, <2>1, <2>3 DEF Turns, JobsTakeTurns
  <2>6. Fits'
    BY <1>1, <2>1, <2>2, <2>3 DEF Fits, HostFits, JobStops, JobBacksUp, JobWrites, Waiting
  <2>7. MarkerTells'
    BY <1>1 DEF MarkerTells
  <2>8. \A r : Whole(r) => Whole(r)'
    BY <1>1, <2>1, <2>2 DEF Whole
  <2>9. JobsTell'
    BY <1>1, <2>8 DEF JobsTell, NoManualBefore, LastTells, Whole
  <2> QED BY <2>4, <2>5, <2>6, <2>7, <2>9
<1> QED BY <1>2, <1>3, <1>4

\* Nothing is continued after a death.
LEMMA DieKeeps ==
    ASSUME IInv, Crash \/ Reboot
    PROVE  IInv'
<1> USE DEF IInv
<1>1. /\ Die /\ deaths' = deaths + 1
      /\ job' = [u \in Updates |-> [job[u] EXCEPT !.at = "idle"]]
      /\ manifest' = 0 /\ locked' = FALSE
      /\ network' = IF network \in {"lock", "apply"} THEN "abandoned" ELSE network
      /\ UNCHANGED <<version, latest, faults, files, db, services, acknowledged>>
      /\ (marker' => marker) /\ (request' => request)
      /\ {marker', request'} \subseteq BOOLEAN
  <2>1. marker \in BOOLEAN /\ request \in BOOLEAN
    BY DEF TypeOK
  <2>2. CASE Crash
    BY <2>1, <2>2 DEF Crash, Die
  <2>3. CASE Reboot
    BY <2>1, <2>3 DEF Reboot, Die
  <2> QED BY <2>2, <2>3
<1>2. ASSUME NEW u \in Updates
      PROVE  /\ job'[u] \in Job /\ job'[u].at = "idle" /\ job'[u].phase = job[u].phase
             /\ job'[u].target = job[u].target /\ job'[u].files = job[u].files
  <2>1. job[u] \in Job
    BY Types
  <2>2. [job[u] EXCEPT !.at = "idle"] \in Job
    BY <2>1, FieldWrites DEF Steps
  <2> QED BY <1>1, <2>1, <2>2 DEF Job
<1>3. TypeOK'
  <2>1. job' \in [Updates -> Job]
    BY <1>1, <1>2
  <2>2. deaths' \in 0 .. MaxDeaths
    BY Constants DEF Die, Crash, Reboot, TypeOK
  <2> QED BY <1>1, <2>1, <2>2 DEF TypeOK
<1>4. Turns'
  BY <1>1, <1>2 DEF Turns, JobsTakeTurns, Holding, Running, Marked
<1>5. Fits'
  <2>1. HostFits'
    BY <1>1 DEF Fits, HostFits
  <2>2. ASSUME NEW u \in Updates
        PROVE  JobStops(u)' /\ JobBacksUp(u)' /\ JobWrites(u)'
    <3>1. job'[u].at = "idle"
      BY <1>2
    <3> QED BY <3>1 DEF JobStops, JobBacksUp, JobWrites, Waiting
  <2> QED BY <2>1, <2>2 DEF Fits
<1>6. MarkerTells'
  <2>1. deaths \in Nat
    BY Constants DEF TypeOK
  <2> QED BY <1>1, <2>1 DEF MarkerTells
<1>7. JobsTell'
  <2>1. \A r : Whole(r) => Whole(r)'
    BY <1>1 DEF Whole
  <2>2. NoManualBefore' => NoManualBefore
    <3>1. \A v \in 1 .. latest - 1 : v \in Updates
      BY Types, Constants DEF Updates
    <3> QED BY <1>1, <1>2, <3>1 DEF NoManualBefore
  <2>3. latest # 0 => latest \in Updates
    BY Types DEF Updates
  <2>4. ASSUME latest # 0, LastTells(job[latest])
        PROVE  LastTells(job[latest])'
    BY <1>1, <1>2, <2>1, <2>3, <2>4 DEF LastTells, Waiting, Running, Whole
  <2> QED BY <1>1, <2>1, <2>2, <2>4 DEF JobsTell, Whole
<1> QED BY <1>3, <1>4, <1>5, <1>6, <1>7

-----------------------------------------------------------------------------
(* The theorems.                                                           *)

LEMMA InitHolds == Init => IInv
<1> SUFFICES ASSUME Init PROVE IInv
  OBVIOUS
<1>1. NoJob \in Job /\ NoJob.at = "idle"
  BY Constants DEF NoJob, Job, Of, Files, Database, Steps
<1>2. \A u \in Updates : job[u] = NoJob
  BY DEF Init
<1>3. files = Of(1) /\ db.schema = 1 /\ db.writes = 0 /\ services = 1 /\ version = 1
      /\ latest = 0 /\ network = "none" /\ ~ marker /\ ~ request /\ acknowledged = 0
  BY DEF Init
<1>4. TypeOK
  <2>1. db \in Database /\ files \in Files
    BY Constants DEF Init, Database, Files, Of
  <2>2. /\ 0 \in 0 .. MaxUpdates /\ 0 \in 0 .. MaxWrites /\ 0 \in 0 .. MaxFaults
        /\ 0 \in 0 .. MaxDeaths /\ 1 \in Releases
    BY Constants
  <2>3. job \in [Updates -> Job]
    BY <1>1 DEF Init
  <2> QED BY <2>1, <2>2, <2>3 DEF Init, TypeOK
<1>5. Turns
  BY <1>1, <1>2, <1>3 DEF Turns, JobsTakeTurns, Running, Holding, Marked
<1>6. Fits
  BY <1>1, <1>2, <1>3
     DEF Fits, HostFits, JobStops, JobBacksUp, JobWrites, Waiting, Of
<1>7. JobsTell /\ MarkerTells
  BY <1>3 DEF JobsTell, MarkerTells, Whole
<1> QED BY <1>4, <1>5, <1>6, <1>7 DEF IInv

LEMMA StepsKeep == IInv /\ [Next]_vars => IInv'
<1> SUFFICES ASSUME IInv, [Next]_vars PROVE IInv'
  OBVIOUS
<1>1. ASSUME NEW u \in Updates, Forward(u) PROVE IInv'
  <2>1. CASE Launch(u) \/ LockDeployment(u) \/ Prepare(u) \/ Maintenance(u)
    BY <2>1, LaunchKeeps, LockKeeps, PrepareKeeps, MaintenanceKeeps
  <2>2. CASE StopClients(u) \/ BackupDatabase(u) \/ Resume(u) \/ Migrate(u)
    BY <2>2, StopKeeps, BackupKeeps, ResumeKeeps, MigrateKeeps
  <2>3. CASE WriteFile(u, "compose", "env") \/ WriteFile(u, "env", "restart")
    BY <2>3, ComposeKeeps, EnvKeeps
  <2>4. CASE Restart(u) \/ Health(u) \/ FinishEntrance(u)
    BY <2>4, RestartKeeps, HealthKeeps, EntranceKeeps
  <2> QED BY <1>1, <2>1, <2>2, <2>3, <2>4 DEF Forward
<1>2. ASSUME NEW u \in Updates, Back(u) PROVE IInv'
  <2>1. CASE StopAgain(u) \/ RestoreFiles(u) \/ RestoreDatabase(u)
    BY <2>1, StopAgainKeeps, RestoreFilesKeeps, RestoreDatabaseKeeps
  <2>2. CASE StartAgain(u) \/ EntranceAgain(u) \/ ClearMaintenance(u) \/ Unlock(u)
    BY <2>2, StartAgainKeeps, EntranceAgainKeeps, ClearKeeps, UnlockKeeps
  <2> QED BY <1>2, <2>1, <2>2 DEF Back
<1>3. CASE BeginWrite \/ CommitWrite
  BY <1>3, WritesKeep
<1>4. CASE Install
  BY <1>4, InstallKeeps
<1>5. ASSUME NEW r \in Releases, Check(r) PROVE IInv'
  BY <1>5, CheckKeeps
<1>6. CASE ApplyNetwork \/ LockNetwork \/ RestartNetwork
  BY <1>6, NetworkKeeps
<1>7. CASE Crash \/ Reboot
  BY <1>7, DieKeeps
<1>8. CASE UNCHANGED vars
  BY <1>8 DEF vars, Host, IInv, TypeOK, Turns, JobsTakeTurns, Fits, HostFits, JobStops,
              JobBacksUp, JobWrites, JobsTell, NoManualBefore, LastTells, Whole,
              MarkerTells
<1> QED BY <1>1, <1>2, <1>3, <1>4, <1>5, <1>6, <1>7, <1>8 DEF Next

LEMMA InvariantHolds == Spec => []IInv
BY InitHolds, StepsKeep, PTL DEF Spec

\* The host's state keeps its types; the phase of a job is one the web knows.
THEOREM TypeCorrect == Spec => []TypeOK
<1>1. IInv => TypeOK
  BY DEF IInv
<1> QED BY <1>1, InvariantHolds, PTL

\* However an installation fails, dies or is taken back, web and worker run
\* on the database of their release only, with every answered write in it.
THEOREM ServicesFit == Spec => []ServicesMatchDatabase
<1>1. IInv => ServicesMatchDatabase
  BY DEF IInv, Fits, HostFits, ServicesMatchDatabase
<1> QED BY <1>1, InvariantHolds, PTL

\* A job that ended names what is installed, and its marker went with it.
THEOREM JobsAreTruthful == Spec => []JobsTellTheTruth
<1>1. IInv => JobsTellTheTruth
  <2> SUFFICES ASSUME IInv, latest # 0 PROVE JobsTellTheTruth
    BY DEF JobsTellTheTruth
  <2>1. ASSUME \A u \in 1 .. latest - 1 : job[u].phase # "NEEDS_MANUAL_RECOVERY",
               network # "failed"
        PROVE  CASE job[latest].phase = "SUCCEEDED" -> Is(job[latest].target)
                 [] job[latest].phase = "ROLLED_BACK" -> Is(job[latest].files.env)
                 [] job[latest].phase = "FAILED" -> Is(version)
                 [] OTHER -> TRUE
    <3>1. LastTells(job[latest])
      BY <2>1 DEF IInv, JobsTell, NoManualBefore
    <3>2. \A r : Whole(r) => Is(r)
      BY <2>1 DEF Whole, Is
    <3> QED BY <3>1, <3>2 DEF LastTells
  <2>2. marker /\ job[latest].at = "idle" /\ deaths = 0 =>
            job[latest].phase = "NEEDS_MANUAL_RECOVERY"
    BY DEF IInv, MarkerTells, Marked, Holding
  <2> QED BY <2>1, <2>2 DEF JobsTellTheTruth
<1> QED BY <1>1, InvariantHolds, PTL
=============================================================================
