------------------------------ MODULE HostUpdate ------------------------------
(***************************************************************************)
(* The host updater: an installation of a release, its protection backup   *)
(* and its way back, against the members who write meanwhile.              *)
(*                                                                         *)
(* Every command of an installation may fail, with part of its effect;     *)
(* the updater may die between two commands, and the host may be           *)
(* rebooted, which empties the directory of the maintenance marker.  The   *)
(* web refuses members' writes while it sees the marker, but only when a   *)
(* request begins.                                                         *)
(*                                                                         *)
(* Downloads, the entrance (Caddy) and the network settings themselves are *)
(* outcomes only.                                                          *)
(***************************************************************************)
EXTENDS Integers

CONSTANTS
    LastRelease,    \* releases are numbered, the first is installed
    MaxUpdates,     \* bounds: installations, members' writes, failures of
    MaxWrites,      \* commands, deaths of the updater
    MaxFaults,
    MaxDeaths

ASSUME ConstantsAssumption ==
    /\ LastRelease \in Nat \ {0}
    /\ {MaxUpdates, MaxWrites, MaxFaults, MaxDeaths} \subseteq Nat

Releases == 1 .. LastRelease

Updates == 1 .. MaxUpdates

VARIABLES
    manifest,       \* the latest release the updater has verified, 0 if none
    version,        \* state.currentVersion
    latest,         \* state.job, the number of the last installation
    job,
    network,        \* state.networkJob
    locked,         \* the deployment lock, held by the installation that runs
    marker,         \* the maintenance marker
    files,          \* the release of the managed files
    db,
    services,       \* the release that web and worker run, 0 if stopped
    request,        \* a member's write is in flight, past the marker
    acknowledged,   \* members' writes that were answered
    faults, deaths

Host == <<files, db, services, request, acknowledged>>

vars == <<manifest, version, latest, job, network, locked, marker, Host,
          faults, deaths>>

Files == [compose: Releases, env: Releases]

Of(r) == [compose |-> r, env |-> r]

\* 0: no database; -1: a migration stopped half-way.
Database == [schema: Releases \cup {0, -1}, writes: 0 .. MaxWrites]

Done == {"SUCCEEDED", "FAILED", "ROLLED_BACK", "NEEDS_MANUAL_RECOVERY"}

Steps == {"idle", "launch", "lock", "prepare", "maintenance", "stop", "backup",
          "resume", "migrate", "compose", "env", "restart", "health",
          "entrance", "stop_again", "files_back", "restore", "start_again",
          "entrance_again", "clear", "unlock"}

\* way: what a failure takes back; outcome: the phase when it succeeds.
Job == [phase: Done \cup {"none", "RUNNING"}, at: Steps,
        target: Releases \cup {0},
        files: Files, backup: Database,
        way: {"none", "database", "installation"},
        outcome: {"FAILED", "ROLLED_BACK"}]

NoJob == [phase |-> "none", at |-> "idle", target |-> 0,
          files |-> Of(1), backup |-> [schema |-> 0, writes |-> 0],
          way |-> "none", outcome |-> "FAILED"]

TypeOK ==
    /\ manifest \in Releases \cup {0} /\ version \in Releases
    /\ latest \in 0 .. MaxUpdates /\ job \in [Updates -> Job]
    /\ network \in {"none", "lock", "apply", "abandoned", "failed"}
    /\ {locked, marker, request} \subseteq BOOLEAN
    /\ files \in Files /\ db \in Database
    /\ services \in Releases \cup {0}
    /\ acknowledged \in 0 .. MaxWrites
    /\ faults \in 0 .. MaxFaults /\ deaths \in 0 .. MaxDeaths

-----------------------------------------------------------------------------
(* Members, and the web in front of the updater.                           *)

\* Where a changing request begins: the web runs and sees no marker.
Open == services # 0 /\ ~ marker

Updater == <<manifest, version, latest, job, network, locked, marker, faults,
             deaths>>

BeginWrite ==
    /\ Open /\ ~ request /\ acknowledged < MaxWrites
    /\ request' = TRUE
    /\ UNCHANGED <<Updater, files, db, services, acknowledged>>

CommitWrite ==
    /\ request /\ db.schema = services
    /\ request' = FALSE
    /\ db' = [db EXCEPT !.writes = @ + 1]
    /\ acknowledged' = acknowledged + 1
    /\ UNCHANGED <<Updater, files, services>>

\* A newer release has been published and is verified.
Check(r) ==
    /\ Open /\ r > manifest
    /\ manifest' = r
    /\ UNCHANGED <<version, latest, job, network, locked, marker, Host,
                   faults, deaths>>

Busy ==
    \/ latest # 0 /\ job[latest].phase \notin Done
    \/ network \in {"lock", "apply", "abandoned"}

\* The request names the release that is verified at this moment.
Install ==
    /\ Open /\ ~ Busy /\ manifest # 0 /\ latest < MaxUpdates
    /\ latest' = latest + 1
    /\ job' = [job EXCEPT ![latest'] = [NoJob EXCEPT !.phase = "RUNNING",
                                                     !.at = "launch"]]
    /\ UNCHANGED <<manifest, version, network, locked, marker, Host, faults,
                   deaths>>

-----------------------------------------------------------------------------
(* One installation, a step per command.                                   *)

At(u, step) == job[u].at = step

Go(u, step) == job' = [job EXCEPT ![u].at = step]

Finish(u, phase, step) ==
    job' = [job EXCEPT ![u].phase = phase, ![u].at = step]

\* Mutant: the phase is written as the error code.
ManualCode(u) == Finish(u, "MANUAL_RECOVERY_REQUIRED", "unlock")

\* The marker stays.
Manual(u) == Finish(u, "NEEDS_MANUAL_RECOVERY", "unlock")

\* What a failure takes back, in which phase the job then ends, and where
\* the way back begins.
Undo(u, way, outcome, step) ==
    job' = [job EXCEPT ![u].way = way, ![u].outcome = outcome, ![u].at = step]

Fault == faults < MaxFaults /\ faults' = faults + 1

Works == UNCHANGED faults

\* The containers run release r; those that did not change stay.
Run(r) == services' = r /\ request' = (request /\ r = services)

Context == <<manifest, latest, network, deaths, acknowledged>>

\* A goroutine is started with the manifest of that moment: the state is no
\* longer locked, and a check may have verified another one.
Launch(u) ==
    /\ At(u, "launch")
    /\ job' = [job EXCEPT ![u].target = manifest, ![u].at = "lock"]
    /\ UNCHANGED <<Context, version, locked, marker, files, db, services,
                   request, faults>>

LockDeployment(u) ==
    /\ At(u, "lock")
    /\ \/ ~ locked /\ locked' = TRUE /\ Go(u, "prepare") /\ Works
       \/ Fault /\ Finish(u, "FAILED", "idle") /\ UNCHANGED locked
    /\ UNCHANGED <<Context, version, marker, files, db, services, request>>

\* Preflight, downloads, and the snapshot of the managed files.
Prepare(u) ==
    /\ At(u, "prepare")
    /\ \/ /\ job[u].target > version /\ Works
          /\ job' = [job EXCEPT ![u].files = files, ![u].at = "maintenance"]
       \/ job[u].target <= version /\ Works /\ Finish(u, "FAILED", "unlock")
       \/ Fault /\ Finish(u, "FAILED", "unlock")
    /\ UNCHANGED <<Context, version, locked, marker, files, db, services,
                   request>>

\* Mutant: the marker is not written.
MaintenanceUnmarked(u) ==
    /\ At(u, "maintenance") /\ Go(u, "stop") /\ Works
    /\ UNCHANGED <<Context, version, locked, marker, files, db, services,
                   request>>

Maintenance(u) ==
    /\ At(u, "maintenance")
    /\ \/ marker' = TRUE /\ Go(u, "stop") /\ Works
       \/ Fault /\ Finish(u, "FAILED", "unlock") /\ UNCHANGED marker
    /\ UNCHANGED <<Context, version, locked, files, db, services, request>>

\* The commands of the host that follow change neither version nor lock.
Command == <<Context, version, locked, marker>>

StopClients(u) ==
    /\ At(u, "stop")
    /\ \/ Run(0) /\ Go(u, "backup") /\ Works
       \/ Fault /\ (\E r \in {0, services} : Run(r)) /\ Go(u, "resume")
    /\ UNCHANGED <<Command, files, db>>

BackupDatabase(u) ==
    /\ At(u, "backup")
    /\ \/ Works /\ job' = [job EXCEPT ![u].backup = db, ![u].at = "migrate"]
       \/ Fault /\ Go(u, "resume")
    /\ UNCHANGED <<Command, files, db, services, request>>

\* up, of the release the files name, and the wait for its health.
Up(u, step, ok) ==
    /\ At(u, step)
    /\ \/ Run(files.env) /\ ok /\ Works
       \/ Fault /\ (\E r \in {services, files.env} : Run(r)) /\ Manual(u)
    /\ UNCHANGED <<Command, files, db>>

Resume(u) == Up(u, "resume", Finish(u, "FAILED", "clear"))

\* The migrations, and the bootstrap of the new release.
Migrate(u) ==
    /\ At(u, "migrate")
    /\ \/ db' = [db EXCEPT !.schema = job[u].target] /\ Go(u, "compose") /\ Works
       \/ /\ Fault /\ Undo(u, "database", "ROLLED_BACK", "stop_again")
          /\ \E s \in {db.schema, -1, job[u].target} :
                 db' = [db EXCEPT !.schema = s]
    /\ UNCHANGED <<Command, files, services, request>>

\* Two of the four files stand for all: Compose first, the environment last.
WriteFile(u, file, next) ==
    /\ At(u, file)
    /\ \/ /\ files' = [files EXCEPT ![file] = job[u].target]
          /\ Go(u, next) /\ Works
       \/ /\ Fault /\ UNCHANGED files
          /\ Undo(u, "installation", "ROLLED_BACK", "files_back")
    /\ UNCHANGED <<Command, db, services, request>>

\* Mutant: only the database is taken back.
RestartBack(u) == Undo(u, "database", "FAILED", "stop_again")

\* A failed restart that is taken back ends as FAILED, a failed health check
\* as ROLLED_BACK.
RestartUndo(u) == Undo(u, "installation", "FAILED", "stop_again")

Restart(u) ==
    /\ At(u, "restart")
    /\ \/ Run(files.env) /\ Go(u, "health") /\ Works
       \/ Fault /\ (\E r \in {services, files.env} : Run(r)) /\ RestartUndo(u)
    /\ UNCHANGED <<Command, files, db>>

Health(u) ==
    /\ At(u, "health")
    /\ \/ Go(u, "entrance") /\ Works
       \/ Fault /\ Undo(u, "installation", "ROLLED_BACK", "stop_again")
    /\ UNCHANGED <<Command, files, db, services, request>>

\* An entrance that fails leaves the new release in place.
FinishEntrance(u) ==
    /\ At(u, "entrance")
    /\ version' = job[u].target
    /\ \/ Finish(u, "SUCCEEDED", "clear") /\ Works
       \/ Fault /\ Finish(u, "FAILED", "clear")
    /\ UNCHANGED <<Context, locked, marker, files, db, services, request>>

-----------------------------------------------------------------------------
(* The way back.                                                           *)

StopAgain(u) ==
    /\ At(u, "stop_again")
    /\ \/ /\ Run(0) /\ Works
          /\ Go(u, IF job[u].way = "database" THEN "restore" ELSE "files_back")
       \/ Fault /\ (\E r \in {0, services} : Run(r)) /\ Manual(u)
    /\ UNCHANGED <<Command, files, db>>

RestoreFiles(u) ==
    /\ At(u, "files_back")
    /\ \/ files' = job[u].files /\ Go(u, "restore") /\ Works
       \/ /\ Fault /\ Manual(u)
          /\ files' \in {files, [files EXCEPT !.compose = job[u].files.compose]}
    /\ UNCHANGED <<Command, db, services, request>>

\* The database is dropped, then created from the backup.
RestoreDatabase(u) ==
    /\ At(u, "restore")
    /\ \/ db' = job[u].backup /\ Go(u, "start_again") /\ Works
       \/ /\ Fault /\ Manual(u)
          /\ \E s \in {db.schema, 0, -1} : db' = [db EXCEPT !.schema = s]
    /\ UNCHANGED <<Command, files, services, request>>

StartAgain(u) ==
    Up(u, "start_again", IF job[u].way = "database"
                         THEN Finish(u, job[u].outcome, "clear")
                         ELSE Go(u, "entrance_again"))

EntranceAgain(u) ==
    /\ At(u, "entrance_again")
    /\ \/ Finish(u, job[u].outcome, "clear") /\ Works
       \/ Fault /\ Manual(u)
    /\ UNCHANGED <<Command, files, db, services, request>>

\* The job has ended; what its functions deferred comes after.
ClearMaintenance(u) ==
    /\ At(u, "clear")
    /\ marker' = FALSE /\ Go(u, "unlock")
    /\ UNCHANGED <<Context, version, locked, files, db, services, request,
                   faults>>

Unlock(u) ==
    /\ At(u, "unlock")
    /\ locked' = FALSE /\ Go(u, "idle")
    /\ UNCHANGED <<Context, version, marker, files, db, services, request,
                   faults>>

-----------------------------------------------------------------------------
(* The network job, as far as it touches the services.                     *)

Installation == <<manifest, version, latest, job, marker, files, db,
                  acknowledged, deaths>>

ApplyNetwork ==
    /\ Open /\ ~ Busy
    /\ network' = "lock"
    /\ UNCHANGED <<Installation, locked, services, request, faults>>

LockNetwork ==
    /\ network = "lock"
    /\ \/ ~ locked /\ network' = "apply" /\ locked' = TRUE /\ Works
       \/ Fault /\ network' = "none" /\ UNCHANGED locked
    /\ UNCHANGED <<Installation, services, request>>

\* The containers are made anew; a failure takes the settings back, and may
\* leave them stopped.
RestartNetwork ==
    /\ network = "apply"
    /\ \/ services' = files.env /\ network' = "none" /\ Works
       \/ Fault /\ services' \in {0, files.env} /\ network' = "failed"
    /\ request' = FALSE /\ locked' = FALSE
    /\ UNCHANGED Installation

-----------------------------------------------------------------------------
(* The updater dies, alone or with the host.                               *)

\* The state is read back: an unfinished job, of either kind, is never
\* continued.
Die ==
    /\ deaths < MaxDeaths /\ deaths' = deaths + 1
    /\ job' = [u \in Updates |-> [job[u] EXCEPT !.at = "idle"]]
    /\ manifest' = 0 /\ locked' = FALSE
    /\ network' = IF network \in {"lock", "apply"} THEN "abandoned" ELSE network
    /\ UNCHANGED <<version, latest, faults, files, db, services, acknowledged>>

Crash == Die /\ UNCHANGED <<marker, request>>

\* The containers that ran are started again.
Reboot == Die /\ marker' = FALSE /\ request' = FALSE

-----------------------------------------------------------------------------
Init ==
    /\ manifest = 0 /\ version = 1
    /\ latest = 0 /\ job = [u \in Updates |-> NoJob]
    /\ network = "none" /\ locked = FALSE /\ marker = FALSE
    /\ files = Of(1) /\ db = [schema |-> 1, writes |-> 0] /\ services = 1
    /\ request = FALSE /\ acknowledged = 0
    /\ faults = 0 /\ deaths = 0

Forward(u) ==
    \/ Launch(u) \/ LockDeployment(u) \/ Prepare(u) \/ Maintenance(u)
    \/ StopClients(u) \/ BackupDatabase(u) \/ Resume(u) \/ Migrate(u)
    \/ WriteFile(u, "compose", "env") \/ WriteFile(u, "env", "restart")
    \/ Restart(u) \/ Health(u) \/ FinishEntrance(u)

Back(u) ==
    \/ StopAgain(u) \/ RestoreFiles(u) \/ RestoreDatabase(u) \/ StartAgain(u)
    \/ EntranceAgain(u) \/ ClearMaintenance(u) \/ Unlock(u)

Next ==
    \/ BeginWrite \/ CommitWrite \/ Install
    \/ \E r \in Releases : Check(r)
    \/ \E u \in Updates : Forward(u) \/ Back(u)
    \/ ApplyNetwork \/ LockNetwork \/ RestartNetwork
    \/ Crash \/ Reboot

Spec == Init /\ [][Next]_vars

-----------------------------------------------------------------------------
(* Properties.                                                             *)

\* Web and worker never run on the database of another release, and when
\* members can write, every write that was answered is in the database: no
\* way back, however it fails, loses one behind the members' backs.
ServicesMatchDatabase ==
    services # 0 =>
        /\ db.schema = services
        /\ ~ marker => db.writes = acknowledged

\* The host is entirely of one release.
Is(r) == files = Of(r) /\ db.schema = r /\ services = r /\ version = r

\* An installation that ended says what is installed: the new release, the
\* one before, or the version recorded after a failure.  An earlier job left
\* to manual recovery, or a network job that failed, is exempt.  The marker
\* of a job does not outlive it, unless it needs manual recovery or the
\* updater died: it ends a job before it removes the marker.
JobsTellTheTruth ==
    latest # 0 =>
        LET j == job[latest]
        IN  /\ /\ \A u \in 1 .. latest - 1 :
                      job[u].phase # "NEEDS_MANUAL_RECOVERY"
               /\ network # "failed"
               => CASE j.phase = "SUCCEEDED" -> Is(j.target)
                    [] j.phase = "ROLLED_BACK" -> Is(j.files.env)
                    [] j.phase = "FAILED" -> Is(version)
                    [] OTHER -> TRUE
            /\ marker /\ j.at = "idle" /\ deaths = 0
               => j.phase = "NEEDS_MANUAL_RECOVERY"
=============================================================================
