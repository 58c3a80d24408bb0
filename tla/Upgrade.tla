------------------------------ MODULE Upgrade ------------------------------
(***************************************************************************)
(* How a bot replaces its own binary (src/updater.rs, src/main.rs and the  *)
(* CMD_UPGRADE_* handlers of src/hub_client.rs): the run a hub drives with *)
(* PREPARE, COMMIT and ABORT, and the `update` command of a bot without    *)
(* hubs.  The state is the files that decide what runs next, the bot's     *)
(* process, the upgrade script that takes its place and the watchdogs      *)
(* scripts leave behind.                                                   *)
(*                                                                         *)
(* The machine may stop between any two file operations.  Downloads,       *)
(* signatures and hashes are outcomes.  A rename with which the bot itself *)
(* takes back a rename it has just made is taken to succeed; those of the  *)
(* scripts may fail.  The hub, the admin who starts a bot again and the    *)
(* other variant's program are external.                                   *)
(***************************************************************************)
EXTENDS Naturals, FiniteSets

CONSTANTS
    Ver,       \* versions, in their order
    Variant,   \* builds of one version: "c", "rust"
    Run,       \* ids of hub-driven runs
    MaxWatch,  \* bound: watchdogs asleep at a time
    None       \* no file, run, plan, script

Build == [ver : Ver, var : Variant]
Corrupt == 0    \* a config file cut short

\* What marker, step, script, plan, report and run hold when they are not None.
Markers == [run : Run, build : Build]
HubSteps == [at : {"snapshot", "retain", "stage", "exec", "rollback"}, run : Run, build : Build]
Steps == HubSteps \cup [at : {"update"}, build : Build]
Scripts == [at : {"unpack", "install", "remove"}, by : {"hub", "update"}, build : Build]
Awakes == [at : {"restore", "config"}, old : Build \cup {None}]
Plans == [ver : Ver, run : Run, var : Variant, fresh : BOOLEAN]
Reports == [run : Run, back : BOOLEAN, due : BOOLEAN]
Swaps == [from : Build, to : Build]

ASSUME UpgradeAssumption ==
    /\ Ver \subseteq Nat \ {0} /\ MaxWatch \in Nat \ {0}
    /\ None \notin Run \cup Nat \cup Build \cup Markers \cup Steps \cup Scripts \cup Plans
                  \cup Reports \cup Swaps \cup Awakes

VARIABLES
    exe, prev, backup,  \* <exe>, <exe>.prev, <exe>.backup: a build or None
    cfg, cfgPrev,       \* <config>, <config>.prev: the version that wrote it, Corrupt or None
    marker,             \* the hand-off marker: run and wanted build
    proc,               \* the bot's process: down, starting or running a build
    step,               \* where in an upgrade handler the process is, or None
    script,             \* the upgrade script that replaced the process, or None
    watching,           \* scripts asleep until they look whether the build stayed up
    older,              \* those of them, the first to wake, that wait for an earlier build
    awake,              \* a script that puts the retained files back, or None
    hubs, linked,       \* hubs configured; hub link authenticated
    plan,               \* state.upgrade_id, _target, _variant, _prepared
    installed,          \* state.upgrade_installed_id
    report,             \* state.upgrade_report
    run,                \* history: the builds each run was to replace and to install
    owed,               \* history: runs that replaced the process and whose result is not there
    lost,               \* history: those whose result went with its process or its link
    stranded,           \* history: a step that is known to leave no binary was taken
    cfgLost,            \* history: a retained file was lost, stale, not put back or not its own
    mixed               \* history: runs after which a binary was put in place without the hub

files == <<exe, prev, backup, cfg, cfgPrev, marker>>
watch == <<watching, older, awake>>
results == <<owed, lost>>
history == <<run, results, stranded, cfgLost, mixed>>
volatile == <<plan, installed, report>>
vars == <<files, proc, step, script, watch, hubs, linked, volatile, history>>

Down == [st |-> "down", build |-> None]
Starting(b) == [st |-> "starting", build |-> b]
Running == proc.st = "running"

---------------------------------------------------------------------------
Init == /\ exe \in {b \in Build : \A v \in Ver : b.ver <= v}
        /\ prev = None /\ backup = None /\ cfg = exe.ver /\ cfgPrev = None /\ marker = None
        /\ proc = Starting(exe) /\ step = None /\ script = None
        /\ watching = 0 /\ older = 0 /\ awake = None
        /\ hubs \in BOOLEAN /\ linked = FALSE
        /\ plan = None /\ installed = None /\ report = None
        /\ run = [r \in Run |-> None] /\ owed = {} /\ lost = {} /\ stranded = "no"
        /\ cfgLost = FALSE /\ mixed = {}

\* What a process knows goes with it, a held result too.
Forget == /\ plan' = None /\ installed' = None /\ report' = None /\ linked' = FALSE
Unheard == IF report = None THEN lost ELSE lost \cup ({report.run} \cap owed)

\* main, run: configuration loaded, PID file locked; or the build does not
\* come up here.
ComeUp == /\ proc.st = "starting"
          /\ \/ cfg # Corrupt /\ proc' = [proc EXCEPT !.st = "running"]
             \/ proc' = Down
          /\ UNCHANGED <<files, step, script, watch, hubs, linked, volatile, history>>

\* A start by hand: nothing runs, and there is a binary to run.  Without one
\* the admin first puts the newest retained one back, or with none of those
\* installs one that can read the config; a config that was cut short is made
\* anew (-setup).
UseBackup == exe = None /\ backup # None /\ (prev # None => backup.ver >= prev.ver)
Nothing == exe = None /\ prev = None /\ backup = None
AdminStart ==
    /\ proc = Down /\ script = None /\ watching = 0 /\ awake = None
    /\ exe' \in IF exe # None THEN {exe} ELSE IF UseBackup THEN {backup}
                ELSE IF prev # None THEN {prev} ELSE {b \in Build : b.ver >= cfg}
    /\ prev' = IF exe = None /\ ~UseBackup THEN None ELSE prev
    /\ backup' = IF UseBackup THEN None ELSE backup
    /\ proc' = Starting(exe')
    /\ cfg' = IF cfg = Corrupt THEN exe'.ver ELSE cfg
    /\ stranded' = "no"
    /\ mixed' = IF UseBackup \/ Nothing THEN Run ELSE mixed
    /\ UNCHANGED <<cfgPrev, marker, step, script, watch, hubs, linked, volatile,
                   run, results, cfgLost>>

\* The machine stops.  A config that was being copied may be cut short.
Crash == /\ proc # Down \/ script # None \/ watching > 0 \/ awake # None
         /\ proc' = Down /\ step' = None /\ script' = None
         /\ watching' = 0 /\ older' = 0 /\ awake' = None
         /\ Forget /\ owed' = owed /\ lost' = Unheard
         /\ stranded' = IF exe = None /\ stranded = "no" THEN "retained" ELSE stranded
         /\ cfgLost' = (cfgLost \/ awake # None)
         /\ cfg' = cfg \/ (awake # None /\ awake.at = "config" /\ cfg' = Corrupt)
         /\ UNCHANGED <<exe, prev, backup, cfgPrev, marker, hubs, run, mixed>>

\* die, a signal or a fault ends the process only.
Exit == /\ Running /\ step = None
        /\ proc' = Down /\ Forget /\ owed' = owed /\ lost' = Unheard
        /\ UNCHANGED <<files, step, script, watch, hubs, run, stranded, cfgLost, mixed>>

\* +hub and -hub of the last hub; the link comes and goes.
SetHubs == /\ Running /\ step = None
           /\ hubs' = ~hubs /\ linked' = FALSE
           /\ UNCHANGED <<files, proc, step, script, watch, volatile, history>>

Unlink == /\ linked /\ step = None /\ linked' = FALSE
          /\ UNCHANGED <<files, proc, step, script, watch, hubs, volatile, history>>

\* config::write of the running build.
ConfigWrite == /\ Running /\ step = None /\ cfg' = proc.build.ver
               /\ UNCHANGED <<exe, prev, backup, cfgPrev, marker, proc, step, script, watch,
                              hubs, linked, volatile, history>>

---------------------------------------------------------------------------
\* Answers to the hub.

\* send_upgrade_result: "skip" and "fail" say that this COMMIT changed
\* nothing, any other status is what became of the run.  It is sent once: a
\* frame that cannot be written, or dies with the link, is lost.
send_upgrade_result(r, status) ==
    LET told == IF status \in {"skip", "fail"} THEN {} ELSE {r}
    IN  \/ owed' = owed \ told /\ lost' = lost \ told
        \/ owed' = owed /\ lost' = lost \cup (told \cap owed)

\* Mutant: the marker is believed.
IsTargetBelieved(b) == TRUE

IsTarget(b) == proc.build = b

\* The marker is consumed whatever it says.
take_pending_upgrade == marker' = None

\* handle_ack to report_upgrade_result: the first authenticated link consumes
\* the marker.  A build other than the wanted one is reported at once, the
\* right one is held until the bot is back in its channels.
report_upgrade_result ==
    /\ Running /\ step = None /\ hubs /\ ~linked
    /\ linked' = TRUE
    /\ IF report # None \/ marker = None
       THEN UNCHANGED <<marker, installed, report, results>>
       ELSE /\ take_pending_upgrade
            /\ installed' = marker.run
            /\ IF IsTarget(marker.build)
               THEN /\ report' = [run |-> marker.run, back |-> FALSE, due |-> FALSE]
                    /\ UNCHANGED results
               ELSE /\ send_upgrade_result(marker.run, "version-mismatch")
                    /\ UNCHANGED report
    /\ UNCHANGED <<exe, prev, backup, cfg, cfgPrev, proc, step, script, watch, hubs, plan,
                   run, stranded, cfgLost, mixed>>

\* The bot gets back, or loses, IRC and its ops; UPGRADE_OPS_WAIT passes.
Back == /\ report # None
        /\ report' \in {[report EXCEPT !.back = ~@], [report EXCEPT !.due = TRUE]}
        /\ UNCHANGED <<files, proc, step, script, watch, hubs, linked, plan, installed,
                       history>>

\* upgrade_ready_tick: the held "ok".
upgrade_ready_tick ==
    /\ Running /\ step = None /\ linked /\ report # None
    /\ report.back \/ report.due
    /\ send_upgrade_result(report.run, "ok")
    /\ report' = None
    /\ UNCHANGED <<files, proc, step, script, watch, hubs, linked, plan, installed,
                   run, stranded, cfgLost, mixed>>

---------------------------------------------------------------------------
\* PREPARE.

\* hub_local_check: never an older version, never the build that is running;
\* min is the oldest version the target may be installed over.
hub_local_check(b, min) == /\ b.ver >= proc.build.ver /\ b # proc.build
                           /\ min <= proc.build.ver

\* fetch_verified_manifest and manifest_select: there is a signed manifest
\* with an artifact this host can use, or not.
Fetched == BOOLEAN

\* "" in a frame stands for the running build's variant.
Wanted(v, var) == [ver |-> v, var |-> IF var = "" THEN proc.build.var ELSE var]

\* handle_upgrade_prepare with hub_prepare_check: a plan is only remembered
\* when the bot is ready.  READY is answered either way.
handle_upgrade_prepare(r, v, var, min) ==
    /\ Running /\ step = None /\ linked
    /\ \E fetched \in Fetched :
          plan' = IF hub_local_check(Wanted(v, var), min) /\ fetched
                  THEN [ver |-> v, run |-> r, var |-> Wanted(v, var).var, fresh |-> TRUE]
                  ELSE plan
    /\ UNCHANGED <<files, proc, step, script, watch, hubs, linked, installed, report,
                   history>>

\* UPGRADE_PREPARE_TTL passes.
PlanExpires == /\ plan # None /\ plan.fresh
               /\ plan' = [plan EXCEPT !.fresh = FALSE]
               /\ UNCHANGED <<files, proc, step, script, watch, hubs, linked, installed,
                              report, history>>

---------------------------------------------------------------------------
\* COMMIT.

Refuse(r, status) == /\ send_upgrade_result(r, status)
                     /\ UNCHANGED <<exe, prev, backup, cfg, marker, proc, script, watch, hubs,
                                    linked, installed, report, run, stranded, mixed>>

PlanFor(r) == plan # None => plan.run = r

\* handle_upgrade_commit, answered without an attempt: the frame names no
\* plan, another version or a plan too old.
CommitSkip(r, v, var) ==
    /\ Running /\ step = None /\ linked
    /\ \/ /\ plan = None \/ ~PlanFor(r)
          /\ Refuse(r, IF IsTarget(Wanted(v, var)) THEN "ok" ELSE "skip")
          /\ UNCHANGED plan
       \/ /\ plan # None /\ PlanFor(r) /\ plan.ver # v
          /\ Refuse(r, "skip") /\ UNCHANGED plan
       \/ /\ plan # None /\ PlanFor(r) /\ plan.ver = v /\ ~plan.fresh
          /\ Refuse(r, "skip") /\ plan' = None
    /\ UNCHANGED <<step, cfgPrev, cfgLost>>

\* The build hub_commit is asked for.
CommitBuild(v, var) == [ver |-> v, var |-> IF var = "" THEN plan.var ELSE var]
CommitTaken(r, v) == /\ Running /\ step = None /\ linked
                     /\ plan # None /\ PlanFor(r) /\ plan.ver = v /\ plan.fresh

\* Why hub_commit refuses before it touches anything: fetch and download,
\* the row of the manifest, the hash, the new build's own -selftest.
FetchErrors == {"fetch", "signature INVALID"}
ManifestErrors == {"no usable row", "untrusted artifact URL", "is not a ircbot release"}
SelftestErrors == {"selftest"}
CommitErrors == FetchErrors \cup ManifestErrors \cup {"SHA-256 mismatch"} \cup SelftestErrors

\* The release is bad for every node, so the run must stop.
commit_err_is_integrity(e) == e \in {"SHA-256 mismatch", "signature INVALID",
                                     "is not a ircbot release", "untrusted artifact URL"}

\* Answered "skip", or "fail" for a bad release, and the plan is dropped.
CommitRefused(r, v, var) ==
    /\ CommitTaken(r, v)
    /\ IF hub_local_check(CommitBuild(v, var), 0)
       THEN \E e \in CommitErrors :
               Refuse(r, IF commit_err_is_integrity(e) THEN "fail" ELSE "skip")
       ELSE Refuse(r, "skip")
    /\ plan' = None
    /\ UNCHANGED <<step, cfgPrev, cfgLost>>

\* hub_commit up to the first change: the archive is there and verified, the
\* config is written.
CommitFetched(r, v, var) ==
    /\ CommitTaken(r, v) /\ hub_local_check(CommitBuild(v, var), 0) /\ watching < MaxWatch
    /\ cfg' = proc.build.ver
    /\ step' = [at |-> "snapshot", run |-> r, build |-> CommitBuild(v, var)]
    /\ UNCHANGED <<exe, prev, backup, cfgPrev, marker, proc, script, watch, hubs, linked,
                   volatile, history>>

At(p) == step # None /\ step.at = p
Goto(p) == step' = [step EXCEPT !.at = p]
GiveUp == step' = None /\ plan' = None

\* The config is copied to <config>.prev.  A copy that fails may already have
\* cut an older one short.
Snapshot ==
    /\ At("snapshot")
    /\ \/ /\ cfgPrev' = cfg /\ Goto("retain")
          /\ UNCHANGED <<exe, prev, backup, cfg, marker, proc, script, watch, hubs, linked,
                         volatile, history>>
       \/ /\ cfgPrev' \in {cfgPrev, Corrupt}
          /\ cfgLost' = (cfgLost \/ prev # None)
          /\ GiveUp /\ Refuse(step.run, "skip")

\* The binary is renamed to <exe>.prev, over one an earlier run retained.
Retain ==
    /\ At("retain")
    /\ \/ /\ exe # None /\ prev' = exe /\ exe' = None /\ Goto("stage")
          /\ UNCHANGED <<backup, cfg, cfgPrev, marker, proc, script, watch, hubs, linked,
                         volatile, history>>
       \/ /\ cfgPrev' = None
          /\ cfgLost' = (cfgLost \/ prev # None)
          /\ GiveUp /\ Refuse(step.run, "skip")

\* Mutant: a script that cannot be written leaves the binary renamed.
StageLeft ==
    /\ At("stage")
    /\ \/ /\ marker' = [run |-> step.run, build |-> step.build]
          /\ run' = [run EXCEPT ![step.run] = [from |-> prev, to |-> step.build]]
          /\ Goto("exec")
          /\ UNCHANGED <<exe, prev, cfgPrev, plan, results>>
       \/ /\ marker' = None /\ cfgPrev' = None /\ UNCHANGED <<exe, prev>>
          /\ GiveUp /\ send_upgrade_result(step.run, "skip") /\ UNCHANGED run
    /\ UNCHANGED <<backup, cfg, proc, script, watch, hubs, linked, installed, report,
                   stranded, cfgLost, mixed>>

\* marker_write and upgrade.sh; if either cannot be written everything is put
\* back.
Stage ==
    /\ At("stage")
    /\ \/ /\ marker' = [run |-> step.run, build |-> step.build]
          /\ run' = [run EXCEPT ![step.run] = [from |-> prev, to |-> step.build]]
          /\ Goto("exec")
          /\ UNCHANGED <<exe, prev, cfgPrev, plan, results>>
       \/ /\ marker' = None /\ exe' = prev /\ prev' = None /\ cfgPrev' = None
          /\ GiveUp /\ send_upgrade_result(step.run, "skip") /\ UNCHANGED run
    /\ UNCHANGED <<backup, cfg, proc, script, watch, hubs, linked, installed, report,
                   stranded, cfgLost, mixed>>

\* QUIT, the links are closed and the script takes the process's place; if it
\* cannot, the binary is put back and the process ends.
ExecScript ==
    /\ At("exec")
    /\ proc' = Down /\ step' = None /\ Forget
    /\ \/ /\ script' = [at |-> "unpack", by |-> "hub", build |-> step.build]
          /\ owed' = owed \cup {step.run} /\ lost' = Unheard \ {step.run}
          /\ mixed' = mixed \ {step.run}
          /\ UNCHANGED <<exe, prev, marker>>
       \/ /\ exe' = prev /\ prev' = None /\ marker' = None
          /\ owed' = owed /\ lost' = Unheard /\ UNCHANGED <<script, mixed>>
    /\ UNCHANGED <<backup, cfg, cfgPrev, watch, hubs, run, stranded, cfgLost>>

---------------------------------------------------------------------------
\* hub_upgrade_script.

ScriptAt(by, p) == script # None /\ script.by = by /\ script.at = p
ScriptKeeps == UNCHANGED <<cfg, cfgPrev, marker, step, hubs, linked, volatile,
                           run, results, cfgLost, mixed>>

\* mkdir fails and the script exits: <exe> is gone.
ScriptNoDir == /\ script # None /\ script.at = "unpack"
               /\ script' = None /\ stranded' = IF exe = None THEN "retained" ELSE stranded
               /\ UNCHANGED <<exe, prev, backup, proc, watch>> /\ ScriptKeeps

ScriptUnpack == /\ script # None /\ script.at = "unpack"
                /\ script' = [script EXCEPT !.at = "install"]
                /\ UNCHANGED <<exe, prev, backup, proc, watch, stranded>> /\ ScriptKeeps

\* Mutant: the rollback takes the marker with it.
RollbackForgets == /\ script # None /\ script.by = "hub" /\ script' = None
                   /\ exe' = prev /\ prev' = None /\ proc' = Starting(exe') /\ marker' = None
                   /\ UNCHANGED <<backup, cfg, cfgPrev, step, watch, hubs, linked, volatile,
                                  history>>

\* rollback: unpacking, building, the selftest or the install failed.  The
\* old build comes back, unless it cannot be moved; the marker stays for it to
\* report.
ScriptRollback == /\ script # None /\ script.by = "hub" /\ script' = None
                  /\ \/ /\ exe' = prev /\ prev' = None /\ proc' = Starting(exe')
                        /\ UNCHANGED stranded
                     \/ stranded' = "retained" /\ UNCHANGED <<exe, prev, proc>>
                  /\ UNCHANGED <<backup, watch>> /\ ScriptKeeps

\* The new binary is moved into place and started; the script sleeps.
ScriptInstall == /\ ScriptAt("hub", "install") /\ script' = None
                 /\ exe' = script.build /\ proc' = Starting(exe')
                 /\ watching' = watching + 1 /\ older' = watching
                 /\ UNCHANGED <<prev, backup, awake, stranded>> /\ ScriptKeeps

\* UPGRADE_WATCH_SECS later the script looks: if the build did not stay up and
\* there is a retained binary, the one in place is moved away, or is not.  A
\* build comes up, or dies, before its own watchdog looks; that of an earlier
\* build may look while this one starts, and then takes what is not its own.
WatchLook ==
    /\ watching > 0 /\ (proc.st # "starting" \/ older > 0)
    /\ watching' = watching - 1 /\ older' = IF older > 0 THEN older - 1 ELSE 0
    /\ IF Running \/ script # None \/ prev = None
       THEN UNCHANGED <<exe, awake, cfgLost>>
       ELSE /\ exe' \in {None, exe} /\ awake' = [at |-> "restore", old |-> exe]
            /\ cfgLost' = (cfgLost \/ proc # Down)
    /\ UNCHANGED <<prev, backup, cfg, cfgPrev, marker, proc, step, script, hubs, linked, volatile,
                   run, results, stranded, mixed>>

\* The retained binary goes into place; if it cannot, the one that was moved
\* goes back, or stays away too.  (An <exe>.failed of an earlier upgrade is
\* left out.)
WatchRestore ==
    /\ awake # None /\ awake.at = "restore"
    /\ \/ /\ exe' = prev /\ prev' = None /\ awake' = [awake EXCEPT !.at = "config"]
          /\ UNCHANGED <<stranded, cfgLost>>
       \/ /\ exe' \in {exe, awake.old} /\ awake' = None
          /\ IF exe' = None THEN stranded' = "retained" /\ cfgLost' = TRUE
             ELSE UNCHANGED <<stranded, cfgLost>>
          /\ UNCHANGED prev
    /\ UNCHANGED <<backup, cfg, cfgPrev, marker, proc, step, script, watching, older, hubs, linked,
                   volatile, run, results, mixed>>

AwakeKeeps == UNCHANGED <<exe, prev, backup, cfgPrev, marker, step, script, watching, older, hubs,
                          linked, volatile, run, results, stranded, mixed>>
Awaken == proc' \in {Starting(exe), IF proc = Down THEN Starting(exe) ELSE proc}

\* Mutant: the watchdog keeps the config of the build that failed.
WatchConfigKept ==
    /\ awake # None /\ awake.at = "config" /\ awake' = None
    /\ Awaken /\ AwakeKeeps /\ UNCHANGED <<cfg, cfgLost>>

\* A copy of the retained config goes back, and the old build is started.  The
\* copy may fail or be cut short; nobody looks.
WatchConfig ==
    /\ awake # None /\ awake.at = "config" /\ awake' = None
    /\ \/ cfg' = (IF cfgPrev # None THEN cfgPrev ELSE cfg) /\ UNCHANGED cfgLost
       \/ cfgPrev # None /\ cfg' \in {cfg, Corrupt} /\ cfgLost' = TRUE
    /\ Awaken /\ AwakeKeeps

---------------------------------------------------------------------------
\* ABORT.

\* Mutant: whichever run is aborted, the retained build is put back.
MayRollbackAny(r) == prev # None

\* Only the run whose build came up here, and with something retained.
MayRollback(r) == r = installed /\ prev # None

\* handle_upgrade_abort, nothing to take back.
AbortOnly(r) ==
    /\ Running /\ step = None /\ linked /\ ~MayRollback(r)
    /\ plan' = None
    /\ send_upgrade_result(r, "aborted")
    /\ UNCHANGED <<files, proc, step, script, watch, hubs, linked, installed, report,
                   run, stranded, cfgLost, mixed>>

\* hub_rollback, the config first.  A config that cannot be put back is only
\* logged.
hub_rollback(r) ==
    /\ Running /\ step = None /\ linked /\ MayRollback(r)
    /\ plan' = None
    /\ \/ cfgPrev # None /\ cfg' = cfgPrev /\ cfgPrev' = None /\ UNCHANGED cfgLost
       \/ UNCHANGED <<cfg, cfgPrev>> /\ cfgLost' = (cfgLost \/ cfgPrev # None)
    /\ step' = [at |-> "rollback", run |-> r, build |-> prev]
    /\ UNCHANGED <<exe, prev, backup, marker, proc, script, watch, hubs, linked, installed,
                   report, run, results, stranded, mixed>>

\* The binary second, then the restart; a rename that fails is answered
\* "aborted" by the build that goes on running, without its retained config.
RollbackExe ==
    /\ At("rollback") /\ step' = None
    /\ \/ /\ exe' = prev /\ prev' = None /\ marker' = None
          /\ proc' = Starting(exe') /\ Forget
          /\ owed' = owed \ {step.run} /\ lost' = Unheard \ {step.run}
          /\ UNCHANGED <<cfgLost>>
       \/ /\ send_upgrade_result(step.run, "aborted")
          /\ cfgLost' = TRUE
          /\ UNCHANGED <<exe, prev, marker, proc, linked, volatile>>
    /\ UNCHANGED <<backup, cfg, cfgPrev, script, watch, hubs, run, stranded, mixed>>

---------------------------------------------------------------------------
\* update <version>, without hubs: perform_upgrade and upgrade_script.

\* The archive is there and verified; config written, binary renamed.
perform_upgrade(v) ==
    /\ Running /\ step = None /\ ~hubs
    /\ v >= proc.build.ver
    /\ cfg' = proc.build.ver
    /\ \/ exe # None /\ exe' = None /\ backup' = exe
       \/ UNCHANGED <<exe, backup>>
    /\ step' = [at |-> "update", build |-> [proc.build EXCEPT !.ver = v]]
    /\ UNCHANGED <<prev, cfgPrev, marker, proc, script, watch, hubs, linked, volatile,
                   history>>

\* <exe>.backup is put back; it may be an older one, when the rename had
\* failed.
BackupBack ==
    IF backup = None THEN UNCHANGED <<exe, backup, mixed, cfgLost>>
    ELSE /\ exe' = backup /\ backup' = None /\ mixed' = Run
         /\ cfgLost' = (cfgLost \/ exe # None)

\* upgrade.sh cannot be written: the rename is taken back.
UpdateUnstaged ==
    /\ At("update") /\ step' = None
    /\ BackupBack
    /\ UNCHANGED <<prev, cfg, cfgPrev, marker, proc, script, watch, hubs, linked, volatile,
                   run, results, stranded>>

\* The script takes over, or cannot be run: then the binary stays renamed.
UpdateExec ==
    /\ At("update") /\ step' = None
    /\ proc' = Down /\ Forget /\ owed' = owed /\ lost' = Unheard
    /\ \/ script' = [at |-> "unpack", by |-> "update", build |-> step.build] /\ UNCHANGED stranded
       \/ stranded' = (IF exe = None THEN "retained" ELSE stranded) /\ UNCHANGED script
    /\ UNCHANGED <<files, watch, hubs, run, cfgLost, mixed>>

\* Unpacking or building failed: the old binary is put back, or cannot be; it
\* is not started.
UpdateFail == /\ ScriptAt("update", "install") /\ script' = None
              /\ \/ BackupBack /\ UNCHANGED stranded
                 \/ /\ stranded' = IF exe = None THEN "retained" ELSE stranded
                    /\ UNCHANGED <<exe, backup, mixed, cfgLost>>
              /\ UNCHANGED <<prev, cfg, cfgPrev, marker, proc, step, watch, hubs, linked, volatile,
                             run, results>>

\* The new binary is moved into place.  Nobody looks whether it was.
UpdateMove ==
    /\ ScriptAt("update", "install") /\ script' = [script EXCEPT !.at = "remove"]
    /\ \/ exe' = script.build /\ mixed' = Run
       \/ UNCHANGED <<exe, mixed>>
    /\ UNCHANGED <<prev, backup, cfg, cfgPrev, marker, proc, step, watch, hubs, linked, volatile,
                   run, results, stranded, cfgLost>>

\* The backup is removed and the binary started, if there is one.
UpdateInstall ==
    /\ ScriptAt("update", "remove") /\ script' = None
    /\ backup' = None
    /\ IF exe # None
       THEN proc' = Starting(exe) /\ older' = watching /\ UNCHANGED <<stranded, cfgLost>>
       ELSE /\ stranded' = (IF prev = None THEN "nothing" ELSE "retained") /\ cfgLost' = TRUE
            /\ UNCHANGED <<proc, older>>
    /\ UNCHANGED <<exe, prev, cfg, cfgPrev, marker, step, watching, awake, hubs, linked, volatile,
                   run, results, mixed>>

---------------------------------------------------------------------------
Frame == \E r \in Run, v \in Ver, var \in Variant \cup {""} :
            \/ \E min \in Ver : handle_upgrade_prepare(r, v, var, min)
            \/ CommitSkip(r, v, var) \/ CommitRefused(r, v, var) \/ CommitFetched(r, v, var)

Script == ScriptNoDir \/ ScriptUnpack \/ ScriptRollback \/ ScriptInstall
          \/ UpdateFail \/ UpdateMove \/ UpdateInstall
Watchdog == (awake = None /\ WatchLook) \/ WatchRestore \/ WatchConfig
Handler == Snapshot \/ Retain \/ Stage \/ ExecScript \/ RollbackExe \/ UpdateUnstaged \/ UpdateExec

\* What happens while no watchdog is at work.  Its few commands take it
\* milliseconds: only the machine may stop between them.
Quiet == \/ ComeUp \/ AdminStart \/ Exit \/ SetHubs \/ Unlink \/ ConfigWrite
         \/ report_upgrade_result \/ Back \/ upgrade_ready_tick
         \/ Frame \/ PlanExpires
         \/ Handler \/ Script
         \/ \E r \in Run : AbortOnly(r) \/ hub_rollback(r)
         \/ \E v \in Ver : perform_upgrade(v)

Next == (awake = None /\ Quiet) \/ Watchdog \/ Crash

\* Handlers and scripts end, a stopped bot is started again, and a bot that
\* can stay up does; the link to a configured hub is made again and again.
Fairness == /\ WF_vars(Handler) /\ WF_vars(Script) /\ WF_vars(Watchdog) /\ WF_vars(AdminStart)
            /\ SF_vars(ComeUp /\ proc' # Down) /\ SF_vars(report_upgrade_result)
            /\ WF_vars(Back /\ report'.due) /\ SF_vars(upgrade_ready_tick)
Spec == Init /\ [][Next]_vars
FairSpec == Spec /\ Fairness

---------------------------------------------------------------------------
File == Build \cup {None}
\* Files, process, handlers and scripts hold builds, and a config a version.
TypeOK == /\ exe \in File /\ prev \in File /\ backup \in File
          /\ cfg \in Ver \cup {Corrupt} /\ cfgPrev \in Ver \cup {Corrupt, None}
          /\ marker \in Markers \cup {None}
          /\ proc \in [st : {"starting", "running"}, build : Build] \cup {Down}
          /\ step \in Steps \cup {None} /\ script \in Scripts \cup {None}
          /\ watching \in 0..MaxWatch /\ older \in 0..MaxWatch /\ awake \in Awakes \cup {None}
          /\ plan \in Plans \cup {None} /\ installed \in Run \cup {None}
          /\ report \in Reports \cup {None}
          /\ run \in [Run -> Swaps \cup {None}] /\ stranded \in {"no", "retained", "nothing"}
          /\ owed \subseteq Run /\ lost \subseteq Run /\ mixed \subseteq Run

\* The bot is never left without a way back: while no handler, script or
\* watchdog is at work there is a binary to start, except after a machine
\* that stopped half-way, an mkdir or a rename that failed or a script that
\* could not be run; and even then, or half-way, a retained binary is there.
\* The `update` command's script does not look whether its mv worked before
\* it removes the backup: that step alone may leave nothing.
NeverStranded ==
    /\ step = None /\ script = None /\ awake = None /\ stranded = "no" => exe # None
    /\ stranded # "nothing" => exe # None \/ prev # None \/ backup # None

\* A build that starts or runs never meets a config written by a newer one,
\* whichever watchdog, script or ABORT put it there ("the old binary must not
\* come up against a config only the newer build understands").  It may where
\* the retained config was lost or stale, was not or only half put back, or
\* the machine stopped before a watchdog had come to it, and where a watchdog
\* woke while a later build was starting.
ConfigFits == proc # Down /\ ~cfgLost => cfg # Corrupt /\ cfg <= proc.build.ver

\* A held "ok" is that of a process of the build its run was to install.
OkIsTarget == report # None /\ step = None => Running /\ proc.build = run[report.run].to

\* "Only the run that installed the build we are running may take it back":
\* a rollback replaces the build the aborted run installed by the one that
\* run retained, unless the bot was updated without its hub in between.
AbortTakesBackOwnRun ==
    At("rollback") => \/ step.run \in mixed
                      \/ /\ run[step.run] # None
                         /\ run[step.run].to = proc.build
                         /\ run[step.run].from = prev

\* Every run that replaced the process is answered, however the script
\* failed, wherever the machine stopped and whichever build came up, as long
\* as the bot keeps a hub and a config it can read, unless the one RESULT was
\* lost: a held one ends with its process, and one whose frame cannot be
\* written or dies with its link is not sent again.
EveryRunAnswered ==
    \A r \in Run : (r \in owed) ~> (r \notin owed \/ r \in lost \/ ~hubs \/ cfgLost)

\* What the three properties above excuse (README, section 5); TLC refutes
\* each of these, and no run checks them.  The `update` script's mv fails:
SomeBinary == exe # None \/ prev # None \/ backup # None

\* "The old binary must not come up against a config only the newer build
\* understands", whatever became of the retained config:
ConfigAlwaysFits == proc # Down => cfg # Corrupt /\ cfg <= proc.build.ver

\* "So a lost RESULT costs nothing":
ResultsArrive == \A r \in Run : (r \in owed) ~> (r \notin owed \/ ~hubs \/ cfgLost)
=============================================================================
