--------------------------- MODULE UpgradeProofs ---------------------------
(***************************************************************************)
(* The files an upgrade moves about always leave a way back, what is       *)
(* reported and what is taken back belongs to the run it is said of, and   *)
(* no build meets a newer config: for any versions, variants and runs,     *)
(* wherever the machine stops.                                             *)
(***************************************************************************)
EXTENDS Upgrade, TLAPS

\* The binary is renamed away by a commit in progress.
Moved == At("stage") \/ At("exec")
\* A commit is in progress, or its script.
Committing == At("snapshot") \/ At("retain") \/ Moved
ScriptBy(w) == script # None /\ script.by = w
Waking(p) == awake # None /\ awake.at = p

\* Who is at work: handlers in the running process, a script in its place, a
\* watchdog while neither is; a link and what came over it live in the process.
Busy == /\ step # None => Running /\ script = None
        /\ script # None => proc = Down
        /\ awake # None => ~Running /\ step = None /\ script = None
        /\ older <= watching
        /\ linked \/ report # None \/ installed # None => Running
        /\ Committing \/ At("rollback") => linked
        /\ Committing \/ ScriptBy("hub") => watching < MaxWatch

\* Which file holds the way back, wherever the bot is in an upgrade.
WayBack == /\ exe = None => \/ Moved \/ At("update") \/ script # None \/ awake # None
                            \/ stranded # "no"
           /\ exe = None /\ stranded # "nothing" => prev # None \/ backup # None
           /\ stranded = "nothing" => proc = Down /\ script = None /\ awake = None /\ prev = None
           /\ Moved \/ ScriptBy("hub") => exe = None
           /\ Moved \/ At("rollback") \/ ScriptBy("hub") \/ Waking("restore") => prev # None
           /\ Waking("config") => exe # None
           /\ (At("update") \/ ScriptBy("update")) /\ exe = None => backup # None \/ stranded # "no"

\* What a run was to do is what the marker, the process it installed and the
\* retained binary say, until the bot is updated without its hub.
Traced(r, b) == run[r] # None /\ run[r].to = b
Marks == /\ linked \/ report # None \/ installed # None => marker = None \/ At("exec")
         /\ marker # None => Traced(marker.run, marker.build)
         /\ At("exec") => /\ marker = [run |-> step.run, build |-> step.build]
                          /\ run[step.run].from = prev
         /\ marker # None /\ ScriptBy("hub") => script.build = marker.build
         /\ marker # None /\ marker.run \notin mixed /\ prev # None =>
               /\ run[marker.run].from = prev /\ exe \in {None, marker.build}
               /\ proc = Down \/ At("exec") \/ proc.build = marker.build
               /\ Waking("restore") => awake.old \in {None, marker.build}
         /\ installed # None /\ installed \notin mixed /\ prev # None /\ ~Moved =>
               Traced(installed, proc.build) /\ run[installed].from = prev
         /\ report # None /\ ~At("exec") => Traced(report.run, proc.build)
         /\ At("rollback") => step.run = installed

\* The retained config is one the retained build can read, and not newer than
\* the one in place.
Restorable == cfgPrev \in Ver /\ cfgPrev <= prev.ver /\ cfgPrev <= cfg
\* Something may still put the retained files back.
Armed == watching > 0 \/ marker # None \/ installed # None
Fits == /\ cfg \in Ver
        /\ exe # None /\ ~Waking("config") => cfg <= exe.ver
        /\ exe = None => \/ prev # None /\ cfg <= prev.ver
                         \/ backup # None /\ cfg <= backup.ver
                         \/ awake # None
        /\ exe = None => proc = Down \/ Moved \/ At("update")
        /\ Waking("restore") => /\ proc = Down /\ Restorable
                                /\ awake.old # None => cfg <= awake.old.ver
        /\ Waking("config") => proc = Down /\ cfgPrev \in Ver /\ cfgPrev <= exe.ver
        /\ proc # Down => cfg <= proc.build.ver
        /\ proc # Down /\ exe # None => exe = proc.build
        /\ step # None => cfg <= step.build.ver \/ At("rollback")
        /\ script # None => cfg <= script.build.ver
        /\ At("snapshot") \/ At("retain") => cfg = proc.build.ver
        /\ At("retain") => cfgPrev = cfg
        /\ Moved \/ ScriptBy("hub") => cfg <= prev.ver /\ Restorable
        /\ Moved => prev = proc.build
        /\ At("rollback") => cfg <= prev.ver
        /\ At("update") /\ exe = None => backup = proc.build
        /\ (At("update") \/ ScriptBy("update")) /\ exe = None => backup # None /\ cfg <= backup.ver
        /\ Armed /\ prev # None /\ ~At("retain") /\ ~At("rollback") => Restorable
ConfigSound == ~cfgLost => Fits

---------------------------------------------------------------------------
LEMMA Consts == /\ Ver \subseteq Nat \ {0} /\ MaxWatch \in Nat \ {0}
                /\ None \notin Run /\ None \notin Nat /\ None \notin Build
                /\ None \notin Markers /\ None \notin Steps /\ None \notin Scripts
                /\ None \notin Plans /\ None \notin Reports /\ None \notin Swaps
                /\ None \notin Awakes
BY UpgradeAssumption DEF UpgradeAssumption

Inv == TypeOK /\ Busy /\ WayBack

LEMMA InitInv == Init => Inv
BY Consts DEF Init, Inv, TypeOK, Busy, WayBack, Moved, Committing, At, ScriptBy, Waking, Running,
   Starting, Down, File, Build, Corrupt

LEMMA RunningBuild ==
    ASSUME TypeOK, Running
    PROVE  /\ proc # Down /\ proc.build \in Build
           /\ proc.build.ver \in Ver /\ proc.build.var \in Variant
BY DEF TypeOK, Running, Down, Build

\* A step a commit takes keeps the run and the build.
LEMMA GotoStep ==
    ASSUME TypeOK, NEW p, At(p), p # "update"
    PROVE  /\ step \in HubSteps /\ step.run \in Run /\ step.build \in Build
           /\ \A q \in {"snapshot", "retain", "stage", "exec"} :
                 LET s == [step EXCEPT !.at = q]
                 IN  /\ s \in HubSteps /\ s # None /\ s.at = q
                     /\ s.run = step.run /\ s.build = step.build
BY Consts DEF TypeOK, At, Steps, HubSteps

\* A frame changes the plan only, or begins the commit of a build not older
\* than the running one.
FrameKeeps == UNCHANGED <<exe, prev, backup, cfgPrev, marker, proc, script, watch, linked,
                          installed, report, run, stranded, cfgLost, mixed>>
Begins(r, b) == /\ Running /\ step = None /\ linked /\ watching < MaxWatch
                /\ b.ver >= proc.build.ver /\ cfg' = proc.build.ver
                /\ step' = [at |-> "snapshot", run |-> r, build |-> b]
                /\ plan' = plan /\ UNCHANGED results
LEMMA FrameKinds ==
    ASSUME Inv, Frame
    PROVE  /\ FrameKeeps
           /\ plan' \in Plans \cup {None} /\ owed' \subseteq Run /\ lost' \subseteq Run
           /\ \/ UNCHANGED <<cfg, step>>
              \/ \E r \in Run, b \in Build : Begins(r, b)
<1>0. PICK r \in Run, v \in Ver, var \in Variant \cup {""} :
         \/ \E min \in Ver : handle_upgrade_prepare(r, v, var, min)
         \/ CommitSkip(r, v, var) \/ CommitRefused(r, v, var) \/ CommitFetched(r, v, var)
  BY Zenon DEF Frame
<1>1. ASSUME NEW min \in Ver, handle_upgrade_prepare(r, v, var, min)
      PROVE  FrameKeeps /\ UNCHANGED <<cfg, step, results>> /\ plan' \in Plans \cup {None}
  <2>1. Running /\ FrameKeeps /\ UNCHANGED <<cfg, step, results>>
    BY <1>1, Zenon DEF handle_upgrade_prepare, files, history, FrameKeeps
  <2>2. Wanted(v, var).var \in Variant
    BY <2>1, RunningBuild DEF Inv, Wanted
  <2>3. [ver |-> v, run |-> r, var |-> Wanted(v, var).var, fresh |-> TRUE] \in Plans
    BY <2>2, Zenon DEF Plans
  <2> QED BY <1>1, <2>1, <2>3 DEF handle_upgrade_prepare, Inv, TypeOK, results
<1>2. CASE CommitSkip(r, v, var) \/ CommitRefused(r, v, var)
  <2>1. FrameKeeps /\ UNCHANGED <<cfg, step>> /\ plan' \in {plan, None}
    BY <1>2, Zenon DEF CommitSkip, CommitRefused, Refuse, FrameKeeps
  <2>2. \E s : send_upgrade_result(r, s)
    BY <1>2, Zenon DEF CommitSkip, CommitRefused, Refuse
  <2>3. owed' \subseteq Run /\ lost' \subseteq Run
    BY <2>2 DEF send_upgrade_result, Inv, TypeOK
  <2> QED BY <2>1, <2>3 DEF Inv, TypeOK
<1>3. CASE CommitFetched(r, v, var)
  <2>1. /\ Running /\ step = None /\ linked /\ watching < MaxWatch /\ plan # None
        /\ hub_local_check(CommitBuild(v, var), 0) /\ cfg' = proc.build.ver
        /\ step' = [at |-> "snapshot", run |-> r, build |-> CommitBuild(v, var)]
        /\ FrameKeeps /\ UNCHANGED <<plan, results>>
    BY <1>3, Zenon DEF CommitFetched, CommitTaken, FrameKeeps, volatile, history
  <2>2. plan.var \in Variant
    BY <2>1 DEF Inv, TypeOK, Plans
  <2>3. CommitBuild(v, var) \in Build
    BY <2>2 DEF CommitBuild, Build
  <2>4. Begins(r, CommitBuild(v, var))
    BY <2>1 DEF Begins, hub_local_check
  <2> QED BY <2>1, <2>3, <2>4 DEF Inv, TypeOK, results
<1> QED BY <1>0, <1>1, <1>2, <1>3 DEF Inv, TypeOK, results

\* A commit that gives up before the rename leaves the binaries alone.
Keeps == UNCHANGED <<backup, cfg, marker, proc, script, watch, linked, installed, report, run,
                     stranded, mixed>>
LEMMA SnapshotKinds ==
    ASSUME Snapshot
    PROVE  /\ At("snapshot") /\ Keeps /\ UNCHANGED <<exe, prev>>
           /\ \/ step' = [step EXCEPT !.at = "retain"] /\ cfgPrev' = cfg /\ cfgLost' = cfgLost
              \/ step' = None /\ cfgLost' = (cfgLost \/ prev # None)
BY Zenon DEF Snapshot, Goto, GiveUp, Refuse, volatile, history, Keeps

LEMMA RetainKinds ==
    ASSUME Retain
    PROVE  /\ At("retain") /\ Keeps
           /\ \/ /\ step' = [step EXCEPT !.at = "stage"] /\ exe # None /\ prev' = exe /\ exe' = None
                 /\ UNCHANGED <<cfgPrev, cfgLost>>
              \/ /\ step' = None /\ cfgLost' = (cfgLost \/ prev # None)
                 /\ UNCHANGED <<exe, prev>>
BY Zenon DEF Retain, Goto, GiveUp, Refuse, volatile, history, Keeps

LEMMA StepType == ASSUME Inv, [Next]_vars PROVE TypeOK'
<1> USE Consts DEF Inv, watch, results
<1>1. CASE awake = None /\ ComeUp
  BY <1>1 DEF ComeUp, TypeOK, Down, files, history, volatile
<1>2. CASE AdminStart
  BY <1>2 DEF AdminStart, TypeOK, WayBack, Down, Starting, UseBackup, File, Build, volatile
<1>3. CASE Crash
  BY <1>3 DEF Crash, TypeOK, Forget, Unheard, files, Down
<1>4. CASE Exit
  BY <1>4 DEF Exit, TypeOK, Forget, Unheard, files, Down
<1>5. CASE SetHubs \/ Unlink
  BY <1>5 DEF SetHubs, Unlink, TypeOK, files, volatile, history
<1>6. CASE ConfigWrite
  BY <1>6 DEF ConfigWrite, TypeOK, volatile, history, Running, Down, Build
<1>7. CASE report_upgrade_result
  <2>1. \A r \in Run : [run |-> r, back |-> FALSE, due |-> FALSE] \in Reports
    BY Zenon DEF Reports
  <2>2. marker # None => marker.run \in Run
    BY DEF TypeOK, Markers
  <2> QED BY <1>7, <2>1, <2>2 DEF report_upgrade_result, TypeOK, take_pending_upgrade,
                                   send_upgrade_result
<1>8. CASE Back
  <2>1. report' \in Reports
    BY <1>8 DEF Back, TypeOK, Reports
  <2>2. UNCHANGED <<files, proc, step, script, watch, plan, installed, history>>
    BY <1>8, Zenon DEF Back
  <2> QED BY <2>1, <2>2 DEF TypeOK, files, history
<1>9. CASE upgrade_ready_tick
  <2>1. report # None => report.run \in Run
    BY DEF TypeOK, Reports
  <2> QED BY <1>9, <2>1 DEF upgrade_ready_tick, TypeOK, send_upgrade_result, files
<1>10. CASE Frame
  <2>1. CASE UNCHANGED <<cfg, step>>
    BY <1>10, <2>1, FrameKinds DEF FrameKeeps, TypeOK
  <2>2. CASE \E r \in Run, b \in Build : Begins(r, b)
    <3>1. PICK r \in Run, b \in Build : Begins(r, b)
      BY <2>2
    <3>2. step' \in Steps /\ cfg' \in Ver
      BY <3>1, RunningBuild DEF Begins, Steps, HubSteps
    <3> QED BY <1>10, <3>2, FrameKinds DEF FrameKeeps, TypeOK
  <2> QED BY <1>10, <2>1, <2>2, FrameKinds
<1>11. CASE PlanExpires
  <2>1. plan' \in Plans
    BY <1>11, Zenon DEF PlanExpires, TypeOK, Plans
  <2>2. UNCHANGED <<files, proc, step, script, watch, installed, report, history>>
    BY <1>11, Zenon DEF PlanExpires
  <2> QED BY <2>1, <2>2 DEF TypeOK, files, history
<1>12. CASE Snapshot
  BY <1>12 DEF Snapshot, At, Goto, GiveUp, Refuse, send_upgrade_result, TypeOK, Steps, HubSteps,
         Corrupt, volatile, history
<1>13. CASE Retain
  BY <1>13 DEF Retain, At, Goto, GiveUp, Refuse, send_upgrade_result, TypeOK, Steps, HubSteps,
         File, volatile, history
<1>14. CASE Stage
  BY <1>14 DEF Stage, At, Goto, GiveUp, send_upgrade_result, TypeOK, WayBack, Moved, Steps,
         HubSteps, File, Markers, Swaps
<1>15. CASE ExecScript
  BY <1>15 DEF ExecScript, At, Forget, Unheard, TypeOK, Steps, HubSteps, File, Scripts, Down
<1>16. CASE RollbackExe
  BY <1>16 DEF RollbackExe, At, Forget, Unheard, send_upgrade_result, TypeOK, WayBack, Steps,
         HubSteps, File, Starting, volatile
<1>17. CASE UpdateUnstaged
  BY <1>17 DEF UpdateUnstaged, BackupBack, TypeOK, File, volatile
<1>18. CASE UpdateExec
  BY <1>18 DEF UpdateExec, At, Forget, Unheard, TypeOK, Steps, HubSteps, Scripts, Down, files
<1>19. CASE ScriptNoDir
  BY <1>19 DEF ScriptNoDir, ScriptKeeps, TypeOK, volatile
<1>20. CASE ScriptUnpack
  BY <1>20 DEF ScriptUnpack, ScriptKeeps, TypeOK, Scripts, volatile
<1>21. CASE ScriptRollback
  BY <1>21 DEF ScriptRollback, ScriptKeeps, ScriptBy, TypeOK, WayBack, File, Starting, volatile
<1>22. CASE ScriptInstall
  BY <1>22 DEF ScriptInstall, ScriptAt, ScriptKeeps, ScriptBy, TypeOK, Busy, File, Scripts,
         Starting, volatile
<1>23. CASE UpdateFail
  BY <1>23 DEF UpdateFail, BackupBack, TypeOK, File, volatile
<1>24. CASE UpdateMove \/ UpdateInstall
  <2>1. CASE UpdateMove
    BY <2>1 DEF UpdateMove, ScriptAt, TypeOK, File, Scripts, volatile
  <2>2. CASE UpdateInstall
    BY <2>2 DEF UpdateInstall, ScriptAt, TypeOK, File, Scripts, Starting, volatile
  <2> QED BY <1>24, <2>1, <2>2
<1>25. CASE Watchdog
  <2>1. CASE awake = None /\ WatchLook
    BY <2>1 DEF WatchLook, TypeOK, File, Awakes, volatile
  <2>2. CASE WatchRestore
    BY <2>2 DEF WatchRestore, TypeOK, File, Awakes, volatile
  <2>3. CASE WatchConfig
    BY <2>3 DEF WatchConfig, AwakeKeeps, Awaken, WayBack, Waking, TypeOK, File, Starting, volatile
  <2> QED BY <1>25, <2>1, <2>2, <2>3 DEF Watchdog
<1>26. ASSUME NEW r \in Run, AbortOnly(r) PROVE TypeOK'
  BY <1>26 DEF AbortOnly, send_upgrade_result, TypeOK, files
<1>27. ASSUME NEW r \in Run, hub_rollback(r) PROVE TypeOK'
  BY <1>27 DEF hub_rollback, MayRollback, TypeOK, Steps, HubSteps, File
<1>28. ASSUME NEW v \in Ver, perform_upgrade(v) PROVE TypeOK'
  BY <1>28 DEF perform_upgrade, Running, Down, TypeOK, Steps, Build, File, volatile, history
<1>29. CASE UNCHANGED vars
  BY <1>29 DEF vars, files, history, volatile, TypeOK
<1> QED BY <1>1, <1>2, <1>3, <1>4, <1>5, <1>6, <1>7, <1>8, <1>9, <1>10, <1>11,
           <1>12, <1>13, <1>14, <1>15, <1>16, <1>17, <1>18, <1>19, <1>20, <1>21, <1>22, <1>23,
           <1>24, <1>25, <1>26, <1>27, <1>28, <1>29 DEF Next, Quiet, Handler, Script

LEMMA StepBusy == ASSUME Inv, [Next]_vars PROVE Busy'
<1> USE Consts DEF Inv, TypeOK, Busy, Committing, Moved, At, ScriptBy, Waking, Running, Starting,
       Down, Steps, HubSteps, Scripts, Awakes, watch, results
<1>1. CASE awake = None /\ ComeUp
  BY <1>1 DEF ComeUp, files, volatile, history
<1>2. CASE AdminStart
  BY <1>2 DEF AdminStart, UseBackup, volatile
<1>3. CASE Crash
  BY <1>3 DEF Crash, Forget, files
<1>4. CASE Exit
  BY <1>4 DEF Exit, Forget, files
<1>5. CASE SetHubs \/ Unlink
  BY <1>5 DEF SetHubs, Unlink, files, volatile, history
<1>6. CASE ConfigWrite
  BY <1>6 DEF ConfigWrite, volatile, history
<1>7. CASE report_upgrade_result
  BY <1>7 DEF report_upgrade_result
<1>8. CASE Back \/ upgrade_ready_tick \/ PlanExpires
  BY <1>8 DEF Back, upgrade_ready_tick, PlanExpires, files, history
<1>9. CASE Frame
  BY <1>9, FrameKinds DEF FrameKeeps, Begins
<1>10. CASE Snapshot
  BY <1>10, GotoStep, SnapshotKinds DEF Keeps
<1>11. CASE Retain
  BY <1>11, GotoStep, RetainKinds DEF Keeps
<1>12. CASE Stage
  BY <1>12 DEF Stage, Goto, GiveUp
<1>13. CASE ExecScript
  BY <1>13 DEF ExecScript, Forget
<1>14. CASE RollbackExe
  BY <1>14 DEF RollbackExe, Forget, volatile
<1>15. CASE UpdateUnstaged
  BY <1>15 DEF UpdateUnstaged, BackupBack, volatile
<1>16. CASE UpdateExec
  BY <1>16 DEF UpdateExec, Forget, files
<1>17. CASE ScriptNoDir \/ ScriptUnpack
  <2>1. CASE ScriptNoDir
    BY <2>1 DEF ScriptNoDir, ScriptKeeps, volatile
  <2>2. CASE ScriptUnpack
    BY <2>2 DEF ScriptUnpack, ScriptKeeps, volatile
  <2> QED BY <1>17, <2>1, <2>2
<1>18. CASE ScriptRollback
  BY <1>18 DEF ScriptRollback, ScriptKeeps, volatile
<1>19. CASE ScriptInstall
  BY <1>19 DEF ScriptInstall, ScriptAt, ScriptKeeps, volatile
<1>20. CASE UpdateFail
  BY <1>20 DEF UpdateFail, BackupBack, ScriptAt, volatile
<1>21. CASE UpdateMove \/ UpdateInstall
  <2>1. CASE UpdateMove
    BY <2>1 DEF UpdateMove, ScriptAt, volatile
  <2>2. CASE UpdateInstall
    BY <2>2 DEF UpdateInstall, ScriptAt, volatile
  <2> QED BY <1>21, <2>1, <2>2
<1>22. CASE Watchdog
  <2>1. CASE awake = None /\ WatchLook
    BY <2>1 DEF WatchLook, volatile
  <2>2. CASE WatchRestore
    BY <2>2 DEF WatchRestore, volatile
  <2>3. CASE WatchConfig
    BY <2>3 DEF WatchConfig, AwakeKeeps, Awaken, volatile
  <2> QED BY <1>22, <2>1, <2>2, <2>3 DEF Watchdog
<1>23. ASSUME NEW r \in Run, AbortOnly(r) PROVE Busy'
  BY <1>23 DEF AbortOnly, files
<1>24. ASSUME NEW r \in Run, hub_rollback(r) PROVE Busy'
  BY <1>24 DEF hub_rollback, MayRollback
<1>25. ASSUME NEW v \in Ver, perform_upgrade(v) PROVE Busy'
  BY <1>25 DEF perform_upgrade, volatile, history
<1>26. CASE UNCHANGED vars
  BY <1>26 DEF vars, files, volatile, history
<1> QED BY <1>1, <1>2, <1>3, <1>4, <1>5, <1>6, <1>7, <1>8, <1>9, <1>10, <1>11, <1>12, <1>13,
           <1>14, <1>15, <1>16, <1>17, <1>18, <1>19, <1>20, <1>21, <1>22, <1>23, <1>24, <1>25,
           <1>26 DEF Next, Quiet, Handler, Script

LEMMA StepWayBack == ASSUME Inv, [Next]_vars PROVE WayBack'
<1> USE Consts DEF Inv, TypeOK, Busy, WayBack, Committing, Moved, At, ScriptBy, Waking, Running,
       Starting, Down, File, Steps, HubSteps, Scripts, Awakes, watch, results
<1>1. CASE awake = None /\ ComeUp
  BY <1>1 DEF ComeUp, files, volatile, history
<1>2. CASE AdminStart
  BY <1>2 DEF AdminStart, UseBackup, volatile
<1>3. CASE Crash
  BY <1>3 DEF Crash, Forget, files
<1>4. CASE Exit
  BY <1>4 DEF Exit, Forget, files
<1>5. CASE SetHubs \/ Unlink
  BY <1>5 DEF SetHubs, Unlink, files, volatile, history
<1>6. CASE ConfigWrite
  BY <1>6 DEF ConfigWrite, volatile, history
<1>7. CASE report_upgrade_result
  BY <1>7 DEF report_upgrade_result
<1>8. CASE Back \/ upgrade_ready_tick \/ PlanExpires
  BY <1>8 DEF Back, upgrade_ready_tick, PlanExpires, files, history
<1>9. CASE Frame
  BY <1>9, FrameKinds DEF FrameKeeps, Begins
<1>10. CASE Snapshot
  BY <1>10, GotoStep, SnapshotKinds DEF Keeps
<1>11. CASE Retain
  BY <1>11, GotoStep, RetainKinds DEF Keeps
<1>12. CASE Stage
  BY <1>12 DEF Stage, Goto, GiveUp
<1>13. CASE ExecScript
  BY <1>13 DEF ExecScript, Forget
<1>14. CASE RollbackExe
  BY <1>14 DEF RollbackExe, Forget, volatile
<1>15. CASE UpdateUnstaged
  BY <1>15 DEF UpdateUnstaged, BackupBack, volatile
<1>16. CASE UpdateExec
  <2>1. /\ At("update") /\ step' = None /\ proc' = Down /\ UNCHANGED files
        /\ \/ script' = [at |-> "unpack", by |-> "update", build |-> step.build]
              /\ UNCHANGED stranded
           \/ stranded' = (IF exe = None THEN "retained" ELSE stranded) /\ UNCHANGED script
        /\ UNCHANGED awake
    BY <1>16, Zenon DEF UpdateExec
  <2>2. [at |-> "unpack", by |-> "update", build |-> step.build] \in Scripts
    BY <2>1
  <2> QED BY <2>1, <2>2 DEF files
<1>17. CASE ScriptNoDir \/ ScriptUnpack
  <2>1. CASE ScriptNoDir
    BY <2>1 DEF ScriptNoDir, ScriptKeeps, volatile
  <2>2. CASE ScriptUnpack
    BY <2>2 DEF ScriptUnpack, ScriptKeeps, volatile
  <2> QED BY <1>17, <2>1, <2>2
<1>18. CASE ScriptRollback
  BY <1>18 DEF ScriptRollback, ScriptKeeps, volatile
<1>19. CASE ScriptInstall
  BY <1>19 DEF ScriptInstall, ScriptAt, ScriptKeeps, volatile
<1>20. CASE UpdateFail
  BY <1>20 DEF UpdateFail, BackupBack, ScriptAt, volatile
<1>21. CASE UpdateMove \/ UpdateInstall
  <2>1. CASE UpdateMove
    BY <2>1 DEF UpdateMove, ScriptAt, volatile
  <2>2. CASE UpdateInstall
    BY <2>2 DEF UpdateInstall, ScriptAt, volatile
  <2> QED BY <1>21, <2>1, <2>2
<1>22. CASE Watchdog
  <2>1. CASE awake = None /\ WatchLook
    BY <2>1 DEF WatchLook, volatile
  <2>2. CASE WatchRestore
    BY <2>2 DEF WatchRestore, volatile
  <2>3. CASE WatchConfig
    BY <2>3 DEF WatchConfig, AwakeKeeps, Awaken, volatile
  <2> QED BY <1>22, <2>1, <2>2, <2>3 DEF Watchdog
<1>23. ASSUME NEW r \in Run, AbortOnly(r) PROVE WayBack'
  BY <1>23 DEF AbortOnly, files
<1>24. ASSUME NEW r \in Run, hub_rollback(r) PROVE WayBack'
  BY <1>24 DEF hub_rollback, MayRollback
<1>25. ASSUME NEW v \in Ver, perform_upgrade(v) PROVE WayBack'
  <2>1. /\ Running /\ step = None
        /\ step' = [at |-> "update", build |-> [proc.build EXCEPT !.ver = v]]
        /\ \/ exe # None /\ exe' = None /\ backup' = exe
           \/ UNCHANGED <<exe, backup>>
        /\ UNCHANGED <<prev, proc, script, awake, stranded>>
    BY <1>25, Zenon DEF perform_upgrade, history
  <2>2. step'.at = "update" /\ step' # None
    BY <1>25, <2>1, RunningBuild DEF Build
  <2> QED BY <2>1, <2>2
<1>26. CASE UNCHANGED vars
  BY <1>26 DEF vars, files, volatile, history
<1> QED BY <1>1, <1>2, <1>3, <1>4, <1>5, <1>6, <1>7, <1>8, <1>9, <1>10, <1>11, <1>12, <1>13,
           <1>14, <1>15, <1>16, <1>17, <1>18, <1>19, <1>20, <1>21, <1>22, <1>23, <1>24, <1>25,
           <1>26 DEF Next, Quiet, Handler, Script

LEMMA StepInv == ASSUME Inv, [Next]_vars PROVE Inv'
BY StepType, StepBusy, StepWayBack DEF Inv

\* A binary to start is always there once handlers and scripts are done, and
\* one to put back even where the machine stops half-way (hub_commit,
\* hub_upgrade_script, hub_rollback, perform_upgrade).
THEOREM AlwaysAWayBack == Spec => []NeverStranded
<1>1. Inv /\ [Next]_vars => Inv'
  BY StepInv
<1>2. Inv => NeverStranded
  BY DEF Inv, WayBack, Moved, At, NeverStranded
<1> QED BY InitInv, <1>1, <1>2, PTL DEF Spec
---------------------------------------------------------------------------
LEMMA InitMarks == Init => Marks
BY Consts DEF Init, Marks, Moved, At, ScriptBy, Waking

LEMMA StepMarks == ASSUME Inv, Marks, [Next]_vars PROVE Marks'
<1> USE Consts DEF Inv, TypeOK, Busy, WayBack, Marks, Traced, Committing, Moved, At, ScriptBy,
       Waking, Running, Starting, Down, File, Markers, Steps, HubSteps, Scripts, Awakes, watch,
       results
<1>1. CASE awake = None /\ ComeUp
  BY <1>1 DEF ComeUp, files, volatile, history
<1>2. CASE AdminStart
  BY <1>2 DEF AdminStart, UseBackup, volatile
<1>3. CASE Crash
  BY <1>3 DEF Crash, Forget, files
<1>4. CASE Exit
  BY <1>4 DEF Exit, Forget, files
<1>5. CASE SetHubs \/ Unlink
  BY <1>5 DEF SetHubs, Unlink, files, volatile, history
<1>6. CASE ConfigWrite
  BY <1>6 DEF ConfigWrite, volatile, history
<1>7. CASE report_upgrade_result
  BY <1>7 DEF report_upgrade_result, take_pending_upgrade, IsTarget
<1>8. CASE Back \/ upgrade_ready_tick \/ PlanExpires
  <2>1. CASE Back
    <3>1. report # None /\ report'.run = report.run
      BY <2>1 DEF Back, Reports
    <3>2. UNCHANGED <<files, proc, step, script, watch, linked, installed, run, mixed>>
      BY <2>1, Zenon DEF Back, history
    <3> QED BY <3>1, <3>2 DEF files
  <2>2. CASE upgrade_ready_tick
    BY <2>2 DEF upgrade_ready_tick, files
  <2>3. CASE PlanExpires
    <3>1. UNCHANGED <<files, proc, step, script, watch, linked, installed, report, run, mixed>>
      BY <2>3, Zenon DEF PlanExpires, history
    <3> QED BY <3>1 DEF files
  <2> QED BY <1>8, <2>1, <2>2, <2>3
<1>9. CASE Frame
  BY <1>9, FrameKinds DEF FrameKeeps, Begins
<1>10. CASE Snapshot
  BY <1>10, GotoStep, SnapshotKinds DEF Keeps
<1>11. CASE Retain
  BY <1>11, GotoStep, RetainKinds DEF Keeps
<1>12. CASE Stage
  <2>1. CASE step' = None
    BY <1>12, <2>1, GotoStep DEF Stage, Goto, GiveUp
  <2>2. CASE step' # None
    <3>1. /\ At("stage") /\ marker' = [run |-> step.run, build |-> step.build]
          /\ run' = [run EXCEPT ![step.run] = [from |-> prev, to |-> step.build]]
          /\ step' = [step EXCEPT !.at = "exec"]
          /\ UNCHANGED <<exe, prev, proc, script, watch, linked, installed, report, mixed>>
      BY <1>12, <2>2, Zenon DEF Stage, Goto, GiveUp
    <3>2. /\ step.run \in Run /\ step'.run = step.run /\ step'.build = step.build
          /\ step'.at = "exec" /\ marker'.run = step.run /\ marker'.build = step.build
      BY <3>1, GotoStep
    <3>3. run'[step.run] = [from |-> prev, to |-> step.build] /\ run'[step.run] # None
      BY <3>1, <3>2, GotoStep DEF Swaps
    <3>4. proc # Down /\ script = None /\ exe = None
      BY <3>1
    <3> QED BY <3>1, <3>2, <3>3, <3>4
  <2> QED BY <2>1, <2>2
<1>13. CASE ExecScript
  BY <1>13, GotoStep DEF ExecScript, Forget
<1>14. CASE RollbackExe
  BY <1>14, GotoStep DEF RollbackExe, Forget, volatile
<1>15. CASE UpdateUnstaged
  BY <1>15 DEF UpdateUnstaged, BackupBack, volatile
<1>16. CASE UpdateExec
  BY <1>16 DEF UpdateExec, Forget, files
<1>17. CASE ScriptNoDir \/ ScriptUnpack
  BY <1>17 DEF ScriptNoDir, ScriptUnpack, ScriptKeeps, volatile
<1>18. CASE ScriptRollback
  BY <1>18 DEF ScriptRollback, ScriptKeeps, volatile
<1>19. CASE ScriptInstall
  BY <1>19 DEF ScriptInstall, ScriptAt, ScriptKeeps, volatile
<1>20. CASE UpdateFail
  BY <1>20 DEF UpdateFail, BackupBack, ScriptAt, volatile
<1>21. CASE UpdateMove \/ UpdateInstall
  <2>1. CASE UpdateMove
    BY <2>1 DEF UpdateMove, ScriptAt, volatile
  <2>2. CASE UpdateInstall
    BY <2>2 DEF UpdateInstall, ScriptAt, volatile
  <2> QED BY <1>21, <2>1, <2>2
<1>22. CASE Watchdog
  <2>1. CASE awake = None /\ WatchLook
    BY <2>1 DEF WatchLook, volatile
  <2>2. CASE WatchRestore
    BY <2>2 DEF WatchRestore, volatile
  <2>3. CASE WatchConfig
    BY <2>3 DEF WatchConfig, AwakeKeeps, Awaken, volatile
  <2> QED BY <1>22, <2>1, <2>2, <2>3 DEF Watchdog
<1>23. ASSUME NEW r \in Run, AbortOnly(r) PROVE Marks'
  BY <1>23 DEF AbortOnly, files
<1>24. ASSUME NEW r \in Run, hub_rollback(r) PROVE Marks'
  BY <1>24 DEF hub_rollback, MayRollback
<1>25. ASSUME NEW v \in Ver, perform_upgrade(v) PROVE Marks'
  BY <1>25 DEF perform_upgrade, volatile, history
<1>26. CASE UNCHANGED vars
  BY <1>26 DEF vars, files, volatile, history
<1> QED BY <1>1, <1>2, <1>3, <1>4, <1>5, <1>6, <1>7, <1>8, <1>9, <1>10, <1>11, <1>12, <1>13,
           <1>14, <1>15, <1>16, <1>17, <1>18, <1>19, <1>20, <1>21, <1>22, <1>23, <1>24, <1>25,
           <1>26 DEF Next, Quiet, Handler, Script

LEMMA TraceInvariant == Spec => [](Inv /\ Marks)
<1>1. Inv /\ Marks /\ [Next]_vars => Inv' /\ Marks'
  BY StepInv, StepMarks
<1> QED BY InitInv, InitMarks, <1>1, PTL DEF Spec

\* A process that holds an "ok" for the hub is the build that run was to
\* install, whichever build the script, a watchdog or an admin started
\* (report_upgrade_result, take_pending_upgrade).
THEOREM OkOnlyForTarget == Spec => []OkIsTarget
<1>1. Inv /\ Marks => OkIsTarget
  BY DEF Inv, Busy, Marks, Traced, At, OkIsTarget
<1> QED BY TraceInvariant, <1>1, PTL

\* An ABORT takes back what its own run installed, and puts back what that
\* run replaced (handle_upgrade_abort, hub_rollback).
THEOREM AbortOwnRunOnly == Spec => []AbortTakesBackOwnRun
<1>1. Inv /\ Marks => AbortTakesBackOwnRun
  <2> SUFFICES ASSUME Inv, Marks, At("rollback")
               PROVE  \/ step.run \in mixed
                      \/ Traced(step.run, proc.build) /\ run[step.run].from = prev
    BY DEF AbortTakesBackOwnRun, Traced
  <2>1. step.run \in Run /\ step.run = installed /\ installed # None /\ prev # None /\ ~Moved
    BY Consts, GotoStep DEF Inv, WayBack, Marks, Moved, At
  <2> QED BY <2>1 DEF Marks
<1> QED BY TraceInvariant, <1>1, PTL
---------------------------------------------------------------------------
LEMMA InitConfig == Init => ConfigSound
<1> SUFFICES ASSUME Init PROVE Fits
  BY DEF ConfigSound
<1>1. /\ exe \in Build /\ cfg = exe.ver /\ proc = [st |-> "starting", build |-> exe]
      /\ step = None /\ script = None /\ watching = 0 /\ marker = None /\ installed = None
      /\ prev = None /\ awake = None
  BY Zenon DEF Init, Starting
<1>2. cfg \in Ver /\ cfg <= exe.ver /\ exe # None
  BY <1>1, Consts DEF Build
<1> QED BY <1>1, <1>2, Consts DEF Fits, Moved, At, ScriptBy, Waking, Armed, Restorable, Down

\* What was lost stays lost.
LEMMA LostStays == ASSUME [Next]_vars, ~cfgLost' PROVE ~cfgLost
<1>1. CASE ComeUp \/ AdminStart \/ Crash \/ Exit \/ SetHubs \/ Unlink \/ ConfigWrite
  BY <1>1, Zenon DEF ComeUp, AdminStart, Crash, Exit, SetHubs, Unlink, ConfigWrite, history
<1>2. CASE report_upgrade_result \/ Back \/ upgrade_ready_tick \/ PlanExpires
  BY <1>2, Zenon DEF report_upgrade_result, Back, upgrade_ready_tick, PlanExpires, history
<1>3. CASE Frame
  <2>1. ASSUME NEW r \in Run, NEW v \in Ver, NEW var, NEW min, handle_upgrade_prepare(r, v, var, min)
        PROVE  ~cfgLost
    BY <2>1, Zenon DEF handle_upgrade_prepare, history
  <2>2. ASSUME NEW r \in Run, NEW v \in Ver, NEW var, CommitSkip(r, v, var) \/ CommitRefused(r, v, var)
        PROVE  ~cfgLost
    BY <2>2, Zenon DEF CommitSkip, CommitRefused, history
  <2>3. ASSUME NEW r \in Run, NEW v \in Ver, NEW var, CommitFetched(r, v, var) PROVE ~cfgLost
    BY <2>3, Zenon DEF CommitFetched, history
  <2> QED BY <1>3, <2>1, <2>2, <2>3, Zenon DEF Frame
<1>4. CASE Snapshot \/ Retain
  BY <1>4, SnapshotKinds, RetainKinds, Zenon
<1>5. CASE Stage \/ ExecScript \/ RollbackExe \/ UpdateExec
  BY <1>5, Zenon DEF Stage, ExecScript, RollbackExe, UpdateExec
<1>6. CASE UpdateUnstaged \/ UpdateFail
  BY <1>6, Zenon DEF UpdateUnstaged, UpdateFail, BackupBack
<1>7. CASE \/ ScriptNoDir \/ ScriptUnpack \/ ScriptRollback \/ ScriptInstall \/ UpdateInstall
           \/ UpdateMove \/ WatchLook \/ WatchRestore \/ WatchConfig
  BY <1>7, Zenon DEF ScriptNoDir, ScriptUnpack, ScriptRollback, ScriptInstall, UpdateInstall,
                     UpdateMove, WatchLook, WatchRestore, WatchConfig, AwakeKeeps, ScriptKeeps,
                     history
<1>8. ASSUME NEW r \in Run, AbortOnly(r) \/ hub_rollback(r) PROVE ~cfgLost
  BY <1>8, Zenon DEF AbortOnly, hub_rollback
<1>9. ASSUME NEW v \in Ver, perform_upgrade(v) PROVE ~cfgLost
  BY <1>9, Zenon DEF perform_upgrade, history
<1>10. CASE UNCHANGED vars
  BY <1>10, Zenon DEF vars, history
<1> QED BY <1>1, <1>2, <1>3, <1>4, <1>5, <1>6, <1>7, <1>8, <1>9, <1>10
   DEF Next, Quiet, Handler, Script, Watchdog

LEMMA StepConfig == ASSUME Inv, Marks, Fits, ~cfgLost, ~cfgLost', [Next]_vars
                    PROVE  Fits'
<1> USE Consts DEF Inv, TypeOK, Busy, WayBack, Fits, Armed, Restorable, Committing, Moved, At,
       ScriptBy, Waking, Running, Starting, Down, File, Build, Steps, HubSteps, Scripts, Awakes,
       Corrupt, watch, results
<1>1. CASE awake = None /\ ComeUp
  BY <1>1 DEF ComeUp, files, volatile, history
<1>2. CASE AdminStart
  <2>1. /\ step = None /\ script = None /\ watching = 0 /\ proc = Down
        /\ UNCHANGED <<cfgPrev, marker, step, script, watch, installed>> /\ awake = None
        /\ exe' \in IF exe # None THEN {exe} ELSE IF UseBackup THEN {backup}
                    ELSE IF prev # None THEN {prev} ELSE {b \in Build : b.ver >= cfg}
        /\ prev' = IF exe = None /\ ~UseBackup THEN None ELSE prev
        /\ proc' = Starting(exe') /\ cfg' = IF cfg = Corrupt THEN exe'.ver ELSE cfg
    BY <1>2, Zenon DEF AdminStart, Busy, volatile
  <2>2. exe' \in Build /\ cfg <= exe'.ver
    BY <2>1 DEF UseBackup
  <2>3. cfg' = cfg /\ exe' # None /\ proc'.build = exe'
    BY <2>1, <2>2
  <2> QED BY <2>1, <2>2, <2>3
<1>3. CASE Crash
  <2>1. /\ proc' = Down /\ step' = None /\ script' = None /\ watching' = 0 /\ installed' = None
        /\ awake = None /\ awake' = None
        /\ UNCHANGED <<exe, prev, backup, cfg, cfgPrev, marker>>
    BY <1>3 DEF Crash, Forget
  <2>2. marker # None => ~At("retain") /\ ~At("rollback")
    BY DEF Marks
  <2> QED BY <2>1, <2>2
<1>4. CASE Exit
  BY <1>4 DEF Exit, Forget, files
<1>5. CASE SetHubs \/ Unlink
  BY <1>5 DEF SetHubs, Unlink, files, volatile, history
<1>6. CASE ConfigWrite
  BY <1>6 DEF ConfigWrite, volatile, history
<1>7. CASE report_upgrade_result
  BY <1>7 DEF report_upgrade_result, take_pending_upgrade, IsTarget
<1>8. CASE Back \/ upgrade_ready_tick \/ PlanExpires
  BY <1>8 DEF Back, upgrade_ready_tick, PlanExpires, files, history
<1>9. CASE Frame
  <2>1. CASE UNCHANGED <<cfg, step>>
    BY <1>9, <2>1, FrameKinds DEF FrameKeeps
  <2>2. ASSUME NEW r \in Run, NEW b \in Build, Begins(r, b) PROVE Fits'
    <3>1. /\ Running /\ step = None /\ cfg' = proc.build.ver /\ b.ver >= proc.build.ver
          /\ step' = [at |-> "snapshot", run |-> r, build |-> b] /\ FrameKeeps
      BY <1>9, <2>2, FrameKinds DEF Begins
    <3>2. /\ proc # Down /\ proc.build \in Build /\ exe = proc.build /\ script = None
          /\ step'.at = "snapshot" /\ step'.build = b
      BY <3>1, RunningBuild
    <3> QED BY <3>1, <3>2 DEF FrameKeeps
  <2> QED BY <1>9, <2>1, <2>2, FrameKinds
<1>10. CASE Snapshot
  <2>1. CASE step' = None
    BY <1>10, <2>1, GotoStep, SnapshotKinds, SMTT(30), ZenonT(30) DEF Keeps
  <2>2. CASE step' # None
    <3>1. /\ At("snapshot") /\ Keeps /\ UNCHANGED <<exe, prev>> /\ cfgPrev' = cfg
          /\ step' = [step EXCEPT !.at = "retain"]
      BY <1>10, <2>2, SnapshotKinds, Zenon
    <3>2. step'.at = "retain" /\ step'.build = step.build
      BY <3>1, GotoStep
    <3> QED BY <3>1, <3>2 DEF Keeps
  <2> QED BY <2>1, <2>2
<1>11. CASE Retain
  <2>1. CASE step' = None
    BY <1>11, <2>1, GotoStep, RetainKinds, SMTT(30), ZenonT(30) DEF Keeps
  <2>2. CASE step' # None
    <3>1. /\ At("retain") /\ Keeps /\ prev' = exe /\ exe' = None /\ cfgPrev' = cfgPrev
          /\ step' = [step EXCEPT !.at = "stage"]
      BY <1>11, <2>2, RetainKinds, Zenon
    <3>2. step'.at = "stage" /\ step'.build = step.build /\ exe = proc.build /\ exe # None
      BY <3>1, GotoStep
    <3> QED BY <3>1, <3>2 DEF Keeps
  <2> QED BY <2>1, <2>2
<1>12. CASE Stage
  <2>1. CASE step' = None
    <3>1. /\ At("stage") /\ exe' = prev /\ prev' = None
          /\ UNCHANGED <<backup, cfg, proc, script, watch, installed>>
      BY <1>12, <2>1, GotoStep DEF Stage, Goto, GiveUp
    <3>2. cfg <= exe'.ver /\ exe' # None /\ exe' = proc'.build
      BY <3>1
    <3> QED BY <2>1, <3>1, <3>2
  <2>2. CASE step' # None
    <3>1. /\ At("stage") /\ step' = [step EXCEPT !.at = "exec"]
          /\ UNCHANGED <<exe, prev, backup, cfg, cfgPrev, proc, script, watch, installed>>
      BY <1>12, <2>2, Zenon DEF Stage, Goto, GiveUp
    <3>2. step'.at = "exec" /\ step'.build = step.build
      BY <3>1, GotoStep
    <3> QED BY <3>1, <3>2
  <2> QED BY <2>1, <2>2
<1>13. CASE ExecScript
  BY <1>13, GotoStep DEF ExecScript, Forget
<1>14. CASE RollbackExe
  <2>1. /\ At("rollback") /\ step' = None /\ exe' = prev /\ prev' = None /\ proc' = Starting(prev)
        /\ UNCHANGED <<backup, cfg, cfgPrev, script, watch>>
    BY <1>14, Zenon DEF RollbackExe
  <2>2. script = None /\ prev # None /\ cfg <= prev.ver
    BY <2>1
  <2> QED BY <2>1, <2>2
<1>15. CASE UpdateUnstaged
  <2>1. /\ At("update") /\ step' = None
        /\ UNCHANGED <<prev, cfg, cfgPrev, marker, proc, script, watch, installed>>
        /\ BackupBack
    BY <1>15, Zenon DEF UpdateUnstaged, volatile
  <2>2. CASE backup = None
    BY <2>1, <2>2 DEF BackupBack
  <2>3. CASE backup # None
    <3>1. exe' = backup /\ backup' = None /\ exe = None
      BY <2>1, <2>3, Zenon DEF BackupBack
    <3> QED BY <2>1, <2>3, <3>1
  <2> QED BY <2>2, <2>3
<1>16. CASE UpdateExec
  BY <1>16 DEF UpdateExec, Forget, files
<1>17. CASE ScriptNoDir \/ ScriptUnpack
  BY <1>17 DEF ScriptNoDir, ScriptUnpack, ScriptKeeps, volatile
<1>18. CASE ScriptRollback
  BY <1>18 DEF ScriptRollback, ScriptKeeps, volatile
<1>19. CASE ScriptInstall
  BY <1>19 DEF ScriptInstall, ScriptAt, ScriptKeeps, volatile
<1>20. CASE UpdateFail
  BY <1>20 DEF UpdateFail, BackupBack, ScriptAt, volatile
<1>21. CASE UpdateMove \/ UpdateInstall
  <2>1. CASE UpdateMove
    BY <2>1 DEF UpdateMove, ScriptAt, volatile
  <2>2. CASE UpdateInstall
    BY <2>2 DEF UpdateInstall, ScriptAt, volatile
  <2> QED BY <1>21, <2>1, <2>2
<1>22. CASE Watchdog
  <2>1. CASE awake = None /\ WatchLook
    <3>1. UNCHANGED <<prev, backup, cfg, cfgPrev, marker, proc, step, script, installed>>
      BY <2>1, Zenon DEF WatchLook, volatile
    <3>2. watching > 0 /\ watching' \in Nat /\ watching' < watching
      BY <2>1 DEF WatchLook
    <3>3. CASE UNCHANGED <<exe, awake>>
      BY <3>1, <3>2, <3>3
    <3>4. CASE ~UNCHANGED <<exe, awake>>
      <4>1. /\ exe' \in {None, exe} /\ awake' = [at |-> "restore", old |-> exe]
            /\ prev # None /\ script = None /\ proc = Down
        BY <2>1, <3>4 DEF WatchLook
      <4>2. step = None /\ awake'.at = "restore" /\ awake'.old = exe /\ awake' # None
        BY <4>1
      <4> QED BY <2>1, <3>1, <3>2, <4>1, <4>2
    <3> QED BY <3>3, <3>4
  <2>2. CASE WatchRestore
    BY <2>2 DEF WatchRestore, volatile
  <2>3. CASE WatchConfig
    BY <2>3 DEF WatchConfig, AwakeKeeps, Awaken, volatile
  <2> QED BY <1>22, <2>1, <2>2, <2>3 DEF Watchdog
<1>23. ASSUME NEW r \in Run, AbortOnly(r) PROVE Fits'
  BY <1>23 DEF AbortOnly, files
<1>24. ASSUME NEW r \in Run, hub_rollback(r) PROVE Fits'
  <2>1. /\ Running /\ step = None /\ linked /\ r = installed /\ prev # None
        /\ step' = [at |-> "rollback", run |-> r, build |-> prev]
        /\ UNCHANGED <<exe, prev, backup, marker, proc, script, watch, installed>>
        /\ \/ cfgPrev # None /\ cfg' = cfgPrev /\ cfgPrev' = None
           \/ UNCHANGED <<cfg, cfgPrev>> /\ cfgPrev = None
    BY <1>24, Zenon DEF hub_rollback, MayRollback
  <2>2. Restorable /\ exe # None /\ script = None
    BY <2>1
  <2>3. cfg' = cfgPrev /\ cfgPrev' = None /\ step'.at = "rollback"
    BY <2>1, <2>2
  <2> QED BY <2>1, <2>2, <2>3
<1>25. ASSUME NEW v \in Ver, perform_upgrade(v) PROVE Fits'
  BY <1>25 DEF perform_upgrade, volatile, history
<1>26. CASE UNCHANGED vars
  BY <1>26 DEF vars, files, volatile, history
<1> QED BY <1>1, <1>2, <1>3, <1>4, <1>5, <1>6, <1>7, <1>8, <1>9, <1>10, <1>11, <1>12, <1>13,
           <1>14, <1>15, <1>16, <1>17, <1>18, <1>19, <1>20, <1>21, <1>22, <1>23, <1>24, <1>25,
           <1>26 DEF Next, Quiet, Handler, Script

\* No build starts or runs on a config a newer one wrote ("the old binary must
\* not come up against a config only the newer build understands":
\* hub_rollback, hub_upgrade_script), however many watchdogs sleep, unless a
\* retained file was lost, was not put back or was put back by a watchdog that
\* woke while a later build was starting.
THEOREM OldBuildOldConfig == Spec => []ConfigFits
<1>1. Inv /\ Marks /\ ConfigSound /\ [Next]_vars => ConfigSound'
  BY StepConfig, LostStays DEF ConfigSound
<1>2. Inv /\ Marks /\ ConfigSound => ConfigFits
  BY Consts DEF ConfigSound, Fits, ConfigFits, Corrupt
<1> QED BY TraceInvariant, InitConfig, <1>1, <1>2, PTL DEF Spec
=============================================================================
