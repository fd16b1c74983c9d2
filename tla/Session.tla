------------------------------- MODULE Session -------------------------------
(***************************************************************************)
(* The scripts around the engine: run_session.sh starts one session a day, *)
(* stop_session.sh and restart_session.sh end it by hand.                  *)
(*                                                                         *)
(* A session is a shell (shell), a helper process that holds the session   *)
(* lock for it (helper), and app.main (app), which holds the account's     *)
(* lock while it trades.  The three tell each other what they need by      *)
(* files with fixed names: the ready file, the helper's pid file and the   *)
(* engine's pid file.  Any number of starts, by cron or by hand, may       *)
(* overlap, and looking at the lock is done by taking it.                  *)
(***************************************************************************)
EXTENDS Naturals, FiniteSets

CONSTANTS
  Start,       \* runs of run_session.sh that can exist side by side
  NoStart,     \* no run
  MaxMishaps   \* how often something is killed, fails or loses its power

ASSUME StartAssumption == NoStart \notin Start /\ Start \cap {"free", "peek"} = {}
ASSUME MishapAssumption == MaxMishaps \in Nat

VARIABLES
  shell,     \* where each shell is
  helper,    \* where its lock helper is
  told,      \* helpers that SIGTERM was sent to
  app,       \* its app.main
  lock,      \* the session lock: free, taken for a look, or whose helper has it
  ready,     \* LOCK_READY_FILE: whose helper wrote it
  helperPid, \* LOCK_HELPER_PID_FILE
  appPid,    \* PID_FILE
  ctl,       \* where stop_session.sh or restart_session.sh is
  target,    \* the engine it found
  crossed,   \* a start took the ready file of another one, or a helper failed
  mishaps

shells  == <<shell, app>>
helpers == <<helper, told, lock>>
files   == <<ready, helperPid, appPid>>
control == <<ctl, target>>
ghosts  == <<crossed, mishaps>>
sessionVars == <<shells, helpers, files, control, ghosts>>

Pcs     == {"off", "wait", "saw_ready", "held", "running", "stopping", "exit", "remove_pid"}
Helpers == {"none", "try", "locked", "holding", "ending"}
Apps    == {"none", "trading"}
Locks   == {"free", "peek"} \cup Start
Ctls    == {"idle", "stop", "stop_remove", "restart"}

SessionTypeOK ==
  /\ shell \in [Start -> Pcs]
  /\ helper \in [Start -> Helpers]
  /\ told \subseteq Start
  /\ app \in [Start -> Apps]
  /\ lock \in Locks
  /\ {ready, helperPid, appPid, target} \subseteq Start \cup {NoStart}
  /\ ctl \in Ctls
  /\ crossed \in BOOLEAN
  /\ mishaps \in 0..MaxMishaps

SessionInit ==
  /\ shell = [s \in Start |-> "off"]
  /\ helper = [s \in Start |-> "none"]
  /\ told = {}
  /\ app = [s \in Start |-> "none"]
  /\ lock = "free"
  /\ ready = NoStart /\ helperPid = NoStart /\ appPid = NoStart
  /\ ctl = "idle" /\ target = NoStart
  /\ crossed = FALSE
  /\ mishaps = 0

-----------------------------------------------------------------------------
ShellAt(s, from, to) == shell[s] = from /\ shell' = [shell EXCEPT ![s] = to]
HelperAt(s, from, to) == helper[s] = from /\ helper' = [helper EXCEPT ![s] = to]

(* inspect_lock takes the lock to see whether it is free, and gives it     *)
(* back in a step of its own: whoever tries in between finds it taken.     *)
(* The helper looks before and after it tries, a refused shell and the     *)
(* scripts look, and anybody may ask for the status.                       *)
LooksAtLock ==
  /\ \/ lock = "free" /\ lock' = "peek"
     \/ lock = "peek" /\ lock' = "free"
  /\ UNCHANGED <<shells, helper, told, files, control, ghosts>>

(* Mutant: the ready file of an earlier start is left where it is. *)
AcquireLock_KeepsReady(s) ==
  /\ ShellAt(s, "off", "wait")
  /\ helper[s] = "none" /\ app[s] = "none"
  /\ helper' = [helper EXCEPT ![s] = "try"]
  /\ told' = told \ {s}
  /\ helperPid' = s
  /\ UNCHANGED <<app, lock, ready, appPid, control, ghosts>>

(* acquire_lock: the ready file is removed, the helper started and its pid *)
(* written over whatever the pid file said.  The processes of an earlier   *)
(* run of the same number are gone.                                        *)
AcquireLock(s) ==
  /\ ShellAt(s, "off", "wait")
  /\ helper[s] = "none" /\ app[s] = "none"
  /\ helper' = [helper EXCEPT ![s] = "try"]
  /\ told' = told \ {s}
  /\ ready' = NoStart
  /\ helperPid' = s
  /\ UNCHANGED <<app, lock, appPid, control, ghosts>>

(* The loop finds a ready file.  Its name is the same for all starts, so   *)
(* that it may be the one of another start that is under way.              *)
SeesReady(s) ==
  /\ ready # NoStart
  /\ ShellAt(s, "wait", "saw_ready")
  /\ crossed' = (crossed \/ (ready # s /\ helper[ready] # "none"))
  /\ UNCHANGED <<app, helpers, files, control, mishaps>>

TakesReady(s) ==
  /\ ShellAt(s, "saw_ready", "held")
  /\ ready' = NoStart
  /\ UNCHANGED <<app, helpers, helperPid, appPid, control, ghosts>>

(* The helper is gone: the shell exits, with no cleanup, for the trap is   *)
(* not set yet.                                                            *)
Refused(s) ==
  /\ helper[s] = "none"
  /\ ShellAt(s, "wait", "off")
  /\ UNCHANGED <<app, helpers, files, control, ghosts>>

(* Fifty polls without a ready file. *)
TimesOut(s) ==
  /\ ShellAt(s, "wait", "off")
  /\ UNCHANGED <<app, helpers, files, control, ghosts>>

(* The trap is set and app.main forked, which takes the account's lock     *)
(* before anything else, or exits; its pid is written in either case.      *)
Forks(s) ==
  /\ ShellAt(s, "held", "running")
  /\ app' = IF \E t \in Start : app[t] = "trading" THEN app ELSE [app EXCEPT ![s] = "trading"]
  /\ appPid' = s
  /\ UNCHANGED <<helpers, ready, helperPid, control, ghosts>>

(* A command fails under set -e, before the fork or after it: the trap     *)
(* runs, and an engine that was forked lives on.                           *)
Aborts(s) ==
  /\ ShellAt(s, "held", "exit") \/ ShellAt(s, "running", "exit")
  /\ UNCHANGED <<app, helpers, files, control, ghosts>>

(* The engine has exited: at the startup check the shell exits at once,    *)
(* later it goes through the stop.  Or it is the time to stop.             *)
EngineGone(s) ==
  /\ app[s] = "none"
  /\ ShellAt(s, "running", "exit") \/ ShellAt(s, "running", "stopping")
  /\ UNCHANGED <<app, helpers, files, control, ghosts>>

StopTime(s) ==
  /\ ShellAt(s, "running", "stopping")
  /\ UNCHANGED <<app, helpers, files, control, ghosts>>

(* The pid file is read once more, and what it names is ended. *)
Stops(s) ==
  /\ ShellAt(s, "stopping", "exit")
  /\ LET pid == IF appPid # NoStart THEN appPid ELSE s
     IN app' = [app EXCEPT ![pid] = "none"]
  /\ UNCHANGED <<helpers, ready, helperPid, appPid, control, ghosts>>

(* SIGTERM at a helper: it ends at its next heartbeat, but at once where   *)
(* its handler is not installed yet, and its lock goes with it.            *)
Terminate(h) ==
  \/ /\ helper[h] \in {"try", "locked"}
     /\ helper' = [helper EXCEPT ![h] = "none"]
     /\ lock' = IF lock = h THEN "free" ELSE lock
     /\ UNCHANGED told
  \/ /\ helper[h] \notin {"none", "try"}
     /\ told' = told \cup {h}
     /\ UNCHANGED <<helper, lock>>
  \/ /\ helper[h] = "none"
     /\ UNCHANGED helpers

(* The trap: release_lock tells the helper the pid file names, which may   *)
(* be the one of a start under way that has written its own over it; then  *)
(* the engine's pid file goes.                                             *)
ReleasesLock(s) ==
  /\ ShellAt(s, "exit", "remove_pid")
  /\ ready' = NoStart
  /\ IF helperPid # NoStart THEN Terminate(helperPid) ELSE UNCHANGED helpers
  /\ helperPid' = NoStart
  /\ UNCHANGED <<app, appPid, control, ghosts>>

RemovesPid(s) ==
  /\ ShellAt(s, "remove_pid", "off")
  /\ appPid' = NoStart
  /\ UNCHANGED <<app, helpers, ready, helperPid, control, ghosts>>

-----------------------------------------------------------------------------
(* The helper: hold_lock tries once, and exits if the lock is taken. *)
Tries(s) ==
  /\ \/ lock = "free" /\ HelperAt(s, "try", "locked") /\ lock' = s
     \/ lock # "free" /\ HelperAt(s, "try", "none") /\ UNCHANGED lock
  /\ UNCHANGED <<shells, told, files, control, ghosts>>

(* The metadata is written, then the ready file. *)
Announces(s) ==
  /\ HelperAt(s, "locked", "holding")
  /\ ready' = s
  /\ UNCHANGED <<shells, told, lock, helperPid, appPid, control, ghosts>>

(* Mutant: the helper waits for its signal only. *)
Notices_SignalOnly(s) ==
  /\ s \in told
  /\ HelperAt(s, "holding", "ending")
  /\ UNCHANGED <<shells, told, lock, files, control, ghosts>>

(* Every five seconds: a stop was requested, or the shell does not exist   *)
(* any more.                                                               *)
Notices(s) ==
  /\ s \in told \/ shell[s] = "off"
  /\ HelperAt(s, "holding", "ending")
  /\ UNCHANGED <<shells, told, lock, files, control, ghosts>>

(* The finally clause of hold_lock. *)
Unlocks(s) ==
  /\ HelperAt(s, "ending", "none")
  /\ ready' = NoStart
  /\ lock' = "free"
  /\ UNCHANGED <<shells, told, helperPid, appPid, control, ghosts>>

-----------------------------------------------------------------------------
(* app.main ends, or the account's owner ends it. *)
EngineEnds(s) ==
  /\ app[s] # "none"
  /\ app' = [app EXCEPT ![s] = "none"]
  /\ UNCHANGED <<shell, helpers, files, control, ghosts>>

-----------------------------------------------------------------------------
(* stop_session.sh and restart_session.sh find the engine by its pid file, *)
(* or, where that is missing, by the metadata of the lock, which may name  *)
(* it or, after an update that a heartbeat has overwritten, may not.       *)
MayName(s) == appPid = s \/ appPid = NoStart

FindsEngine(s) ==
  /\ ctl = "idle"
  /\ MayName(s) /\ app[s] # "none"
  /\ ctl' \in {"stop", "restart"} /\ target' = s
  /\ UNCHANGED <<shells, helpers, files, ghosts>>

(* The pid file names no process: stop removes it. *)
RemovesStale ==
  /\ ctl = "idle"
  /\ appPid # NoStart /\ app[appPid] = "none"
  /\ appPid' = NoStart
  /\ UNCHANGED <<shells, helpers, ready, helperPid, control, ghosts>>

(* stop: SIGTERM, and SIGKILL after fifteen seconds. *)
StopsByHand ==
  /\ ctl = "stop" /\ ctl' = "stop_remove"
  /\ app' = [app EXCEPT ![target] = "none"]
  /\ UNCHANGED <<shell, helpers, ready, helperPid, appPid, target, ghosts>>

RemovesByHand ==
  /\ ctl = "stop_remove" /\ ctl' = "idle"
  /\ target' = NoStart
  /\ appPid' = NoStart
  /\ UNCHANGED <<shells, helpers, ready, helperPid, ghosts>>

(* restart: SIGTERM only, and it gives up on an engine that stays.  Else   *)
(* it looks at the lock until that is free and becomes run_session.sh: a   *)
(* start like any other, which is AcquireLock.                             *)
RestartTerms ==
  /\ ctl = "restart" /\ ctl' = "idle"
  /\ app' \in {app, [app EXCEPT ![target] = "none"]}
  /\ target' = NoStart
  /\ UNCHANGED <<shell, helpers, ready, helperPid, appPid, ghosts>>

-----------------------------------------------------------------------------
Mishap == mishaps < MaxMishaps /\ mishaps' = mishaps + 1

(* The shell is killed: no trap runs, and its engine lives on. *)
Killed(s) ==
  /\ Mishap
  /\ shell[s] # "off"
  /\ shell' = [shell EXCEPT ![s] = "off"]
  /\ UNCHANGED <<app, helpers, files, control, crossed>>

(* A heartbeat cannot be written (the disk is full, say): hold_lock raises *)
(* and releases the lock under its session.                                *)
HeartbeatFails(s) ==
  /\ Mishap
  /\ HelperAt(s, "holding", "ending")
  /\ crossed' = TRUE
  /\ UNCHANGED <<shells, told, lock, files, control>>

(* Every process is gone, every file stays. *)
PowerFails ==
  /\ Mishap
  /\ shell' = [s \in Start |-> "off"]
  /\ helper' = [s \in Start |-> "none"]
  /\ told' = {}
  /\ app' = [s \in Start |-> "none"]
  /\ lock' = "free"
  /\ ctl' = "idle" /\ target' = NoStart
  /\ crossed' = FALSE
  /\ UNCHANGED files

-----------------------------------------------------------------------------
ShellEnds(s) == EngineGone(s) \/ Stops(s) \/ ReleasesLock(s) \/ RemovesPid(s)

ShellStep(s) ==
  \/ AcquireLock(s) \/ SeesReady(s) \/ TakesReady(s) \/ Refused(s) \/ TimesOut(s)
  \/ Forks(s) \/ Aborts(s) \/ StopTime(s) \/ ShellEnds(s)

HelperStep(s) == Tries(s) \/ Announces(s) \/ Notices(s) \/ Unlocks(s)

ControlStep ==
  \/ \E s \in Start : FindsEngine(s)
  \/ RemovesStale \/ StopsByHand \/ RemovesByHand \/ RestartTerms \/ LooksAtLock

SessionNext ==
  \/ \E s \in Start : \/ ShellStep(s) \/ HelperStep(s)
                      \/ EngineEnds(s) \/ Killed(s) \/ HeartbeatFails(s)
  \/ ControlStep
  \/ PowerFails

SessionSpec == SessionInit /\ [][SessionNext]_sessionVars

(* The helper wakes up every five seconds, and so does the shell that      *)
(* watches its engine; its trap waits for nothing without a bound.  No     *)
(* engine is assumed to end, and nobody to start, stop or look.            *)
Fairness == \A s \in Start : WF_sessionVars(HelperStep(s)) /\ WF_sessionVars(ShellEnds(s))

SessionFairSpec == SessionSpec /\ Fairness

-----------------------------------------------------------------------------
InSession(s) == shell[s] \in {"held", "running", "stopping"}

(* "Acquires a single-instance fcntl lock (prevents duplicate runs)"       *)
(* (run_session.sh:9).  It does as long as no two starts mix up their      *)
(* ready files and no helper fails: then a session is alone, its helper    *)
(* has the lock, and what it ends at the stop time is its own engine -- in *)
(* spite of files left by a power failure, of starts that are refused or   *)
(* give up, and of stops by hand.                                          *)
OneSession ==
  ~crossed =>
    \A s \in Start : InSession(s) =>
      /\ lock = s
      /\ \A t \in Start : InSession(t) => t = s
      /\ shell[s] = "stopping" => appPid \in {s, NoStart}

(* What restart_session.sh waits for: once its engine or its shell is      *)
(* gone, a session gives the lock back -- even if another start has        *)
(* overwritten the helper's pid, so that release_lock finds nobody to tell.*)
LockComesFree ==
  \A s \in Start :
    lock = s /\ (shell[s] = "off" \/ (shell[s] = "running" /\ app[s] = "none")) ~> lock # s

=============================================================================
