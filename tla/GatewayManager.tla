-------------------------- MODULE GatewayManager --------------------------
(***************************************************************************)
(* gateway/service.py: the program that starts, stops and reloads the      *)
(* algorithm processes and NGINX. Every invocation is a process of its own *)
(* (a manager); flock serialises them, a JSON file per service remembers   *)
(* the process it started. A manager may die at any step, a service may    *)
(* die at any moment, pids are used again by other programs, and the host  *)
(* may reboot, which starts pids and start times anew but keeps the files. *)
(***************************************************************************)
EXTENDS Integers, Sequences, FiniteSets

CONSTANTS
    Managers,    \* invocations of service.py that may overlap
    Services,    \* the names of --service
    Gateway,     \* the one of them that is NGINX
    Commands,    \* the invocations considered: [act, names]
    Pids,
    MaxTicks,    \* bound: processes started between two boots
    MaxEdits,    \* bound: how often config/server.json is edited
    MaxBoots,    \* bound: reboots
    BadConfigs,  \* versions of the configuration NGINX -t refuses
    Torn,        \* the content of a file truncated and not yet written
    None

Acts == {"start", "stop", "reload", "check", "run"}

ASSUME ManagerAssumption ==
    /\ Gateway \in Services
    /\ Commands \subseteq [act : Acts, names : Seq(Services)]
    /\ \A c \in Commands : c.names # << >> /\ (c.act = "run" => Len(c.names) = 1)
    /\ \A c \in Commands : c.act \in {"reload", "check"} => c.names = <<Gateway>>
    /\ {MaxTicks, MaxEdits, MaxBoots} \subseteq Nat /\ 0 \notin BadConfigs
    /\ None \notin Managers \cup Services \cup Pids

VARIABLES
    lock,      \* who holds control.lock
    record,    \* runtime/<service>.json: None, Torn or [pid, ticks]
    procs,     \* the process table
    clock,     \* the start time the next process gets
    boots,
    edition,   \* the version of config/server.json
    conf,      \* nginx.conf: the version it was rendered from
    mgr        \* the managers

hostVars == <<clock, boots, edition>>
vars == <<lock, record, procs, hostVars, conf, mgr>>

Ticks == 0 .. MaxTicks
Editions == 0 .. MaxEdits

(* mark: GPU_GATEWAY_PROCESS in its environment (for NGINX its binary and    *)
(* configuration); leader: leads its process group; known: its record was    *)
(* written completely (history, the properties read it).                     *)
Process == [mark : Services \cup {None}, ticks : Ticks, leader : BOOLEAN,
            state : {"runs", "zombie"}, known : BOOLEAN]
Record == [pid : Pids, ticks : Ticks]

(* at: where the manager stands, todo: the names left, cfg: the             *)
(* configuration it loaded, rec: live_state's answer or the new process.    *)
Manager == [at : {"idle", "locking", "look", "prepare", "check", "publish", "go",
                  "record", "recording", "poll", "kill", "await"},
            act : Acts, todo : Seq(Services), cfg : Editions, rec : Record \cup {None}]

(* No pid, record or version of the configuration is a marker.              *)
ASSUME MarkersAssumption ==
    /\ None \notin Record \cup Process \cup Nat
    /\ Torn \notin Record \cup {None}
    /\ BadConfigs \subseteq Nat

IdleManager == [at |-> "idle", act |-> "start", todo |-> << >>, cfg |-> 0, rec |-> None]

TypeOK ==
    /\ lock \in Managers \cup {None}
    /\ record \in [Services -> Record \cup {None, Torn}]
    /\ procs \in [Pids -> Process \cup {None}]
    /\ clock \in 0 .. MaxTicks + 1 /\ boots \in 0 .. MaxBoots /\ edition \in Editions
    /\ conf \in Editions \cup {None}
    /\ mgr \in [Managers -> Manager]
    /\ \A m \in Managers : lock = m <=> mgr[m].at \notin {"idle", "locking"}

Init ==
    /\ lock = None /\ record = [n \in Services |-> None] /\ procs = [p \in Pids |-> None]
    /\ clock = 0 /\ boots = 0 /\ edition = 0 /\ conf = None
    /\ mgr = [m \in Managers |-> IdleManager]

-----------------------------------------------------------------------------
(* Helpers.                                                                 *)

Name(m) == Head(mgr[m].todo)

Running(p) == procs[p] # None /\ procs[p].state = "runs"

(* The recorded process still is: same pid, same start time, no zombie.     *)
Alive(r) == Running(r.pid) /\ procs[r.pid].ticks = r.ticks

Goes(m, step) == mgr' = [mgr EXCEPT ![m].at = step]

(* On to the next name; with no name left the manager ends, whether or not   *)
(* failures were collected: they only make its exit status.                  *)
Turn(m) ==
    IF Len(mgr[m].todo) = 1
    THEN mgr' = [mgr EXCEPT ![m] = IdleManager] /\ lock' = None
    ELSE /\ mgr' = [mgr EXCEPT ![m].todo = Tail(@), ![m].rec = None, ![m].at = "look"]
         /\ UNCHANGED lock
Steps(m, step) == Goes(m, step) /\ UNCHANGED lock

(* A slip: a process that bears another name, or none, is taken for ours.   *)
LiveStateUnowned(n) ==
    IF record[n] = None THEN "stopped"
    ELSE IF record[n] = Torn THEN "error"
    ELSE IF ~Alive(record[n]) THEN "stopped"
    ELSE "live"

(* live_state(): a torn record raises JSONDecodeError, a process that does   *)
(* not bear the service's mark raises RuntimeError.                          *)
LiveState(n) ==
    IF record[n] = None THEN "stopped"
    ELSE IF record[n] = Torn THEN "error"
    ELSE IF ~Alive(record[n]) THEN "stopped"
    ELSE IF procs[record[n].pid].mark = n THEN "live"
    ELSE "error"

-----------------------------------------------------------------------------
(* main().                                                                  *)

(* The configuration is read before the lock is taken.                      *)
Invoke(m) ==
    /\ mgr[m].at = "idle"
    /\ \E c \in Commands :
         mgr' = [mgr EXCEPT ![m] = [at |-> "locking", act |-> c.act, todo |-> c.names,
                                    cfg |-> edition, rec |-> None]]
    /\ UNCHANGED <<lock, record, procs, hostVars, conf>>

(* A slip: the lock is shared.                                              *)
LockShared(m) ==
    /\ mgr[m].at = "locking"
    /\ lock' = m
    /\ Goes(m, IF mgr[m].act = "check" THEN "prepare" ELSE "look")
    /\ UNCHANGED <<record, procs, hostVars, conf>>

Lock(m) ==
    /\ mgr[m].at = "locking" /\ lock = None
    /\ lock' = m
    /\ Goes(m, IF mgr[m].act = "check" THEN "prepare" ELSE "look")
    /\ UNCHANGED <<record, procs, hostVars, conf>>

(* live_state() at the head of start(), stop(), reload and run.             *)
Look(m) ==
    /\ mgr[m].at = "look"
    /\ LET n == Name(m)
           wanted == IF mgr[m].act \in {"stop", "reload"} THEN "live" ELSE "stopped"
       IN  \/ /\ LiveState(n) = wanted
              /\ mgr' = [mgr EXCEPT ![m].at = IF mgr[m].act = "stop" THEN "kill" ELSE "prepare",
                                    ![m].rec = IF wanted = "live" THEN record[n] ELSE None]
              /\ UNCHANGED lock
           \/ LiveState(n) # wanted /\ Turn(m)
    /\ UNCHANGED <<record, procs, hostVars, conf>>

-----------------------------------------------------------------------------
(* command_for(): an algorithm's command may be refused (ValueError); NGINX  *)
(* is first given a configuration it accepts, prepare_gateway(). The         *)
(* candidate, nginx.pending.conf, is written anew by every manager before it  *)
(* is read: it is what its manager loaded, and no state of its own.          *)

CommandFor(m) ==
    /\ mgr[m].at = "prepare" /\ Name(m) # Gateway
    /\ (Steps(m, "go") \/ Turn(m))
    /\ UNCHANGED <<record, procs, hostVars, conf>>

(* A slip: the candidate is written over the configuration and then checked. *)
CheckInPlace(m) ==
    /\ mgr[m].at = "prepare" /\ Name(m) = Gateway
    /\ IF mgr[m].cfg \in BadConfigs THEN Turn(m) ELSE Turn(m) \/ Steps(m, "publish")
    /\ conf' = mgr[m].cfg
    /\ UNCHANGED <<record, procs, hostVars>>

(* The candidate is rendered, written and given to nginx -t; a missing       *)
(* secret, a full disk or the check ends it.                                 *)
CheckPending(m) ==
    /\ mgr[m].at = "prepare" /\ Name(m) = Gateway
    /\ \/ Turn(m)
       \/ mgr[m].cfg \notin BadConfigs /\ Steps(m, "publish")
    /\ UNCHANGED <<record, procs, hostVars, conf>>

(* os.replace(): the candidate becomes nginx.conf.                          *)
Publish(m) ==
    /\ mgr[m].at = "publish"
    /\ conf' = mgr[m].cfg
    /\ IF mgr[m].act = "check" THEN Turn(m) ELSE Steps(m, "go")
    /\ UNCHANGED <<record, procs, hostVars>>

-----------------------------------------------------------------------------
(* start() after command_for, and what reload and run do there.             *)

(* The kernel gives it any pid that is free, also one a manager looked at     *)
(* and is about to signal.                                                   *)
Spawns(p, n, leads) ==
    /\ procs[p] = None /\ clock <= MaxTicks
    /\ procs' = [procs EXCEPT ![p] = [mark |-> n, ticks |-> clock, leader |-> leads,
                                      state |-> "runs", known |-> FALSE]]
    /\ clock' = clock + 1
    /\ UNCHANGED <<boots, edition>>

(* Popen(start_new_session=True), or its OSError.                           *)
Popen(m) ==
    /\ mgr[m].at = "go" /\ mgr[m].act = "start"
    /\ \/ \E p \in Pids :
            /\ Spawns(p, Name(m), TRUE)
            /\ mgr' = [mgr EXCEPT ![m].at = "record", ![m].rec = [pid |-> p, ticks |-> clock]]
            /\ UNCHANGED lock
       \/ Turn(m) /\ UNCHANGED <<procs, hostVars>>
    /\ UNCHANGED <<record, conf>>

(* write_private(): opened and truncated first; the OSError of a full disk   *)
(* leaves the file so, and the process running.                              *)
Truncate(m) ==
    /\ mgr[m].at = "record"
    /\ record' = [record EXCEPT ![Name(m)] = Torn]
    /\ Goes(m, "recording")
    /\ UNCHANGED <<lock, procs, hostVars, conf>>

WriteRecord(m) ==
    /\ mgr[m].at = "recording"
    /\ \/ /\ record' = [record EXCEPT ![Name(m)] = mgr[m].rec]
          /\ procs' = [procs EXCEPT ![mgr[m].rec.pid].known = TRUE]
          /\ Steps(m, "poll")
       \/ Turn(m) /\ UNCHANGED <<record, procs>>
    /\ UNCHANGED <<hostVars, conf>>

(* poll(): reaps the process if it is dead already.                         *)
Poll(m) ==
    /\ mgr[m].at = "poll"
    /\ procs' = IF Running(mgr[m].rec.pid) THEN procs
                ELSE [procs EXCEPT ![mgr[m].rec.pid] = None]
    /\ Turn(m)
    /\ UNCHANGED <<record, hostVars, conf>>

(* reload: SIGHUP, or ProcessLookupError.                                   *)
Hup(m) ==
    /\ mgr[m].at = "go" /\ mgr[m].act = "reload"
    /\ Turn(m)
    /\ UNCHANGED <<record, procs, hostVars, conf>>

(* run: unlocks and becomes the service; nothing is recorded.               *)
Exec(m) ==
    /\ mgr[m].at = "go" /\ mgr[m].act = "run"
    /\ \E p \in Pids, leads \in BOOLEAN : Spawns(p, Name(m), leads)
    /\ lock' = None /\ mgr' = [mgr EXCEPT ![m] = IdleManager]
    /\ UNCHANGED <<record, conf>>

-----------------------------------------------------------------------------
(* stop().                                                                  *)

(* getpgid and killpg: what leads no group, or is gone, is not signalled.   *)
Kill(m) ==
    /\ mgr[m].at = "kill"
    /\ IF procs[mgr[m].rec.pid] # None /\ procs[mgr[m].rec.pid].leader
       THEN Steps(m, "await") ELSE Turn(m)
    /\ UNCHANGED <<record, procs, hostVars, conf>>

(* A slip: a shutdown that outlasts its deadline is reported as stopped.    *)
AwaitNoLonger(m) ==
    /\ mgr[m].at = "await"
    /\ Turn(m)
    /\ UNCHANGED <<record, procs, hostVars, conf>>

Await(m) ==
    /\ mgr[m].at = "await" /\ ~Alive(mgr[m].rec)
    /\ Turn(m)
    /\ UNCHANGED <<record, procs, hostVars, conf>>

(* The deadline of 30 seconds: RuntimeError; the service is left as it is.  *)
Overdue(m) ==
    /\ mgr[m].at = "await" /\ Alive(mgr[m].rec)
    /\ Turn(m)
    /\ UNCHANGED <<record, procs, hostVars, conf>>

-----------------------------------------------------------------------------
(* The surroundings.                                                        *)

(* A slip: a lock file, which outlives the manager that made it.            *)
DiesLocked(m) ==
    /\ mgr[m].at # "idle"
    /\ mgr' = [mgr EXCEPT ![m] = IdleManager]
    /\ UNCHANGED <<lock, record, procs, hostVars, conf>>

(* A manager is killed; the kernel releases its lock.                       *)
Dies(m) ==
    /\ mgr[m].at # "idle"
    /\ lock' = IF lock = m THEN None ELSE lock
    /\ mgr' = [mgr EXCEPT ![m] = IdleManager]
    /\ UNCHANGED <<record, procs, hostVars, conf>>

(* A process ends, by itself or by the signal, and is reaped: by its parent  *)
(* manager's poll while start() still holds it, by init otherwise.           *)
Ends(p) ==
    /\ Running(p)
    /\ procs' = [procs EXCEPT ![p].state = "zombie"]
    /\ UNCHANGED <<lock, record, hostVars, conf, mgr>>

Reaped(p) ==
    /\ procs[p] # None /\ procs[p].state = "zombie"
    /\ \A m \in Managers : mgr[m].at \in {"record", "recording", "poll"} => mgr[m].rec.pid # p
    /\ procs' = [procs EXCEPT ![p] = None]
    /\ UNCHANGED <<lock, record, hostVars, conf, mgr>>

(* A program of somebody else's, or a worker that inherited the mark of the  *)
(* service it belongs to.                                                    *)
Other(p) ==
    /\ \/ \E leads \in BOOLEAN : Spawns(p, None, leads)
       \/ \E q \in Pids : Running(q) /\ procs[q].mark # None /\ Spawns(p, procs[q].mark, FALSE)
    /\ UNCHANGED <<lock, record, conf, mgr>>

Edit ==
    /\ edition < MaxEdits
    /\ edition' = edition + 1
    /\ UNCHANGED <<lock, record, procs, clock, boots, conf, mgr>>

Reboot ==
    /\ boots < MaxBoots
    /\ boots' = boots + 1 /\ clock' = 0
    /\ procs' = [p \in Pids |-> None]
    /\ lock' = None /\ mgr' = [m \in Managers |-> IdleManager]
    /\ UNCHANGED <<record, edition, conf>>

Step(m) ==
    \/ Invoke(m) \/ Lock(m) \/ Look(m) \/ CommandFor(m) \/ CheckPending(m) \/ Publish(m)
    \/ Popen(m) \/ Truncate(m) \/ WriteRecord(m) \/ Poll(m) \/ Hup(m) \/ Exec(m)
    \/ Kill(m) \/ Await(m) \/ Overdue(m) \/ Dies(m)

Next ==
    \/ \E m \in Managers : Step(m)
    \/ \E p \in Pids : Ends(p) \/ Reaped(p) \/ Other(p)
    \/ Edit \/ Reboot

Spec == Init /\ [][Next]_vars

-----------------------------------------------------------------------------
(* Properties.                                                              *)

(* However managers overlap and die, pids are reused and the host reboots,   *)
(* no service runs twice among the processes whose record was written:       *)
(* start() finds the running one (live_state, flock).                        *)
OneKnownLeader ==
    \A p, q \in Pids :
        Running(p) /\ Running(q) /\ procs[p].known /\ procs[q].known
            /\ procs[p].mark = procs[q].mark => p = q

(* "stopped" is only reported of a service none of whose recorded processes  *)
(* runs: neither a stale record nor a shutdown past its deadline ends so.    *)
Reported(m) ==
    /\ mgr[m].act = "stop" /\ mgr'[m] # mgr[m]
    /\ \/ mgr[m].at = "look" /\ LiveState(Name(m)) = "stopped"
       \/ Await(m)
StoppedMeansGone ==
    [][\A m \in Managers : Reported(m) =>
         \A p \in Pids : ~(Running(p) /\ procs[p].known /\ procs[p].mark = Name(m))]_vars

(* stop() signals the group of a process that leads it and bears the         *)
(* service's mark, whatever a stale record names after a crash or a reboot   *)
(* (README: stopping acts only on the process group that was started). It    *)
(* does not look again before it signals, so one case is left: the process   *)
(* ended since the look, and one that started later got its pid.             *)
SignalsOnlyOwn ==
    [][\A m \in Managers : mgr[m].at = "kill" /\ mgr'[m].at = "await" =>
         LET hit == procs[mgr[m].rec.pid]
         IN  hit.leader /\ (hit.mark = Name(m) \/ hit.ticks > mgr[m].rec.ticks)]_vars

(* The configuration NGINX finds at a start or a reload is one nginx -t      *)
(* accepted, whichever manager was refused or died on the way to it          *)
(* (test_failed_configuration_check_retains_last_valid_gateway_configuration). *)
ConfChecked == conf \notin BadConfigs
=============================================================================
