--------------------------- MODULE Gateway_proofs ---------------------------
(* Proofs about the gateway.  GatewayManager: for any managers, services    *)
(* and pids, any commands and any number of edits, boots and processes.     *)
(* GatewayRoutes: for any set of requests and any number of slots a         *)
(* service.                                                                 *)
EXTENDS GatewayManager, GatewayRoutes, SequenceTheorems, FiniteSetTheorems, TLAPS

-----------------------------------------------------------------------------
(* GatewayManager: the inductive invariant.                                 *)

(* No process whose record was written runs for the service.                *)
NoneKnown(n) == \A p \in Pids : Running(p) /\ procs[p].known => procs[p].mark # n

(* The record of a service is that of the one process known to run for it.  *)
Recorded ==
    \A p \in Pids : Running(p) /\ procs[p].known =>
        /\ procs[p].mark \in Services
        /\ record[procs[p].mark] = [pid |-> p, ticks |-> procs[p].ticks]

(* A start that found nothing running still finds nothing.                  *)
Starts(d) ==
    d.at \in {"prepare", "publish", "go", "record", "recording"} /\ d.act = "start" =>
        NoneKnown(Head(d.todo))

(* The process about to be recorded is the one that was started.            *)
Spawned(d) ==
    d.at \in {"record", "recording", "poll"} =>
        /\ d.act = "start" /\ d.rec \in Record
        /\ procs[d.rec.pid] # None /\ procs[d.rec.pid].mark = Head(d.todo)
        /\ procs[d.rec.pid].ticks = d.rec.ticks

(* Every process started before the next one does.                          *)
Dated == \A p \in Pids : procs[p] # None => procs[p].ticks < clock

(* The process about to be signalled is the recorded one, is gone, or       *)
(* started later.                                                           *)
Stops(d) ==
    d.at \in {"kill", "await"} =>
        /\ d.act = "stop" /\ d.rec \in Record /\ d.rec = record[Head(d.todo)]
        /\ d.at = "kill" /\ procs[d.rec.pid] # None =>
              procs[d.rec.pid].mark = Head(d.todo) \/ procs[d.rec.pid].ticks > d.rec.ticks
        /\ d.at = "kill" => d.rec.ticks < clock

(* What a manager in state d relies on.                                     *)
Sound(d) ==
    /\ d.at # "idle" => d.todo # << >>
    /\ Starts(d) /\ Spawned(d) /\ Stops(d)
    /\ d.at = "publish" => d.cfg \notin BadConfigs

Inv ==
    /\ TypeOK
    /\ Recorded
    /\ Dated
    /\ ConfChecked
    /\ \A m \in Managers : Sound(mgr[m])

(* No other manager is past the lock.                                       *)
LEMMA Alone ==
    ASSUME TypeOK, NEW m \in Managers, mgr[m].at \notin {"idle", "locking"},
           NEW k \in Managers, k # m
    PROVE  mgr[k].at \in {"idle", "locking"}
  BY DEF TypeOK

(* A manager before the lock relies on nothing but the names it was given.  *)
LEMMA Outside ==
    ASSUME NEW d, d.at \in {"idle", "locking"}
    PROVE  Sound(d) <=> (d.at # "idle" => d.todo # << >>)
  BY DEF Sound, Starts, Spawned, Stops

(* A manager moves to state d, with the lock kept, taken or released.       *)
LockFollows(m, d) ==
    \/ lock' = lock /\ (d.at \in {"idle", "locking"} <=> mgr[m].at \in {"idle", "locking"})
    \/ lock = None /\ lock' = m /\ d.at \notin {"idle", "locking"}
    \/ lock' = (IF lock = m THEN None ELSE lock) /\ d.at \in {"idle", "locking"}

(* Every step of a manager keeps the types.                                 *)
LEMMA TypeMoves ==
    ASSUME TypeOK, NEW m \in Managers, NEW d \in Manager, mgr' = [mgr EXCEPT ![m] = d],
           LockFollows(m, d),
           record' \in [Services -> Record \cup {None, Torn}],
           procs' \in [Pids -> Process \cup {None}],
           clock' \in 0 .. MaxTicks + 1, UNCHANGED <<boots, edition>>,
           conf' \in Editions \cup {None}
    PROVE  TypeOK' /\ mgr'[m] = d /\ \A k \in Managers \ {m} : mgr'[k] = mgr[k]
<1>1. mgr' \in [Managers -> Manager] /\ mgr'[m] = d /\ \A k \in Managers \ {m} : mgr'[k] = mgr[k]
  BY DEF TypeOK
<1>2. lock' \in Managers \cup {None}
  BY DEF TypeOK, LockFollows
<1>3. \A k \in Managers : lock' = k <=> mgr'[k].at \notin {"idle", "locking"}
  BY <1>1, ManagerAssumption DEF TypeOK, LockFollows
<1> QED
  BY <1>1, <1>2, <1>3 DEF TypeOK

(* ... and nothing else changes: what the others rely on is as it was.      *)
LEMMA Moves ==
    ASSUME Inv, NEW m \in Managers, NEW d \in Manager, mgr' = [mgr EXCEPT ![m] = d],
           LockFollows(m, d), UNCHANGED <<record, procs, hostVars>>,
           conf' \in Editions \cup {None}, ConfChecked', Sound(d)
    PROVE  Inv'
<1> USE DEF Inv
<1>1. TypeOK' /\ mgr'[m] = d /\ \A k \in Managers \ {m} : mgr'[k] = mgr[k]
  <2>1. /\ record' \in [Services -> Record \cup {None, Torn}]
        /\ procs' \in [Pids -> Process \cup {None}]
        /\ clock' \in 0 .. MaxTicks + 1 /\ UNCHANGED <<boots, edition>>
    BY DEF TypeOK, hostVars
  <2> QED
    BY <2>1, TypeMoves
<1>2. \A e : Sound(e)' <=> Sound(e)
  BY DEF Sound, Starts, Spawned, Stops, NoneKnown, Running, hostVars
<1>3. \A k \in Managers : Sound(mgr'[k])
  BY <1>1
<1>4. \A k \in Managers : Sound(mgr[k])'
  BY <1>2, <1>3
<1>5. Recorded' /\ Dated'
  BY DEF Recorded, Running, Dated, hostVars
<1> QED
  BY <1>1, <1>4, <1>5

(* A manager's turn ends: it goes on to its next name, or it is done.       *)
LEMMA TurnEnds ==
    ASSUME TypeOK, NEW m \in Managers, mgr[m].at \notin {"idle", "locking"},
           mgr[m].todo # << >>, Turn(m)
    PROVE  \E d \in Manager :
              /\ mgr' = [mgr EXCEPT ![m] = d]
              /\ \/ d.at = "idle" /\ lock = m /\ lock' = None
                 \/ d.at = "look" /\ d.todo # << >> /\ UNCHANGED lock
<1>1. lock = m /\ mgr[m] \in Manager /\ mgr[m].todo \in Seq(Services)
  BY DEF TypeOK, Manager
<1>2. CASE Len(mgr[m].todo) = 1
  <2>1. IdleManager \in Manager /\ IdleManager.at = "idle"
    BY ManagerAssumption DEF IdleManager, Manager, Acts, Editions
  <2> QED
    BY <1>1, <1>2, <2>1 DEF Turn
<1>3. CASE Len(mgr[m].todo) # 1
  <2> DEFINE d == [mgr[m] EXCEPT !.todo = Tail(@), !.rec = None, !.at = "look"]
  <2>1. Tail(mgr[m].todo) \in Seq(Services) /\ Tail(mgr[m].todo) # << >>
    <3> DEFINE t == Tail(mgr[m].todo)
    <3>1. t \in Seq(Services) /\ Len(t) = Len(mgr[m].todo) - 1 /\ Len(mgr[m].todo) \in Nat \ {0}
      BY <1>1
    <3> HIDE DEF t
    <3>2. Len(t) # 0
      BY <1>3, <3>1
    <3>3. t # << >>
      <4>1. Len(<< >>) = 0
        OBVIOUS
      <4> QED
        BY <3>2, <4>1
    <3> QED
      BY <3>1, <3>3 DEF t
  <2>2. d \in Manager /\ d.at = "look" /\ d.todo # << >>
    BY <1>1, <2>1 DEF Manager
  <2>3. mgr' = [mgr EXCEPT ![m] = d] /\ UNCHANGED lock
    BY <1>3 DEF Turn
  <2> QED
    BY <2>2, <2>3
<1> QED
  BY <1>2, <1>3

(* ... and with that it relies on nothing but the names left.               *)
LEMMA TurnMoves ==
    ASSUME Inv, NEW m \in Managers, mgr[m].at \notin {"idle", "locking"}, Turn(m),
           UNCHANGED <<record, procs, hostVars>>, conf' \in Editions \cup {None}, ConfChecked'
    PROVE  Inv'
<1>1. mgr[m].todo # << >>
  BY DEF Inv, Sound
<1>2. PICK d \in Manager :
        /\ mgr' = [mgr EXCEPT ![m] = d]
        /\ \/ d.at = "idle" /\ lock = m /\ lock' = None
           \/ d.at = "look" /\ d.todo # << >> /\ UNCHANGED lock
  BY <1>1, TurnEnds DEF Inv
<1>3. Sound(d)
  BY <1>2 DEF Sound, Starts, Spawned, Stops
<1> QED
  BY <1>2, <1>3, Moves DEF LockFollows

(* A manager takes a step and keeps the lock.                               *)
LEMMA StepMoves ==
    ASSUME Inv, NEW m \in Managers, mgr[m].at \notin {"idle", "locking"},
           NEW step, Steps(m, step),
           step \in {"look", "prepare", "check", "publish", "go", "record", "recording", "poll",
                     "kill", "await"},
           UNCHANGED <<record, procs, hostVars>>, conf' \in Editions \cup {None}, ConfChecked',
           Sound([mgr[m] EXCEPT !.at = step])
    PROVE  Inv'
<1>1. mgr[m] \in Manager
  BY DEF Inv, TypeOK
<1>2. [mgr[m] EXCEPT !.at = step] \in Manager /\ [mgr[m] EXCEPT !.at = step].at = step
  BY <1>1 DEF Manager
<1>3. mgr' = [mgr EXCEPT ![m] = [mgr[m] EXCEPT !.at = step]]
  BY DEF Steps, Goes
<1> QED
  BY <1>2, <1>3, Moves DEF Steps, LockFollows

-----------------------------------------------------------------------------
(* Every step of a manager keeps the invariant.                             *)

(* The steps in which nothing but the manager and the lock changes.         *)
LEMMA QuietInv ==
    ASSUME Inv, NEW m \in Managers,
           \/ Invoke(m) \/ Lock(m) \/ Look(m) \/ CommandFor(m) \/ CheckPending(m) \/ Publish(m)
           \/ Hup(m) \/ Kill(m) \/ Await(m) \/ Overdue(m) \/ Dies(m)
    PROVE  Inv'
<1> USE DEF Inv
<1>1. mgr[m] \in Manager /\ Sound(mgr[m])
  BY DEF TypeOK
<1>2. conf \in Editions \cup {None}
  BY DEF TypeOK
<1>3. CASE Invoke(m)
  <2>1. PICK c \in Commands :
          mgr' = [mgr EXCEPT ![m] = [at |-> "locking", act |-> c.act, todo |-> c.names,
                                     cfg |-> edition, rec |-> None]]
    BY <1>3 DEF Invoke
  <2> DEFINE d == [at |-> "locking", act |-> c.act, todo |-> c.names, cfg |-> edition, rec |-> None]
  <2>2. c.act \in Acts /\ c.names \in Seq(Services) /\ c.names # << >> /\ edition \in Editions
    BY ManagerAssumption DEF TypeOK
  <2>3. d \in Manager /\ d.at = "locking" /\ d.todo # << >>
    BY <2>2 DEF Manager
  <2>4. Sound(d)
    BY <2>3, Outside
  <2> HIDE DEF d
  <2> QED
    BY <1>2, <1>3, <2>1, <2>3, <2>4, Moves DEF Invoke, d, ConfChecked, LockFollows
<1>4. CASE Lock(m)
  <2> DEFINE d == [mgr[m] EXCEPT !.at = IF mgr[m].act = "check" THEN "prepare" ELSE "look"]
  <2>1. mgr' = [mgr EXCEPT ![m] = d] /\ lock = None /\ lock' = m
    BY <1>4 DEF Lock, Goes
  <2>2. /\ d \in Manager /\ d.at = (IF mgr[m].act = "check" THEN "prepare" ELSE "look")
        /\ d.todo = mgr[m].todo /\ d.act = mgr[m].act
    BY <1>1 DEF Manager
  <2>3. mgr[m].todo # << >>
    BY <1>1, <1>4 DEF Lock, Sound
  <2> HIDE DEF d
  <2>4. Sound(d)
    BY <2>2, <2>3 DEF Sound, Starts, Spawned, Stops
  <2> QED
    BY <1>2, <1>4, <2>1, <2>2, <2>4, Moves DEF Lock, ConfChecked, LockFollows
<1>5. CASE Look(m)
  <2>1. CASE Turn(m)
    BY <1>2, <1>5, <2>1, TurnMoves DEF Look, ConfChecked
  <2> DEFINE n == Name(m)
             wanted == IF mgr[m].act \in {"stop", "reload"} THEN "live" ELSE "stopped"
             d == [mgr[m] EXCEPT !.at = IF mgr[m].act = "stop" THEN "kill" ELSE "prepare",
                                 !.rec = IF wanted = "live" THEN record[n] ELSE None]
  <2>2. CASE /\ LiveState(n) = wanted /\ UNCHANGED lock
             /\ mgr' = [mgr EXCEPT ![m].at = IF mgr[m].act = "stop" THEN "kill" ELSE "prepare",
                                   ![m].rec = IF wanted = "live" THEN record[n] ELSE None]
    <3>1. mgr[m].todo # << >> /\ n \in Services /\ n = Head(mgr[m].todo)
      BY <1>1, <1>5 DEF Look, Sound, Manager, Name
    <3>2. wanted = "live" => /\ record[n] \in Record /\ procs[record[n].pid].mark = n
                             /\ record[n].ticks < clock
      BY <2>2, <3>1 DEF LiveState, TypeOK, Alive, Running, Dated, Record
    <3>3. /\ d \in Manager /\ d.at = (IF mgr[m].act = "stop" THEN "kill" ELSE "prepare")
          /\ d.act = mgr[m].act /\ d.todo = mgr[m].todo
          /\ d.rec = (IF wanted = "live" THEN record[n] ELSE None)
      BY <1>1, <3>2 DEF Manager
    <3>4. mgr' = [mgr EXCEPT ![m] = d]
      BY <2>2
    <3>5. mgr[m].act = "start" => NoneKnown(n)
      <4> SUFFICES ASSUME mgr[m].act = "start", NEW p \in Pids, Running(p), procs[p].known,
                          procs[p].mark = n
                   PROVE  FALSE
        BY DEF NoneKnown
      <4>1. LiveState(n) = "stopped"
        BY <2>2
      <4>2. record[n] = [pid |-> p, ticks |-> procs[p].ticks]
        BY DEF Recorded
      <4>3. record[n] # None /\ record[n] # Torn
        BY <4>2, <3>1, MarkersAssumption DEF TypeOK, Process, Record, Running
      <4>4. Alive(record[n])
        BY <4>2 DEF Alive
      <4> QED
        BY <4>1, <4>3, <4>4 DEF LiveState
    <3> HIDE DEF d
    <3>6. Sound(d)
      BY <3>1, <3>2, <3>3, <3>5 DEF Sound, Starts, Spawned, Stops
    <3> QED
      BY <1>2, <1>5, <2>2, <3>3, <3>4, <3>6, Moves DEF Look, ConfChecked, LockFollows
  <2> QED
    BY <1>5, <2>1, <2>2 DEF Look
<1>6. CASE CommandFor(m)
  <2>1. Starts(mgr[m]) /\ mgr[m].todo # << >>
    BY <1>1, <1>6 DEF CommandFor, Sound
  <2>2. Sound([mgr[m] EXCEPT !.at = "go"])
    BY <1>1, <1>6, <2>1 DEF CommandFor, Manager, Sound, Starts, Spawned, Stops
  <2> QED
    BY <1>2, <1>6, <2>2, TurnMoves, StepMoves DEF CommandFor, ConfChecked
<1>7. CASE CheckPending(m)
  <2>1. Starts(mgr[m]) /\ mgr[m].todo # << >>
    BY <1>1, <1>7 DEF CheckPending, Sound
  <2>2. mgr[m].cfg \notin BadConfigs => Sound([mgr[m] EXCEPT !.at = "publish"])
    BY <1>1, <1>7, <2>1 DEF CheckPending, Manager, Sound, Starts, Spawned, Stops
  <2> QED
    BY <1>2, <1>7, <2>2, TurnMoves, StepMoves DEF CheckPending, ConfChecked
<1>8. CASE Publish(m)
  <2>1. Starts(mgr[m]) /\ mgr[m].todo # << >> /\ mgr[m].cfg \notin BadConfigs
    BY <1>1, <1>8 DEF Publish, Sound
  <2>2. conf' \in Editions \cup {None} /\ ConfChecked'
    BY <1>1, <1>8, <2>1 DEF Publish, Manager, ConfChecked
  <2>3. Sound([mgr[m] EXCEPT !.at = "go"])
    BY <1>1, <1>8, <2>1 DEF Publish, Manager, Sound, Starts, Spawned, Stops
  <2> QED
    BY <1>8, <2>2, <2>3, TurnMoves, StepMoves DEF Publish
<1>9. CASE Hup(m) \/ Await(m) \/ Overdue(m)
  BY <1>2, <1>9, TurnMoves DEF Hup, Await, Overdue, ConfChecked
<1>10. CASE Kill(m)
  <2>1. Stops(mgr[m]) /\ mgr[m].todo # << >>
    BY <1>1, <1>10 DEF Kill, Sound
  <2>2. Sound([mgr[m] EXCEPT !.at = "await"])
    BY <1>1, <1>10, <2>1 DEF Kill, Manager, Sound, Starts, Spawned, Stops
  <2> QED
    BY <1>2, <1>10, <2>2, TurnMoves, StepMoves DEF Kill, ConfChecked
<1>11. CASE Dies(m)
  <2>1. IdleManager \in Manager /\ IdleManager.at = "idle"
    BY ManagerAssumption DEF IdleManager, Manager, Acts, Editions
  <2>2. Sound(IdleManager)
    BY <2>1, Outside
  <2> QED
    BY <1>2, <1>11, <2>1, <2>2, Moves DEF Dies, ConfChecked, LockFollows
<1> QED
  BY <1>3, <1>4, <1>5, <1>6, <1>7, <1>8, <1>9, <1>10, <1>11

(* The process table moves on: no process becomes known, and those a manager *)
(* in state e is about to record or to signal keep their marks.              *)
NoneBecomesKnown ==
    \A p \in Pids : (Running(p) /\ procs[p].known)' =>
        /\ Running(p) /\ procs[p].known
        /\ procs'[p].mark = procs[p].mark /\ procs'[p].ticks = procs[p].ticks

Keeps(e) ==
    /\ e.at \in {"record", "recording", "poll"} =>
          /\ procs'[e.rec.pid] # None /\ procs'[e.rec.pid].mark = procs[e.rec.pid].mark
          /\ procs'[e.rec.pid].ticks = procs[e.rec.pid].ticks
    /\ e.at = "kill" /\ procs'[e.rec.pid] # None =>
          \/ /\ procs[e.rec.pid] # None /\ procs'[e.rec.pid].mark = procs[e.rec.pid].mark
             /\ procs'[e.rec.pid].ticks = procs[e.rec.pid].ticks
          \/ procs'[e.rec.pid].ticks = clock

(* The clock moves on, and with it the processes that are new.              *)
Dates ==
    /\ clock' \in {clock, clock + 1}
    /\ \A p \in Pids : procs'[p] # None =>
          \/ procs[p] # None /\ procs'[p].ticks = procs[p].ticks
          \/ procs'[p].ticks = clock /\ clock' = clock + 1

(* What a change of the process table keeps.                                *)
LEMMA TableMoves ==
    ASSUME Inv, NoneBecomesKnown, Dates, UNCHANGED record
    PROVE  /\ Recorded' /\ Dated'
           /\ \A n : NoneKnown(n) => NoneKnown(n)'
           /\ \A e : Sound(e) /\ Keeps(e) => Sound(e)'
<1>1. Recorded'
  BY DEF Inv, Recorded, NoneBecomesKnown
<1>2. \A n : NoneKnown(n) => NoneKnown(n)'
  BY DEF NoneKnown, NoneBecomesKnown
<1>3. clock \in Int /\ clock' \in Int /\ clock' >= clock
  BY ManagerAssumption DEF Dates, Inv, TypeOK
<1>4. Dated'
  <2> SUFFICES ASSUME NEW p \in Pids, procs'[p] # None PROVE procs'[p].ticks < clock'
    BY DEF Dated
  <2>1. CASE procs[p] # None /\ procs'[p].ticks = procs[p].ticks
    <3>1. procs[p].ticks < clock /\ procs[p].ticks \in Int
      BY <2>1, ManagerAssumption DEF Inv, Dated, TypeOK, Process, Ticks
    <3> QED
      BY <1>3, <2>1, <3>1
  <2>2. CASE procs'[p].ticks = clock /\ clock' = clock + 1
    BY <1>3, <2>2
  <2> QED
    BY <2>1, <2>2 DEF Dates
<1>5. ASSUME NEW e, Sound(e), Keeps(e) PROVE Sound(e)'
  <2>1. Starts(e)' /\ Spawned(e)'
    BY <1>2, <1>5 DEF Sound, Starts, Spawned, Keeps
  <2>2. Stops(e)'
    <3>1. CASE e.at = "kill"
      <4>1. e.rec \in Record /\ e.rec.ticks \in Int /\ e.rec.ticks < clock
        BY <1>5, <3>1, ManagerAssumption DEF Sound, Stops, Record, Ticks
      <4>2. e.rec.ticks < clock'
        BY <1>3, <4>1
      <4> QED
        BY <1>3, <1>5, <3>1, <4>1, <4>2 DEF Sound, Stops, Keeps
    <3>2. CASE e.at # "kill"
      BY <1>5, <3>2 DEF Sound, Stops
    <3> QED
      BY <3>1, <3>2
  <2> QED
    BY <1>5, <2>1, <2>2 DEF Sound
<1> QED
  BY <1>1, <1>2, <1>4, <1>5

(* A new process disturbs nobody: its pid was free.                         *)
LEMMA SpawnMoves ==
    ASSUME Inv, NEW p \in Pids, NEW n \in Services \cup {None}, NEW leads \in BOOLEAN,
           Spawns(p, n, leads)
    PROVE  /\ procs' \in [Pids -> Process \cup {None}] /\ clock' \in 0 .. MaxTicks + 1
           /\ UNCHANGED <<boots, edition>>
           /\ procs'[p] # None /\ procs'[p].mark = n /\ procs'[p].ticks = clock
           /\ clock \in Ticks
           /\ NoneBecomesKnown /\ Dates
           /\ \A m \in Managers : Keeps(mgr[m])
<1> DEFINE new == [mark |-> n, ticks |-> clock, leader |-> leads, state |-> "runs", known |-> FALSE]
<1>1. clock \in Ticks /\ clock' \in 0 .. MaxTicks + 1 /\ UNCHANGED <<boots, edition>>
  BY ManagerAssumption DEF Inv, TypeOK, Spawns, Ticks
<1>2. new \in Process /\ new # None /\ new.mark = n /\ new.ticks = clock /\ new.known = FALSE
  <2>1. new \in Process
    BY <1>1 DEF Process
  <2> QED
    BY <2>1, MarkersAssumption
<1> HIDE DEF new
<1>3. procs' = [procs EXCEPT ![p] = new] /\ procs[p] = None /\ clock' = clock + 1
  BY DEF Spawns, new
<1>4. /\ procs' \in [Pids -> Process \cup {None}] /\ procs'[p] = new
      /\ \A q \in Pids \ {p} : procs'[q] = procs[q]
  BY <1>2, <1>3 DEF Inv, TypeOK
<1>5. NoneBecomesKnown /\ Dates
  BY <1>2, <1>3, <1>4 DEF NoneBecomesKnown, Running, Dates
<1>6. ASSUME NEW m \in Managers PROVE Keeps(mgr[m])
  <2>1. CASE mgr[m].at \in {"record", "recording", "poll"}
    <3>1. mgr[m].rec.pid \in Pids \ {p}
      BY <1>3, <2>1 DEF Inv, Sound, Spawned, Record
    <3> QED
      BY <1>4, <2>1, <3>1 DEF Keeps, Inv, Sound, Spawned
  <2>2. CASE mgr[m].at = "kill"
    <3>1. mgr[m].rec.pid \in Pids
      BY <2>2 DEF Inv, Sound, Stops, Record
    <3> QED
      BY <1>2, <1>4, <2>2, <3>1 DEF Keeps
  <2>3. CASE mgr[m].at \notin {"record", "recording", "poll", "kill"}
    BY <2>3 DEF Keeps
  <2> QED
    BY <2>1, <2>2, <2>3
<1> QED
  BY <1>1, <1>2, <1>4, <1>5, <1>6

(* The steps that start a process, record it or look after it.              *)
LEMMA StartInv ==
    ASSUME Inv, NEW m \in Managers, Popen(m) \/ Exec(m)
    PROVE  Inv'
<1> USE DEF Inv
<1>1. mgr[m] \in Manager /\ Sound(mgr[m]) /\ conf \in Editions \cup {None}
  BY DEF TypeOK
<1>2. mgr[m].todo # << >> /\ Name(m) \in Services /\ mgr[m].at = "go"
  <2>1. mgr[m].at = "go"
    BY DEF Popen, Exec
  <2>2. mgr[m].todo # << >> /\ mgr[m].todo \in Seq(Services)
    BY <1>1, <2>1 DEF Sound, Manager
  <2> QED
    BY <2>1, <2>2 DEF Name
<1>3. ASSUME NEW p \in Pids, NEW leads \in BOOLEAN, NEW d \in Manager, Spawns(p, Name(m), leads),
             mgr' = [mgr EXCEPT ![m] = d], LockFollows(m, d), UNCHANGED <<record, conf>>, Sound(d)'
      PROVE  Inv'
  <2>1. /\ procs' \in [Pids -> Process \cup {None}] /\ clock' \in 0 .. MaxTicks + 1
        /\ UNCHANGED <<boots, edition>> /\ NoneBecomesKnown /\ Dates
        /\ \A k \in Managers : Keeps(mgr[k])
    BY <1>2, <1>3, SpawnMoves
  <2>2. TypeOK' /\ mgr'[m] = d /\ \A k \in Managers \ {m} : mgr'[k] = mgr[k]
    <3>1. record' \in [Services -> Record \cup {None, Torn}] /\ conf' \in Editions \cup {None}
      BY <1>3 DEF TypeOK
    <3> QED
      BY <1>3, <2>1, <3>1, TypeMoves
  <2>3. Recorded' /\ Dated' /\ \A e : Sound(e) /\ Keeps(e) => Sound(e)'
    BY <1>3, <2>1, TableMoves
  <2>4. ASSUME NEW k \in Managers PROVE Sound(mgr[k])'
    <3>1. CASE k = m
      BY <1>3, <2>2, <3>1
    <3>2. CASE k # m
      BY <2>1, <2>2, <2>3, <3>2
    <3> QED
      BY <3>1, <3>2
  <2>5. ConfChecked'
    BY <1>3 DEF ConfChecked
  <2> QED
    BY <2>2, <2>3, <2>4, <2>5
<1>4. CASE Popen(m)
  <2>1. CASE Turn(m) /\ UNCHANGED <<procs, hostVars>>
    BY <1>1, <1>2, <1>4, <2>1, TurnMoves DEF Popen, ConfChecked
  <2>2. ASSUME NEW p \in Pids, Spawns(p, Name(m), TRUE), UNCHANGED lock,
               mgr' = [mgr EXCEPT ![m].at = "record", ![m].rec = [pid |-> p, ticks |-> clock]]
        PROVE  Inv'
    <3>1. /\ procs'[p] # None /\ procs'[p].mark = Name(m) /\ procs'[p].ticks = clock
          /\ clock \in Ticks /\ NoneBecomesKnown /\ Dates
      BY <1>2, <2>2, SpawnMoves
    <3>2. [pid |-> p, ticks |-> clock] \in Record
      BY <3>1 DEF Record
    <3>3. [mgr[m] EXCEPT !.at = "record", !.rec = [pid |-> p, ticks |-> clock]] \in Manager
      BY <1>1, <3>2 DEF Manager
    <3>4. PICK d \in Manager :
             d = [mgr[m] EXCEPT !.at = "record", !.rec = [pid |-> p, ticks |-> clock]]
      BY <3>3
    <3>5. /\ d.at = "record" /\ d.todo = mgr[m].todo /\ d.act = "start" /\ d.rec \in Record
          /\ d.rec.pid = p /\ d.rec.ticks = clock
      BY <1>1, <1>4, <3>2, <3>4 DEF Popen, Manager
    <3>6. mgr' = [mgr EXCEPT ![m] = d]
      BY <2>2, <3>4
    <3>7. NoneKnown(Head(d.todo))'
      <4>1. NoneKnown(Head(d.todo))
        BY <1>1, <1>2, <1>4, <3>5 DEF Popen, Sound, Starts
      <4>2. \A n : NoneKnown(n) => NoneKnown(n)'
        BY <1>4, <3>1, TableMoves DEF Popen
      <4> QED
        BY <4>1, <4>2
    <3>8. Sound(d)'
      BY <1>2, <3>1, <3>5, <3>7 DEF Sound, Starts, Spawned, Stops, Name
    <3> QED
      BY <1>2, <1>3, <1>4, <2>2, <3>5, <3>6, <3>8 DEF Popen, LockFollows
  <2> QED
    BY <1>4, <2>1, <2>2 DEF Popen
<1>5. CASE Exec(m)
  <2>1. IdleManager \in Manager /\ IdleManager.at = "idle"
    BY ManagerAssumption DEF IdleManager, Manager, Acts, Editions
  <2>2. Sound(IdleManager)'
    BY <2>1 DEF Sound, Starts, Spawned, Stops
  <2>3. lock = m
    BY <1>2 DEF TypeOK
  <2> QED
    BY <1>3, <1>5, <2>1, <2>2, <2>3 DEF Exec, LockFollows
<1> QED
  BY <1>4, <1>5

(* The record is truncated, then written; then the process is polled once.  *)
(* No other manager is past the lock meanwhile.                             *)
LEMMA RecordInv ==
    ASSUME Inv, NEW m \in Managers, Truncate(m) \/ WriteRecord(m) \/ Poll(m)
    PROVE  Inv'
<1> USE DEF Inv
<1>1. /\ mgr[m] \in Manager /\ mgr[m].at \in {"record", "recording", "poll"} /\ Sound(mgr[m])
      /\ conf \in Editions \cup {None}
  BY DEF TypeOK, Truncate, WriteRecord, Poll
<1>2. /\ mgr[m].todo # << >> /\ Name(m) \in Services /\ Name(m) = Head(mgr[m].todo)
      /\ mgr[m].act = "start" /\ mgr[m].rec \in Record /\ mgr[m].rec.pid \in Pids
      /\ procs[mgr[m].rec.pid] \in Process /\ procs[mgr[m].rec.pid] # None
      /\ procs[mgr[m].rec.pid].mark = Name(m) /\ procs[mgr[m].rec.pid].ticks = mgr[m].rec.ticks
  <2>1. mgr[m].todo # << >> /\ mgr[m].todo \in Seq(Services) /\ Spawned(mgr[m])
    BY <1>1 DEF Sound, Manager
  <2>2. Name(m) \in Services /\ Name(m) = Head(mgr[m].todo)
    BY <2>1 DEF Name
  <2> QED
    BY <1>1, <2>1, <2>2 DEF Spawned, Record, TypeOK
<1>3. lock = m /\ \A k \in Managers \ {m} : mgr[k].at \in {"idle", "locking"}
  BY <1>1, Alone DEF TypeOK
<1>4. ASSUME NEW d \in Manager, mgr' = [mgr EXCEPT ![m] = d], LockFollows(m, d),
             record' \in [Services -> Record \cup {None, Torn}],
             procs' \in [Pids -> Process \cup {None}], UNCHANGED <<hostVars, conf>>,
             Recorded', Dates, Sound(d)'
      PROVE  Inv'
  <2>1. TypeOK' /\ mgr'[m] = d /\ \A k \in Managers \ {m} : mgr'[k] = mgr[k]
    <3>1. clock' \in 0 .. MaxTicks + 1 /\ UNCHANGED <<boots, edition>>
          /\ conf' \in Editions \cup {None}
      BY <1>1, <1>4 DEF TypeOK, hostVars
    <3> QED
      BY <1>4, <3>1, TypeMoves
  <2>2. ASSUME NEW k \in Managers PROVE Sound(mgr[k])'
    <3>1. CASE k = m
      BY <1>4, <2>1, <3>1
    <3>2. CASE k # m
      <4>1. mgr'[k] = mgr[k] /\ mgr[k].at \in {"idle", "locking"} /\ Sound(mgr[k])
        BY <1>3, <2>1, <3>2
      <4> QED
        BY <4>1 DEF Sound, Starts, Spawned, Stops
    <3> QED
      BY <3>1, <3>2
  <2>3. ConfChecked'
    BY <1>4 DEF ConfChecked
  <2>4. Dated'
    BY <1>4, ManagerAssumption DEF Dated, Dates, hostVars, TypeOK, Process, Ticks
  <2> QED
    BY <1>4, <2>1, <2>2, <2>3, <2>4
<1>5. CASE Truncate(m)
  <2>1. PICK d \in Manager : d = [mgr[m] EXCEPT !.at = "recording"]
    BY <1>1 DEF Manager
  <2>2. d.at = "recording" /\ d.todo = mgr[m].todo /\ d.act = "start" /\ d.rec = mgr[m].rec
    BY <1>1, <1>2, <2>1 DEF Manager
  <2>3. /\ mgr' = [mgr EXCEPT ![m] = d] /\ LockFollows(m, d) /\ UNCHANGED <<procs, hostVars, conf>>
        /\ record' = [record EXCEPT ![Name(m)] = Torn]
    BY <1>1, <1>5, <2>1, <2>2 DEF Truncate, Goes, LockFollows
  <2>4. NoneKnown(Name(m))
    BY <1>1, <1>2, <1>5 DEF Truncate, Sound, Starts
  <2>5. Recorded'
    BY <1>2, <2>3, <2>4 DEF Recorded, NoneKnown, Running, TypeOK
  <2>6. Sound(d)'
    <3>1. NoneKnown(Head(d.todo))'
      BY <1>2, <2>2, <2>3, <2>4 DEF NoneKnown, Running
    <3> QED
      BY <1>2, <2>2, <2>3, <3>1 DEF Sound, Starts, Spawned, Stops
  <2>7. record' \in [Services -> Record \cup {None, Torn}]
        /\ procs' \in [Pids -> Process \cup {None}]
    BY <2>3 DEF TypeOK
  <2>8. Dates
    BY <2>3 DEF Dates, hostVars
  <2> QED
    BY <1>4, <2>3, <2>5, <2>6, <2>7, <2>8
<1>6. CASE WriteRecord(m)
  <2>1. CASE Turn(m) /\ UNCHANGED <<record, procs>>
    BY <1>1, <1>6, <2>1, TurnMoves DEF WriteRecord, ConfChecked
  <2>2. CASE /\ record' = [record EXCEPT ![Name(m)] = mgr[m].rec]
             /\ procs' = [procs EXCEPT ![mgr[m].rec.pid].known = TRUE]
             /\ Steps(m, "poll")
    <3>1. PICK d \in Manager : d = [mgr[m] EXCEPT !.at = "poll"]
      BY <1>1 DEF Manager
    <3>2. d.at = "poll" /\ d.todo = mgr[m].todo /\ d.act = "start" /\ d.rec = mgr[m].rec
      BY <1>1, <1>2, <3>1 DEF Manager
    <3>3. mgr' = [mgr EXCEPT ![m] = d] /\ LockFollows(m, d) /\ UNCHANGED <<hostVars, conf>>
      BY <1>1, <1>6, <2>2, <3>1, <3>2 DEF WriteRecord, Steps, Goes, LockFollows
    <3>4. NoneKnown(Name(m))
      BY <1>1, <1>2, <1>6 DEF WriteRecord, Sound, Starts
    <3>5. PICK q \in Pids : q = mgr[m].rec.pid
      BY <1>2
    <3>6. /\ procs'[q] \in Process /\ procs'[q] # None /\ procs'[q].mark = Name(m)
          /\ procs'[q].ticks = mgr[m].rec.ticks
          /\ procs' \in [Pids -> Process \cup {None}]
          /\ \A p \in Pids \ {q} : procs'[p] = procs[p]
      <4>1. [procs[q] EXCEPT !.known = TRUE] \in Process
        BY <1>2, <3>5 DEF Process
      <4>2. procs' = [procs EXCEPT ![q] = [procs[q] EXCEPT !.known = TRUE]]
        BY <2>2, <3>5
      <4>3. [procs[q] EXCEPT !.known = TRUE] # None
        BY <4>1, MarkersAssumption
      <4> QED
        BY <1>2, <3>5, <4>1, <4>2, <4>3 DEF TypeOK, Process
    <3>7. /\ record' \in [Services -> Record \cup {None, Torn}] /\ record'[Name(m)] = mgr[m].rec
          /\ \A n \in Services \ {Name(m)} : record'[n] = record[n]
      BY <1>2, <2>2 DEF TypeOK
    <3>8. Recorded'
      <4> SUFFICES ASSUME NEW p \in Pids, (Running(p) /\ procs[p].known)'
                   PROVE  /\ procs'[p].mark \in Services
                          /\ record'[procs'[p].mark] = [pid |-> p, ticks |-> procs'[p].ticks]
        BY DEF Recorded
      <4>1. CASE p = q
        <5>1. mgr[m].rec = [pid |-> mgr[m].rec.pid, ticks |-> mgr[m].rec.ticks]
          BY <1>2 DEF Record
        <5> QED
          BY <1>2, <3>5, <3>6, <3>7, <4>1, <5>1
      <4>2. CASE p # q
        <5>1. Running(p) /\ procs[p].known /\ procs'[p] = procs[p]
          BY <3>6, <4>2 DEF Running
        <5>2. procs[p].mark \in Services \ {Name(m)}
          BY <3>4, <5>1 DEF NoneKnown, Recorded
        <5> QED
          BY <3>7, <5>1, <5>2 DEF Recorded
      <4> QED
        BY <4>1, <4>2
    <3>9. Sound(d)'
      BY <1>2, <3>2, <3>5, <3>6 DEF Sound, Starts, Spawned, Stops
    <3>10. Dates
      BY <1>2, <3>3, <3>5, <3>6 DEF Dates, hostVars
    <3> QED
      BY <1>4, <3>3, <3>6, <3>7, <3>8, <3>9, <3>10
  <2> QED
    BY <1>6, <2>1, <2>2 DEF WriteRecord
<1>7. CASE Poll(m)
  <2>1. PICK d \in Manager :
          /\ mgr' = [mgr EXCEPT ![m] = d]
          /\ \/ d.at = "idle" /\ lock = m /\ lock' = None
             \/ d.at = "look" /\ d.todo # << >> /\ UNCHANGED lock
    BY <1>1, <1>2, <1>7, TurnEnds DEF Poll
  <2>2. Sound(d)'
    BY <2>1 DEF Sound, Starts, Spawned, Stops
  <2>3. procs' \in [Pids -> Process \cup {None}] /\ NoneBecomesKnown /\ Dates
    <3>1. CASE procs' = procs
      BY <1>7, <3>1 DEF Poll, TypeOK, NoneBecomesKnown, Running, Dates, hostVars
    <3>2. CASE procs' = [procs EXCEPT ![mgr[m].rec.pid] = None]
      BY <1>2, <1>7, <3>2 DEF Poll, TypeOK, NoneBecomesKnown, Running, Dates, hostVars
    <3> QED
      BY <1>7, <3>1, <3>2 DEF Poll
  <2>4. Recorded' /\ record' \in [Services -> Record \cup {None, Torn}]
    BY <1>7, <2>3, TableMoves DEF Poll, TypeOK
  <2> QED
    BY <1>1, <1>4, <1>7, <2>1, <2>2, <2>3, <2>4 DEF Poll, LockFollows
<1> QED
  BY <1>5, <1>6, <1>7

(* The surroundings: processes end, are reaped and appear, the configuration *)
(* is edited, the host reboots.                                              *)
LEMMA HostInv ==
    ASSUME Inv, Edit \/ Reboot \/ \E p \in Pids : Ends(p) \/ Reaped(p) \/ Other(p)
    PROVE  Inv'
<1> USE DEF Inv
<1>1. ASSUME procs' \in [Pids -> Process \cup {None}], clock' \in 0 .. MaxTicks + 1,
             UNCHANGED <<boots, edition, lock, record, conf, mgr>>, NoneBecomesKnown, Dates,
             \A m \in Managers : Keeps(mgr[m])
      PROVE  Inv'
  <2>1. TypeOK'
    BY <1>1 DEF TypeOK
  <2>2. Recorded' /\ Dated' /\ \A e : Sound(e) /\ Keeps(e) => Sound(e)'
    BY <1>1, TableMoves
  <2>3. \A m \in Managers : Sound(mgr[m])'
    BY <1>1, <2>2
  <2>4. ConfChecked'
    BY <1>1 DEF ConfChecked
  <2> QED
    BY <2>1, <2>2, <2>3, <2>4
<1>2. CASE Edit
  <2>1. TypeOK'
    BY <1>2, ManagerAssumption DEF Edit, TypeOK, Editions
  <2>2. \A e : Sound(e)' <=> Sound(e)
    BY <1>2 DEF Edit, Sound, Starts, Spawned, Stops, NoneKnown, Running
  <2>3. \A m \in Managers : Sound(mgr[m])'
    BY <1>2, <2>2 DEF Edit
  <2>4. Recorded' /\ Dated' /\ ConfChecked'
    BY <1>2 DEF Edit, Recorded, Running, Dated, ConfChecked
  <2> QED
    BY <2>1, <2>3, <2>4
<1>3. CASE Reboot
  <2>1. IdleManager \in Manager /\ IdleManager.at = "idle"
    BY ManagerAssumption DEF IdleManager, Manager, Acts, Editions
  <2>2. /\ mgr' = [m \in Managers |-> IdleManager] /\ procs' = [p \in Pids |-> None]
        /\ lock' = None /\ UNCHANGED <<record, edition, conf>> /\ clock' = 0
           /\ boots' \in 0 .. MaxBoots
    BY <1>3, ManagerAssumption DEF Reboot, TypeOK
  <2>3. TypeOK'
    BY <2>1, <2>2, ManagerAssumption DEF TypeOK
  <2>4. \A m \in Managers : Sound(mgr[m])'
    BY <2>1, <2>2 DEF Sound, Starts, Spawned, Stops
  <2>5. Recorded' /\ Dated' /\ ConfChecked'
    BY <2>2 DEF Recorded, Running, Dated, ConfChecked
  <2> QED
    BY <2>3, <2>4, <2>5
<1>4. ASSUME NEW p \in Pids, Ends(p) PROVE Inv'
  <2>1. /\ procs[p] \in Process /\ procs[p] # None
        /\ procs' = [procs EXCEPT ![p] = [procs[p] EXCEPT !.state = "zombie"]]
    BY <1>4 DEF Ends, Running, TypeOK
  <2>2. [procs[p] EXCEPT !.state = "zombie"] \in Process
    BY <2>1 DEF Process
  <2>3. [procs[p] EXCEPT !.state = "zombie"] # None
    BY <2>2, MarkersAssumption
  <2>4. /\ procs' \in [Pids -> Process \cup {None}]
        /\ procs'[p] # None /\ procs'[p].mark = procs[p].mark /\ procs'[p].ticks = procs[p].ticks
        /\ procs'[p].state = "zombie" /\ \A q \in Pids \ {p} : procs'[q] = procs[q]
    BY <2>1, <2>2, <2>3 DEF TypeOK, Process
  <2>5. NoneBecomesKnown /\ Dates
    BY <1>4, <2>1, <2>4 DEF Ends, NoneBecomesKnown, Running, Dates, hostVars
  <2>6. ASSUME NEW m \in Managers PROVE Keeps(mgr[m])
    BY <2>1, <2>4 DEF Keeps, Sound, Spawned, Stops, Record
  <2> QED
    BY <1>1, <1>4, <2>4, <2>5, <2>6 DEF Ends, hostVars, TypeOK
<1>5. ASSUME NEW p \in Pids, Reaped(p) PROVE Inv'
  <2>1. /\ procs' \in [Pids -> Process \cup {None}] /\ procs'[p] = None
        /\ \A q \in Pids \ {p} : procs'[q] = procs[q]
    BY <1>5 DEF Reaped, TypeOK
  <2>2. NoneBecomesKnown /\ Dates
    BY <1>5, <2>1 DEF Reaped, NoneBecomesKnown, Running, Dates, hostVars
  <2>3. ASSUME NEW m \in Managers PROVE Keeps(mgr[m])
    BY <1>5, <2>1 DEF Reaped, Keeps, Sound, Spawned, Stops, Record
  <2> QED
    BY <1>1, <1>5, <2>1, <2>2, <2>3 DEF Reaped, hostVars, TypeOK
<1>6. ASSUME NEW p \in Pids, Other(p) PROVE Inv'
  <2>1. PICK n \in Services \cup {None}, leads \in BOOLEAN : Spawns(p, n, leads)
    BY <1>6 DEF Other, Running, TypeOK, Process
  <2> QED
    BY <1>1, <1>6, <2>1, SpawnMoves DEF Other
<1> QED
  BY <1>2, <1>3, <1>4, <1>5, <1>6

(* The invariant holds at the start and after every step.                   *)
LEMMA InitInv == Init => Inv
<1> SUFFICES ASSUME Init PROVE Inv
  OBVIOUS
<1>1. IdleManager \in Manager /\ IdleManager.at = "idle"
  BY ManagerAssumption DEF IdleManager, Manager, Acts, Editions
<1>2. TypeOK
  BY <1>1, ManagerAssumption DEF Init, TypeOK, Editions
<1>3. \A m \in Managers : Sound(mgr[m])
  BY <1>1 DEF Init, Sound, Starts, Spawned, Stops
<1>4. Recorded /\ Dated /\ ConfChecked
  BY MarkersAssumption DEF Init, Recorded, Running, Dated, ConfChecked
<1> QED
  BY <1>2, <1>3, <1>4 DEF Inv

(* Every step keeps the invariant.                                          *)
LEMMA NextInv == Inv /\ [Next]_vars => Inv'
<1> SUFFICES ASSUME Inv, [Next]_vars PROVE Inv'
  OBVIOUS
<1>1. CASE UNCHANGED vars
  BY <1>1 DEF vars, hostVars, Inv, TypeOK, Recorded, Running, Dated, ConfChecked, Sound, Starts,
     Spawned, Stops, NoneKnown
<1>2. ASSUME NEW m \in Managers, Step(m) PROVE Inv'
  BY <1>2, QuietInv, StartInv, RecordInv DEF Step
<1> QED
  BY <1>1, <1>2, HostInv DEF Next

-----------------------------------------------------------------------------
(* The state is always of its type; flock admits one manager at a time.     *)
THEOREM TypeCorrect == Spec => []TypeOK
<1>1. Inv => TypeOK
  BY DEF Inv
<1> QED
  BY <1>1, InitInv, NextInv, PTL DEF Spec

(* No service runs twice among the processes whose record was written.      *)
THEOREM OneLeader == Spec => []OneKnownLeader
<1>1. Inv => OneKnownLeader
  <2> SUFFICES ASSUME Inv, NEW p \in Pids, NEW q \in Pids, Running(p), Running(q),
                      procs[p].known, procs[q].known, procs[p].mark = procs[q].mark
               PROVE  p = q
    BY DEF OneKnownLeader
  <2> DEFINE n == procs[p].mark
  <2>1. /\ record[n] = [pid |-> p, ticks |-> procs[p].ticks]
        /\ record[n] = [pid |-> q, ticks |-> procs[q].ticks]
    BY DEF Inv, Recorded
  <2>2. record[n].pid = p /\ record[n].pid = q
    BY <2>1
  <2> QED
    BY <2>2
<1> QED
  BY <1>1, InitInv, NextInv, PTL DEF Spec

(* NGINX only ever finds a configuration its check accepted.                *)
THEOREM ConfigurationChecked == Spec => []ConfChecked
<1>1. Inv => ConfChecked
  BY DEF Inv
<1> QED
  BY <1>1, InitInv, NextInv, PTL DEF Spec

(* A service reported as stopped has no recorded process left.              *)
THEOREM StoppedIsGone == Spec => StoppedMeansGone
<1> DEFINE Gone == \A m \in Managers : Reported(m) =>
               \A p \in Pids : ~(Running(p) /\ procs[p].known /\ procs[p].mark = Name(m))
<1>1. ASSUME Inv, NEW m \in Managers, Reported(m), NEW p \in Pids,
             Running(p), procs[p].known, procs[p].mark = Name(m)
      PROVE  FALSE
  <2>1. Name(m) \in Services /\ record[Name(m)] = [pid |-> p, ticks |-> procs[p].ticks]
    BY <1>1 DEF Inv, Recorded
  <2>2. Alive(record[Name(m)]) /\ record[Name(m)] \in Record
    BY <1>1, <2>1 DEF Alive, Inv, TypeOK, Record, Running, Process
  <2>3. LiveState(Name(m)) # "stopped"
    BY <2>2, MarkersAssumption DEF LiveState
  <2>4. ~Await(m)
    BY <1>1, <2>2 DEF Await, Inv, Sound, Stops, Name
  <2> QED
    BY <1>1, <2>3, <2>4 DEF Reported
<1>2. Inv /\ [Next]_vars => [Gone]_vars
  BY <1>1
<1> QED
  BY <1>2, InitInv, NextInv, PTL DEF Spec, StoppedMeansGone

(* Only the signal itself takes a manager from "kill" to "await".           *)
LEMMA OnlyKill ==
    ASSUME Inv, Next, NEW m \in Managers, mgr[m].at = "kill", mgr'[m].at = "await"
    PROVE  Kill(m)
<1>1. mgr \in [Managers -> Manager] /\ lock = m
  BY DEF Inv, TypeOK
<1>2. ASSUME UNCHANGED mgr \/ Reboot PROVE FALSE
  BY <1>1, <1>2 DEF Reboot, IdleManager
<1>3. ASSUME NEW k \in Managers, k # m, Step(k) PROVE FALSE
  <2>1. mgr[k].at \in {"idle", "locking"}
    BY <1>3, Alone DEF Inv
  <2>2. Invoke(k) \/ Dies(k)
    BY <1>1, <1>3, <2>1, ManagerAssumption DEF Step, Lock, Look, CommandFor, CheckPending, Publish,
       Popen, Truncate, WriteRecord, Poll, Hup, Exec, Kill, Await, Overdue
  <2>3. mgr'[m] = mgr[m]
    BY <1>1, <1>3, <2>2 DEF Invoke, Dies
  <2> QED
    BY <2>3
<1>4. ASSUME Step(m) PROVE Kill(m)
  <2>1. Kill(m) \/ Dies(m)
    BY <1>4 DEF Step, Invoke, Lock, Look, CommandFor, CheckPending, Publish, Popen, Truncate,
       WriteRecord, Poll, Hup, Exec, Await, Overdue
  <2>2. ~Dies(m)
    BY <1>1 DEF Dies, IdleManager
  <2> QED
    BY <2>1, <2>2
<1> QED
  BY <1>2, <1>3, <1>4 DEF Next, Ends, Reaped, Other, Edit

(* stop() signals only a process that leads its group and bears the         *)
(* service's mark, or one that took its pid between live_state() and        *)
(* killpg().                                                                *)
THEOREM SignalsOwn == Spec => SignalsOnlyOwn
<1> DEFINE Own(m) == LET hit == procs[mgr[m].rec.pid]
                     IN  hit.leader /\ (hit.mark = Name(m) \/ hit.ticks > mgr[m].rec.ticks)
           AllOwn == \A m \in Managers : mgr[m].at = "kill" /\ mgr'[m].at = "await" => Own(m)
<1>1. ASSUME Inv, Next, NEW m \in Managers, mgr[m].at = "kill", mgr'[m].at = "await"
      PROVE  Own(m)
  <2>1. Kill(m)
    BY <1>1, OnlyKill
  <2>2. ~Turn(m)
    BY <1>1, TurnEnds DEF Inv, TypeOK, Sound
  <2>3. procs[mgr[m].rec.pid] # None /\ procs[mgr[m].rec.pid].leader
    BY <2>1, <2>2 DEF Kill
  <2> QED
    BY <1>1, <2>3 DEF Inv, Sound, Stops, Name
<1>2. Inv /\ [Next]_vars => [AllOwn]_vars
  BY <1>1
<1> QED
  BY <1>2, InitInv, NextInv, PTL DEF Spec, SignalsOnlyOwn

-----------------------------------------------------------------------------
(* GatewayRoutes: the inductive invariant.                                  *)

Responses == [path : Paths, method : {"GET", "POST"}, credential : Owners \cup {"wrong"},
             code : {200, 401, 403, 404, 429}, to : Upstreams \cup {"none"},
             limited : BOOLEAN, header : Owners \cup {"empty", "none", "wrong"}]

Shaped ==
    /\ {"vlm", "yolo"} \subseteq gNames /\ gNames \subseteq Upstreams
    /\ gKeys \in [Owners -> Owners] /\ gServing \in BOOLEAN
    /\ gOpen \in [Requests -> {NoRequest} \cup Responses]

(* NGINX runs only with a configuration that render() returned.             *)
Rendered ==
    /\ gServing => \A o, q \in gNames \cup {"public"} : o # q => gKeys[o] # gKeys[q]
    /\ ~gServing => \A r \in Requests : gOpen[r] = NoRequest

Keyed(a) ==
    a.to # "none" =>
      /\ a.credential = gKeys["public"]
      /\ a.header \in {gKeys[a.to], "empty"} \ {gKeys["public"]}
      /\ a.header = "empty" => a.path = "/yolo/health/ready"

Admitted == \A r \in Requests : gOpen[r] # NoRequest => Keyed(gOpen[r])

(* The count of NGINX's zone is of finitely many requests.                  *)
Counted == \A u \in Upstreams :
    IsFiniteSet(InZone(u)) /\ Cardinality(InZone(u)) <= MaxConnections[u]

RoutesInv == Shaped /\ Rendered /\ Admitted /\ Counted

-----------------------------------------------------------------------------
(* What render() wrote.                                                     *)

(* A request that was answered is a request.                                *)
LEMMA NoRequestApart == \A a \in Responses : a # NoRequest
<1>1. NoRequest.path = "none"
  BY DEF NoRequest
<1>2. \A l \in Locations : l.path # "none"
  BY DEF Locations, VlmLocations, YoloLocations, RagLocations, AsrLocations, TtsLocations,
     MonitorLocations, Location
<1>3. "none" \notin Paths
  BY <1>2 DEF Paths
<1> QED
  BY <1>1, <1>3 DEF Responses

(* No location passes on the credential of the client.                      *)
LEMMA LocationsSetKeys ==
    ASSUME NEW l \in Locations
    PROVE  /\ l.to \in gNames /\ l.to \in Upstreams /\ l.path \in Paths /\ l.limited \in BOOLEAN
           /\ \/ l.sets = "own"
              \/ l.sets = "empty" /\ l.path = "/yolo/health/ready"
              \/ l.sets = "inherits" /\ l.to = "vlm"
<1>1. l.to \in gNames /\ l.path \in Paths
  BY DEF Locations, Paths
<1>2. CASE l \in VlmLocations
  <2>1. l.to = "vlm" /\ l.sets = "inherits"
    BY <1>2 DEF VlmLocations, Location
  <2>2. l.limited = TRUE \/ l.limited = FALSE
    BY <1>2 DEF VlmLocations, Location
  <2> QED
    BY <1>1, <2>1, <2>2 DEF Upstreams
<1>3. CASE l \in YoloLocations
  <2>1. /\ l.to = "yolo"
        /\ \/ l.sets = "own"
           \/ l.sets = "empty" /\ l.path = "/yolo/health/ready"
    BY <1>3 DEF YoloLocations, Location
  <2>2. l.limited = TRUE \/ l.limited = FALSE
    BY <1>3 DEF YoloLocations, Location
  <2> QED
    BY <1>1, <2>1, <2>2 DEF Upstreams
<1>4. CASE l \in RagLocations \cup AsrLocations
  <2>1. (l.to = "rag" \/ l.to = "asr") /\ l.sets = "own"
    BY <1>4 DEF RagLocations, AsrLocations, Location
  <2>2. l.limited = TRUE \/ l.limited = FALSE
    BY <1>4 DEF RagLocations, AsrLocations, Location
  <2> QED
    BY <1>1, <2>1, <2>2 DEF Upstreams
<1>5. CASE l \in TtsLocations \cup MonitorLocations
  <2>1. (l.to = "tts" \/ l.to = "monitor") /\ l.sets = "own"
    BY <1>5 DEF TtsLocations, MonitorLocations, Location
  <2>2. l.limited = TRUE \/ l.limited = FALSE
    BY <1>5 DEF TtsLocations, MonitorLocations, Location
  <2> QED
    BY <1>1, <2>1, <2>2 DEF Upstreams
<1> QED
  BY <1>2, <1>3, <1>4, <1>5 DEF Locations

(* The header sent to a service holds the key of that service, and never    *)
(* the public one.                                                          *)
LEMMA ServiceKey ==
    ASSUME Shaped, Rendered, gServing, NEW l \in Locations, NEW credential
    PROVE  /\ HeaderSent(l, credential) \in {gKeys[l.to], "empty"} \ {gKeys["public"]}
           /\ HeaderSent(l, credential) = "empty" => l.path = "/yolo/health/ready"
           /\ HeaderSent(l, credential) \in Owners \cup {"empty"}
<1>1. l.to \in gNames /\ l.to # "public" /\ l.to \in Owners /\ "public" \in Owners
      /\ "vlm" \in Owners
  BY LocationsSetKeys DEF Upstreams, Owners
<1>2. gKeys[l.to] # gKeys["public"]
  BY <1>1 DEF Rendered
<1>3. gKeys[l.to] \in Owners /\ gKeys["public"] \in Owners
  BY <1>1 DEF Shaped
<1>4. "empty" \notin Owners
  BY DEF Owners, Upstreams
<1>5. CASE l.sets = "own"
  BY <1>2, <1>3, <1>4, <1>5 DEF HeaderSent
<1>6. CASE l.sets = "empty" /\ l.path = "/yolo/health/ready"
  BY <1>3, <1>4, <1>6 DEF HeaderSent
<1>7. CASE l.sets = "inherits" /\ l.to = "vlm"
  BY <1>2, <1>3, <1>4, <1>7 DEF HeaderSent
<1> QED
  BY <1>5, <1>6, <1>7, LocationsSetKeys

(* What a request is answered with, and what it is passed on with.          *)
LEMMA Arrival ==
    ASSUME RoutesInv, NEW r \in Requests, Arrives(r)
    PROVE  \E a \in Responses :
              /\ gOpen' = [gOpen EXCEPT ![r] = a]
              /\ Keyed(a)
              /\ a.limited /\ a.to # "none" => Cardinality(InZone(a.to)) < MaxConnections[a.to]
<1> USE DEF RoutesInv
<1>1. PICK method \in {"GET", "POST"}, credential \in {gKeys["public"], gKeys["tts"], "wrong"} :
         \/ \E path \in Paths : \/ Unauthorized(r, path, method, credential)
                                \/ Unrouted(r, path, method, credential)
         \/ \E l \in Locations : \/ Limited(r, l, method, credential)
                                 \/ Denied(r, l, method, credential)
                                 \/ Passed(r, l, method, credential)
  BY DEF Arrives
<1>2. credential \in Owners \cup {"wrong"} /\ gServing
  BY DEF Shaped, Owners, Upstreams, Arrives
<1>3. ASSUME NEW path \in Paths, NEW code \in {200, 401, 403, 404, 429},
             Answers(r, path, method, credential, code)
      PROVE  \E a \in Responses : gOpen' = [gOpen EXCEPT ![r] = a] /\ a.to = "none"
  <2> DEFINE a == [path |-> path, method |-> method, credential |-> credential, code |-> code,
                   to |-> "none", limited |-> FALSE, header |-> "none"]
  <2>1. gOpen' = [gOpen EXCEPT ![r] = a]
    BY <1>3 DEF Answers
  <2>2. a \in Responses
    BY <1>2 DEF Responses
  <2> QED
    BY <2>1, <2>2
<1>4. CASE \E path \in Paths : \/ Unauthorized(r, path, method, credential)
                               \/ Unrouted(r, path, method, credential)
  BY <1>3, <1>4 DEF Unauthorized, Unrouted, Keyed
<1>5. CASE \E l \in Locations : Limited(r, l, method, credential)
           \/ Denied(r, l, method, credential)
  BY <1>3, <1>5, LocationsSetKeys DEF Limited, Denied, Keyed
<1>6. ASSUME NEW l \in Locations, Passed(r, l, method, credential)
      PROVE  \E a \in Responses :
                /\ gOpen' = [gOpen EXCEPT ![r] = a]
                /\ Keyed(a)
                /\ a.limited /\ a.to # "none" => Cardinality(InZone(a.to)) < MaxConnections[a.to]
  <2> DEFINE a == [path |-> l.path, method |-> method, credential |-> credential, code |-> 200,
                   to |-> l.to, limited |-> l.limited, header |-> HeaderSent(l, credential)]
  <2>1. /\ credential = gKeys["public"]
        /\ l.limited => Cardinality(InZone(l.to)) < MaxConnections[l.to]
        /\ gOpen' = [gOpen EXCEPT ![r] = a]
    BY <1>6 DEF Passed
  <2>2. a \in Responses
    BY <1>2, LocationsSetKeys, ServiceKey DEF Responses
  <2>3. Keyed(a)
    BY <1>2, <2>1, ServiceKey DEF Keyed
  <2> QED
    BY <2>1, <2>2, <2>3
<1> QED
  BY <1>1, <1>4, <1>5, <1>6

-----------------------------------------------------------------------------
(* Every step keeps the invariant.                                          *)

(* The invariant holds at the start.                                        *)
LEMMA RoutesInitInv == RoutesInit => RoutesInv
<1> SUFFICES ASSUME RoutesInit PROVE RoutesInv
  OBVIOUS
<1>1. Shaped
  BY DEF RoutesInit, Shaped, Owners, Upstreams
<1>2. Rendered /\ Admitted
  BY DEF RoutesInit, Rendered, Admitted
<1>3. \A u : InZone(u) = {}
  BY DEF RoutesInit, InZone
<1>4. Counted
  BY <1>3, FS_EmptySet, RoutesAssumption DEF Counted
<1> QED
  BY <1>1, <1>2, <1>4 DEF RoutesInv

(* Every step keeps the invariant.                                          *)
LEMMA RoutesNextInv ==
    ASSUME RoutesInv, [RoutesNext]_routesVars
    PROVE  RoutesInv'
<1> USE DEF RoutesInv
<1>1. CASE Render \/ UNCHANGED routesVars
  <2>1. UNCHANGED <<gNames, gKeys, gOpen>> /\ gServing' \in BOOLEAN
    BY <1>1 DEF Render, routesVars, Shaped
  <2>2. Shaped'
    BY <2>1 DEF Shaped, Responses, Paths, Locations
  <2>3. Rendered'
    BY <1>1, <2>1 DEF Render, routesVars, Rendered
  <2>4. Admitted' /\ Counted'
    BY <2>1 DEF Admitted, Keyed, Counted, InZone
  <2> QED
    BY <2>2, <2>3, <2>4
<1>2. ASSUME NEW r \in Requests, Arrives(r) PROVE RoutesInv'
  <2>1. PICK a \in Responses :
           /\ gOpen' = [gOpen EXCEPT ![r] = a]
           /\ Keyed(a)
           /\ a.limited /\ a.to # "none" => Cardinality(InZone(a.to)) < MaxConnections[a.to]
    BY <1>2, Arrival
  <2>2. UNCHANGED <<gNames, gKeys, gServing>> /\ gServing /\ gOpen[r] = NoRequest
    BY <1>2 DEF Arrives
  <2>3. Responses' = Responses
    BY <2>2 DEF Responses, Paths, Locations
  <2>4. Shaped'
    BY <2>1, <2>2, <2>3 DEF Shaped
  <2>5. Rendered'
    BY <2>2 DEF Rendered
  <2>6. Admitted'
    BY <2>1, <2>2 DEF Admitted, Keyed, Shaped
  <2>7. ASSUME NEW u \in Upstreams
        PROVE  IsFiniteSet(InZone(u)') /\ Cardinality(InZone(u)') <= MaxConnections[u]
    <3>1. /\ IsFiniteSet(InZone(u)) /\ Cardinality(InZone(u)) \in Nat /\ MaxConnections[u] \in Nat
          /\ Cardinality(InZone(u)) <= MaxConnections[u] /\ r \notin InZone(u)
      BY <2>2, FS_CardinalityType, RoutesAssumption DEF Counted, InZone
    <3>2. CASE a.to = u /\ a.limited
      <4>1. InZone(u)' = InZone(u) \cup {r}
        BY <2>1, <3>2, NoRequestApart DEF InZone, Shaped
      <4>2. Cardinality(InZone(u)) < MaxConnections[u]
        BY <2>1, <3>2 DEF Upstreams
      <4>3. /\ IsFiniteSet(InZone(u) \cup {r})
            /\ Cardinality(InZone(u) \cup {r}) = Cardinality(InZone(u)) + 1
        BY <3>1, FS_AddElement
      <4>4. Cardinality(InZone(u)) + 1 <= MaxConnections[u]
        BY <3>1, <4>2
      <4> QED
        BY <4>1, <4>3, <4>4
    <3>3. CASE ~(a.to = u /\ a.limited)
      <4>1. InZone(u)' = InZone(u)
        BY <2>1, <2>2, <3>3 DEF InZone, Shaped
      <4> QED
        BY <3>1, <4>1
    <3> QED
      BY <3>2, <3>3
  <2> QED
    BY <2>4, <2>5, <2>6, <2>7 DEF Counted
<1>3. ASSUME NEW r \in Requests, Leaves(r) PROVE RoutesInv'
  <2>1. /\ gOpen' = [gOpen EXCEPT ![r] = NoRequest] /\ UNCHANGED <<gNames, gKeys, gServing>>
        /\ gOpen[r] # NoRequest
    BY <1>3 DEF Leaves
  <2>2. Responses' = Responses
    BY <2>1 DEF Responses, Paths, Locations
  <2>3. Shaped'
    BY <2>1, <2>2 DEF Shaped
  <2>4. Rendered'
    BY <2>1 DEF Rendered
  <2>5. Admitted'
    BY <2>1 DEF Admitted, Keyed, Shaped
  <2>6. ASSUME NEW u \in Upstreams
        PROVE  IsFiniteSet(InZone(u)') /\ Cardinality(InZone(u)') <= MaxConnections[u]
    <3>1. /\ IsFiniteSet(InZone(u)) /\ Cardinality(InZone(u)) \in Nat /\ MaxConnections[u] \in Nat
          /\ Cardinality(InZone(u)) <= MaxConnections[u]
      BY FS_CardinalityType, RoutesAssumption DEF Counted
    <3>2. InZone(u)' \in SUBSET InZone(u)
      BY <2>1 DEF InZone, Shaped
    <3>3. /\ IsFiniteSet(InZone(u)') /\ Cardinality(InZone(u)') \in Nat
          /\ Cardinality(InZone(u)') <= Cardinality(InZone(u))
      BY <3>1, <3>2, FS_Subset, FS_CardinalityType
    <3> QED
      BY <3>1, <3>3
  <2> QED
    BY <2>3, <2>4, <2>5, <2>6 DEF Counted
<1> QED
  BY <1>1, <1>2, <1>3 DEF RoutesNext

(* The invariant holds in every state: NGINX serves only configurations     *)
(* that were rendered, and what it forwarded carries the key of its         *)
(* service.                                                                 *)
THEOREM RoutesInvariance == RoutesSpec => []RoutesInv
<1>1. RoutesInv /\ [RoutesNext]_routesVars => RoutesInv'
  BY RoutesNextInv
<1> QED
  BY <1>1, RoutesInitInv, PTL DEF RoutesSpec

(* Every variable of the gateway's routes keeps its type.                   *)
THEOREM RoutesTyped == RoutesSpec => []RoutesTypeOK
<1>1. RoutesInv => RoutesTypeOK
  BY DEF RoutesInv, Shaped, Responses, RoutesTypeOK
<1> QED
  BY <1>1, RoutesInvariance, PTL

(* A request reaches a service only with the public credential, which goes  *)
(* no further, and never beside more requests than the service has slots:   *)
(* however many requests are open, and whatever the secret files hold.      *)
THEOREM RequestsKeyed == RoutesSpec => []EachServiceItsKey
<1>1. RoutesInv => EachServiceItsKey
  BY DEF RoutesInv, Admitted, Keyed, Counted, EachServiceItsKey
<1> QED
  BY <1>1, RoutesInvariance, PTL

=============================================================================
