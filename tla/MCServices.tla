----------------------------- MODULE MCServices -----------------------------
(***************************************************************************)
(* The machines around the sessions, which share no state: one run checks  *)
(* them side by side. "machine" says which of them a behaviour is about;   *)
(* the others stay where they began.                                       *)
(***************************************************************************)
EXTENDS GatewayManager, GatewayRoutes, Provisioning, DetectorService, HistogramWindow,
        TextSubdivision, PacedFrames, TLC

CONSTANTS m1, m2, p1, p2, yolo, gateway, s1, s2, r1, r2, run, init, render, monitor,
          voice1, voice2

Symmetry == Permutations({m1, m2}) \cup Permutations({p1, p2})

(* Two managers that overlap, NGINX and one algorithm; what is said of NGINX *)
(* holds of the algorithm too, whose start differs only in command_for.      *)
MCServices == {yolo, gateway}
MCCommands ==
    {[act |-> "start",  names |-> <<gateway>>],
     [act |-> "stop",   names |-> <<gateway, yolo>>],
     [act |-> "run",    names |-> <<gateway>>],
     [act |-> "run",    names |-> <<yolo>>],
     [act |-> "reload", names |-> <<gateway>>],
     [act |-> "check",  names |-> <<gateway>>]}

MCMaxConnections == [u \in Upstreams |-> IF u = "yolo" THEN 2 ELSE 1]

MCPrograms == {run, init, render, monitor, voice1, voice2}

(* A server, what may create the key or read it at the same time, and two    *)
(* preparations of the voice.                                                *)
MCRole == [p \in MCPrograms |->
             CASE p = init -> "init" [] p = render -> "gateway" [] p = monitor -> "monitor"
               [] p \in {voice1, voice2} -> "voice" [] OTHER -> "service"]

-----------------------------------------------------------------------------
VARIABLE machine

MachinesInit ==
    /\ machine \in {"manager", "routes", "files", "detector", "window", "text", "frames"}
    /\ Init /\ DetectorInit /\ PacedInit
    /\ IF machine = "routes" THEN RoutesInit
       ELSE /\ gNames = Upstreams /\ gKeys = [o \in Owners |-> o]
            /\ gServing = FALSE /\ gOpen = [r \in Requests |-> NoRequest]
    /\ ProvisioningInit /\ (machine # "files" => pVoice = "absent")
    /\ HistogramInit /\ (machine # "window" => ~hExposed)
    /\ IF machine = "text" THEN TextInit
       ELSE tText = << >> /\ tParts = << >> /\ tRest = << >> /\ tAt = "spoken"

ManagerStep == /\ machine = "manager" /\ Next
               /\ UNCHANGED <<machine, routesVars, provisioningVars, detectorVars, histogramVars,
                              textVars, pacedVars>>
RoutesStep == /\ machine = "routes" /\ RoutesNext
              /\ UNCHANGED <<machine, vars, provisioningVars, detectorVars, histogramVars,
                             textVars, pacedVars>>
FilesStep == /\ machine = "files" /\ ProvisioningNext
             /\ UNCHANGED <<machine, vars, routesVars, detectorVars, histogramVars, textVars,
                            pacedVars>>
DetectorStep == /\ machine = "detector" /\ DetectorNext
                /\ UNCHANGED <<machine, vars, routesVars, provisioningVars, histogramVars,
                               textVars, pacedVars>>
WindowStep == /\ machine = "window" /\ HistogramNext
              /\ UNCHANGED <<machine, vars, routesVars, provisioningVars, detectorVars,
                             textVars, pacedVars>>
TextStep == /\ machine = "text" /\ TextNext
            /\ UNCHANGED <<machine, vars, routesVars, provisioningVars, detectorVars,
                           histogramVars, pacedVars>>
FramesStep == /\ machine = "frames" /\ PacedNext
              /\ UNCHANGED <<machine, vars, routesVars, provisioningVars, detectorVars,
                             histogramVars, textVars>>

MachinesNext == \/ ManagerStep \/ RoutesStep \/ FilesStep \/ DetectorStep \/ WindowStep
                \/ TextStep \/ FramesStep

MachinesSpec ==
    /\ MachinesInit
    /\ [][MachinesNext]_<<machine, vars, routesVars, provisioningVars, detectorVars, histogramVars,
                          textVars, pacedVars>>

(* Every machine keeps its variables in their ranges; the lock is held by    *)
(* exactly the managers in a critical section, the detector serves no more   *)
(* calls than it has threads, and no interval of the window is empty.        *)
MachinesTypeOK ==
    CASE machine = "manager"  -> TypeOK
      [] machine = "routes"   -> RoutesTypeOK
      [] machine = "files"    -> ProvisioningTypeOK
      [] machine = "detector" -> DetectorTypeOK
      [] machine = "window"   -> HistogramTypeOK
      [] machine = "text"     -> TextTypeOK
      [] machine = "frames"   -> PacedTypeOK
=============================================================================
