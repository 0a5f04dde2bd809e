--------------------------- MODULE GatewayRoutes ---------------------------
(***************************************************************************)
(* gateway/configuration.py: render() writes the NGINX configuration that  *)
(* admits a client by one public credential, holds back more requests than *)
(* a service has slots, and gives every service a credential of its own.   *)
(* How NGINX reads the text (phases, inheritance) is external and modelled *)
(* from the directives the text uses.                                      *)
(***************************************************************************)
EXTENDS Naturals, FiniteSets

CONSTANTS
    Requests,      \* requests open at one time
    MaxConnections \* MaxConnections[u]: max_connections

Upstreams == {"vlm", "yolo", "rag", "asr", "tts", "monitor"}
Owners == Upstreams \cup {"public"}

ASSUME RoutesAssumption == MaxConnections \in [Upstreams -> Nat \ {0}]

VARIABLES
    gNames,   \* the upstreams the configuration names
    gKeys,    \* the credential in each secret file
    gServing, \* NGINX runs with what render() returned
    gOpen     \* the requests: none, or what was asked, answered and passed on

routesVars == <<gNames, gKeys, gServing, gOpen>>

NoRequest == [path |-> "none"]

-----------------------------------------------------------------------------
(* render(): the locations. "sets" is whose credential the location puts in  *)
(* the Authorization header: its service's ("own"), none ("empty"), or it    *)
(* sets no header at all ("inherits").                                       *)

Location(path, method, to, sets, limited) ==
    [path |-> path, method |-> method, to |-> to, sets |-> sets, limited |-> limited]

VlmLocations ==
    {Location("/vlm/v1/models", "GET", "vlm", "inherits", FALSE),
     Location("/vlm/v1/chat/completions", "POST", "vlm", "inherits", TRUE),
     Location("/vlm/health/ready", "GET", "vlm", "inherits", FALSE)}

YoloLocations ==
    {Location("/yolo/health/ready", "GET", "yolo", "empty", FALSE),
     Location("/detector.v1.Detector/Detect", "POST", "yolo", "own", TRUE)}

(* A slip: the locations set the headers they need, but not Authorization.  *)
RagLocationsUnkeyed ==
    {Location("/rag/v1/embeddings", "POST", "rag", "other", TRUE),
     Location("/rag/v1/models", "GET", "rag", "other", FALSE),
     Location("/rag/health/ready", "GET", "rag", "other", FALSE)}

RagLocations ==
    {Location("/rag/v1/embeddings", "POST", "rag", "own", TRUE),
     Location("/rag/v1/models", "GET", "rag", "own", FALSE),
     Location("/rag/health/ready", "GET", "rag", "own", FALSE)}

AsrLocations ==
    {Location("/asr/v1/realtime", "GET", "asr", "own", TRUE),
     Location("/asr/health/ready", "GET", "asr", "own", FALSE)}

TtsLocations == {Location("/tts/v1/realtime", "GET", "tts", "own", TRUE)}
MonitorLocations == {Location("/monitor/v1/overview", "GET", "monitor", "own", TRUE)}

Locations ==
    LET all == VlmLocations \cup YoloLocations \cup RagLocations \cup AsrLocations
               \cup TtsLocations \cup MonitorLocations
    IN  {l \in all : l.to \in gNames}

Paths == {l.path : l \in Locations} \cup {"/health/live", "elsewhere"}

-----------------------------------------------------------------------------
RoutesTypeOK ==
    /\ {"vlm", "yolo"} \subseteq gNames /\ gNames \subseteq Upstreams
    /\ gKeys \in [Owners -> Owners] /\ gServing \in BOOLEAN
    /\ \A r \in Requests : gOpen[r] = NoRequest \/
         /\ gOpen[r].path \in Paths /\ gOpen[r].method \in {"GET", "POST"}
         /\ gOpen[r].code \in {200, 401, 403, 404, 429}
         /\ gOpen[r].to \in Upstreams \cup {"none"}

(* The secret files are distinct, or one holds what another one holds.      *)
RoutesInit ==
    /\ gNames \in {Upstreams, {"vlm", "yolo"}}
    /\ \/ gKeys = [o \in Owners |-> o]
       \/ \E u \in {"vlm", "rag"} : gKeys = [o \in Owners |-> IF o = u THEN "public" ELSE o]
    /\ gServing = FALSE /\ gOpen = [r \in Requests |-> NoRequest]

(* render() reads every secret of the services it names and refuses two      *)
(* that are equal; NGINX is started with what it returns.                    *)
Render ==
    /\ ~gServing
    /\ \A o, q \in gNames \cup {"public"} : o # q => gKeys[o] # gKeys[q]
    /\ gServing' = TRUE
    /\ UNCHANGED <<gNames, gKeys, gOpen>>

(* limit_conn: the requests that passed the count in the service's zone.    *)
InZone(u) == {r \in Requests : gOpen[r] # NoRequest /\ gOpen[r].to = u /\ gOpen[r].limited}

(* The Authorization header the service gets: what the location sets; what   *)
(* the server block sets (the VLM's) where a location sets none; else the    *)
(* client's own.                                                             *)
HeaderSent(l, credential) ==
    CASE l.sets = "own"      -> gKeys[l.to]
      [] l.sets = "empty"    -> "empty"
      [] l.sets = "inherits" -> gKeys["vlm"]
      [] OTHER -> credential

Answers(r, path, method, credential, code) ==
    gOpen' = [gOpen EXCEPT ![r] = [path |-> path, method |-> method, credential |-> credential,
                                   code |-> code, to |-> "none", limited |-> FALSE,
                                   header |-> "none"]]

(* A request of the path, by NGINX's phases: the server's test of the        *)
(* credential, the location, limit_conn, limit_except, the proxy.            *)
Unauthorized(r, path, method, credential) ==
    /\ credential # gKeys["public"]
    /\ Answers(r, path, method, credential, 401)

Unrouted(r, path, method, credential) ==
    /\ credential = gKeys["public"] /\ path \notin {l.path : l \in Locations}
    /\ Answers(r, path, method, credential, IF path = "/health/live" THEN 200 ELSE 404)

Limited(r, l, method, credential) ==
    /\ credential = gKeys["public"]
    /\ l.limited /\ Cardinality(InZone(l.to)) >= MaxConnections[l.to]
    /\ Answers(r, l.path, method, credential, 429)

Denied(r, l, method, credential) ==
    /\ credential = gKeys["public"] /\ method # l.method
    /\ l.limited => Cardinality(InZone(l.to)) < MaxConnections[l.to]
    /\ Answers(r, l.path, method, credential, 403)

Passed(r, l, method, credential) ==
    /\ credential = gKeys["public"] /\ method = l.method
    /\ l.limited => Cardinality(InZone(l.to)) < MaxConnections[l.to]
    /\ gOpen' = [gOpen EXCEPT ![r] =
          [path |-> l.path, method |-> method, credential |-> credential, code |-> 200,
           to |-> l.to, limited |-> l.limited, header |-> HeaderSent(l, credential)]]

Arrives(r) ==
    /\ gServing /\ gOpen[r] = NoRequest
    /\ \E method \in {"GET", "POST"}, credential \in {gKeys["public"], gKeys["tts"], "wrong"} :
         \/ \E path \in Paths : \/ Unauthorized(r, path, method, credential)
                                \/ Unrouted(r, path, method, credential)
         \/ \E l \in Locations : \/ Limited(r, l, method, credential)
                                 \/ Denied(r, l, method, credential)
                                 \/ Passed(r, l, method, credential)
    /\ UNCHANGED <<gNames, gKeys, gServing>>

Leaves(r) ==
    /\ gOpen[r] # NoRequest /\ gOpen' = [gOpen EXCEPT ![r] = NoRequest]
    /\ UNCHANGED <<gNames, gKeys, gServing>>

RoutesNext == Render \/ \E r \in Requests : Arrives(r) \/ Leaves(r)

RoutesSpec == RoutesInit /\ [][RoutesNext]_routesVars

-----------------------------------------------------------------------------
(* Properties.                                                              *)

(* A request that reaches a service was admitted by the public credential    *)
(* and carries the service's own instead, or none to YOLO's health port: the *)
(* public one and another service's go nowhere, whatever a location inherits *)
(* and whatever the secret files hold. No service has more requests than     *)
(* slots, however many are refused beside them.                              *)
EachServiceItsKey ==
    /\ \A r \in Requests : gOpen[r] # NoRequest /\ gOpen[r].to # "none" =>
         /\ gOpen[r].credential = gKeys["public"]
         /\ gOpen[r].header \in {gKeys[gOpen[r].to], "empty"} \ {gKeys["public"]}
         /\ gOpen[r].header = "empty" => gOpen[r].path = "/yolo/health/ready"
    /\ \A u \in Upstreams : Cardinality(InZone(u)) <= MaxConnections[u]
=============================================================================
