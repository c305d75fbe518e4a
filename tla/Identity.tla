------------------------------- MODULE Identity -------------------------------
(***************************************************************************)
(* What a row is called and what kind of service it is (identity.py).      *)
(* Each signal - a tunnel's command line, an alias, the container, the     *)
(* process, the headers, the port, the answer to the probe - contributes   *)
(* candidates <<name, role, confidence in percent>>, and identify weighs   *)
(* them.  The signals of a row change from one refresh to the next, and a  *)
(* refresh identifies twice: before the probe and, if it answered, after.  *)
(*                                                                         *)
(* Abstracted: a signal is the line of its rule table that matched first,  *)
(* taken from a few lines per table; a folder is what guess_project makes  *)
(* of it; the reasons are left out.                                        *)
(***************************************************************************)
EXTENDS Lists, SequencesExt

CONSTANT Signals  \* the signals a row can have: a set of records, see RowSignals

NoName == ""
Roles == {"frontend", "backend", "db", "cache", "proxy", "queue", "docker", "system", "tool",
          "tunnel", "unknown"}

-----------------------------------------------------------------------------
(* The rule tables. *)

ProcessRules ==
  [ postgres |-> <<"PostgreSQL", "db", 95>>, nginx |-> <<"Nginx", "proxy", 95>>,
    node |-> <<"Node.js app", "backend", 50>>, dockerproxy |-> <<"Docker port proxy", "docker", 90>>,
    helper |-> <<"App helper process", "tool", 40>> ]

WebProcessRules == [parcel |-> <<"Parcel dev server", "frontend", 90>>]

ImageRules == [postgres |-> <<"PostgreSQL", "db", 90>>, nginx |-> <<"Nginx", "proxy", 90>>]

HeaderRules == [nginx |-> <<"Nginx", "proxy", 70>>, express |-> <<"Express (Node.js)", "backend", 70>>]

KnownPorts ==
  [p \in {5432, 80} |-> IF p = 80 THEN <<"HTTP server", "proxy", 35>> ELSE <<"PostgreSQL", "db", 35>>]

NameRoles == [db |-> "db", web |-> "frontend", api |-> "backend"]

WebSignals == [vite |-> <<"Vite dev server", "frontend", 90>>, openapi |-> <<NoName, "backend", 80>>]

\* The frameworks first.
ProcessRule == Merged(WebProcessRules, ProcessRules)

ProbeKinds == {"html", "json", "text", "other"}

RowSignals ==
  [ port : {80, 5432, 45000}, processes : Seq(DOMAIN ProcessRule \cup {"kubectl", "ssh", "mystery"}), aliases : Seq({"Shop", "Api"}),
    image : DOMAIN ImageRules \cup {"none"}, label : DOMAIN NameRoles \cup {"x1", "none"},
    stack : {"shop", "none"}, namespace : {"prod", "none"}, folders : Seq({"outside", "hidden", "app"}),
    answered : BOOLEAN, header : DOMAIN HeaderRules \cup {"other", "none"},
    kind : ProbeKinds \cup DOMAIN WebSignals ]

ASSUME IdentityAssumption == Signals \subseteq RowSignals

VARIABLES
  signals,   \* what the machine shows of the row
  identity,  \* what the last refresh made of it
  named      \* the signals the last refresh saw, <<>> before the first

identityVars == <<signals, identity, named>>

-----------------------------------------------------------------------------
(* The candidates of a row, in the order of identify. *)

Tunnel(row) ==
  LET of == Only(row.processes, {"kubectl", "ssh"})
  IN IF of = <<>> THEN "none" ELSE of[1]

TunnelCandidates(row) ==
  CASE Tunnel(row) = "kubectl" -> <<<<"port-forward", "tunnel", 97>>>>
    [] Tunnel(row) = "ssh" -> <<<<"ssh tunnel", "tunnel", 95>>>>
    [] OTHER -> <<>>

AliasCandidates(row) == [i \in DOMAIN row.aliases |-> <<row.aliases[i], "unknown", 100>>]

HasContainer(row) == row.label # "none"

RoleOfName(label) == IF label \in DOMAIN NameRoles THEN NameRoles[label] ELSE "unknown"

ContainerCandidates(row) ==
  IF ~HasContainer(row) THEN <<>>
  ELSE (IF row.image \in DOMAIN ImageRules THEN <<ImageRules[row.image]>> ELSE <<>>) \o
       <<<<row.label, RoleOfName(row.label), IF RoleOfName(row.label) = "unknown" THEN 60 ELSE 75>>>>

\* Of the first three processes, the ones that some rule matches.
ProcessCandidates(row) ==
  LET first == SubSeq(row.processes, 1, IF Len(row.processes) < 3 THEN Len(row.processes) ELSE 3)
      known == Only(first, DOMAIN ProcessRule)
  IN [i \in DOMAIN known |-> ProcessRule[known[i]]]

HeaderCandidates(row) ==
  IF ~row.answered \/ row.header = "none" THEN <<>>
  ELSE IF row.header \in DOMAIN HeaderRules THEN <<HeaderRules[row.header]>>
  ELSE <<<<row.header, "backend", 50>>>>

PortCandidates(row) ==
  IF row.port \in DOMAIN KnownPorts THEN <<KnownPorts[row.port]>> ELSE <<>>

\* A page from what others take for a proxy does not make it a frontend.
ProbeCandidates(row, soFar) ==
  CASE ~row.answered -> <<>>
    [] row.answered /\ row.kind \in DOMAIN WebSignals -> <<WebSignals[row.kind]>>
    [] row.answered /\ row.kind = "json" -> <<<<NoName, "backend", 70>>>>
    [] row.answered /\ row.kind = "html" /\ \A i \in DOMAIN soFar : soFar[i][2] # "proxy" ->
         <<<<NoName, "frontend", 60>>>>
    [] OTHER -> <<>>

Candidates(row) ==
  LET soFar == TunnelCandidates(row) \o AliasCandidates(row) \o ContainerCandidates(row) \o
               ProcessCandidates(row) \o HeaderCandidates(row) \o PortCandidates(row)
  IN soFar \o ProbeCandidates(row, soFar)

-----------------------------------------------------------------------------
(* identify. *)

\* guess_project: the first folder under the home directory that is not a hidden one.
GuessProject(folders) ==
  LET good == Only(folders, Range(folders) \ {"outside", "hidden"})
  IN IF good = <<>> THEN "none" ELSE good[1]

Project(row) ==
  IF Tunnel(row) = "kubectl" /\ row.namespace # "none" THEN row.namespace
  ELSE IF HasContainer(row) /\ row.stack # "none" THEN row.stack
  ELSE GuessProject(row.folders)

Named(cs) == Only(cs, {c \in Range(cs) : c[1] # NoName})
WithRole(cs) == Only(cs, {c \in Range(cs) : c[2] # "unknown"})

\* max(..., key=confidence): the first of the most confident.
Surest(cs) ==
  cs[CHOOSE i \in DOMAIN cs : /\ \A j \in DOMAIN cs : cs[j][3] <= cs[i][3]
                              /\ \A j \in 1 .. i - 1 : cs[j][3] < cs[i][3]]

\* Every other candidate that agrees adds five percent, up to 99.
Corroborated(cs, best, role) ==
  LET agree == {c \in Range(cs) : c[2] = role \/ c[1] = best[1]}
      sum == best[3] + 5 * (Len(Only(cs, agree)) - 1)
  IN IF sum > 99 THEN 99 ELSE sum

\* The names for a container other than that of the Docker proxy.
Others(cs) == Only(Named(cs), {c \in Range(cs) : c[2] # "docker"})

Unnamed(row, cs) ==
  LET role == IF WithRole(cs) = <<>> THEN "unknown" ELSE Surest(WithRole(cs))[2]
  IN [service |-> IF row.processes # <<>> THEN "process" ELSE "Unknown",
      role |-> IF role = "unknown" /\ HasContainer(row) THEN "docker" ELSE role,
      confidence |-> IF row.processes # <<>> THEN 10 ELSE 0,
      project |-> Project(row)]

RoleOf(row, cs, best) ==
  LET surest == Surest(WithRole(cs))
      role == IF /\ WithRole(cs) # <<>>
                 /\ surest[3] > best[3] \/ best[2] = "unknown"
              THEN surest[2] ELSE best[2]
  IN IF role = "unknown" /\ HasContainer(row) THEN "docker" ELSE role

Identify(row) ==
  LET cs == Candidates(row)
      best == Surest(Named(cs))
      role == RoleOf(row, cs, best)
      other == Surest(Others(cs))
  IN IF Named(cs) = <<>> THEN Unnamed(row, cs)
     ELSE IF HasContainer(row) /\ role = "docker" /\ Others(cs) # <<>>
     THEN [service |-> other[1], role |-> other[2],
           confidence |-> Corroborated(cs, other, other[2]), project |-> Project(row)]
     ELSE [service |-> best[1], role |-> role,
           confidence |-> Corroborated(cs, best, role), project |-> Project(row)]

-----------------------------------------------------------------------------
(* Refreshes. *)

Unasked(row) == [row EXCEPT !.answered = FALSE]

\* refresh: every row is identified before the probe, which decides whether it gets the names
\* of the hosts file, and again if the probe answered.
Refresh ==
  /\ identity' = Merged([hosts |-> signals.port = 80 \/ Identify(Unasked(signals)).role = "proxy"],
                        Identify(signals))
  /\ named' = <<signals>>
  /\ UNCHANGED signals

\* The server starts or stops to answer, a container takes the port, another process joins,
\* the config gets other aliases.
SignalsChange(row) ==
  /\ \E part \in {"answered", "label", "aliases", "processes"} :
       row = [signals EXCEPT ![part] = row[part]]
  /\ signals' = row
  /\ UNCHANGED <<identity, named>>

IdentityInit ==
  /\ signals \in Signals
  /\ identity = [hosts |-> FALSE, service |-> "Unknown", role |-> "unknown", confidence |-> 0,
                 project |-> "none"]
  /\ named = <<>>

IdentityNext == Refresh \/ \E row \in Signals : SignalsChange(row)

IdentitySpec == IdentityInit /\ [][IdentityNext]_identityVars

-----------------------------------------------------------------------------
IdentityTypeOK ==
  /\ signals \in Signals /\ named \in {<<>>} \cup {<<s>> : s \in Signals}
  /\ identity.role \in Roles /\ identity.confidence \in 0 .. 99 /\ identity.hosts \in BOOLEAN

(* A row the config gives a name has that name, whatever else speaks for   *)
(* another: "Signals, strongest first: 1. user aliases from the config"    *)
(* (identity.py).  The branch for the Docker proxy must not lose it.       *)
AliasesName ==
  named # <<>> /\ named[1].aliases # <<>> => identity.service = named[1].aliases[1]

(* A signal that knows only what kind of thing answered "argues for the    *)
(* role and leaves the name to a signal that has one" (Candidate,          *)
(* identity.py): a row is not of unknown kind while some signal other than *)
(* the Docker proxy knows its kind.                                        *)
(* TLC refutes this; it has no run of its own (README, section 5).         *)
RoleSignalsArgue ==
  named # <<>> /\ identity.role = "unknown" =>
    \A i \in DOMAIN Candidates(named[1]) : Candidates(named[1])[i][2] \in {"unknown", "docker"}
=============================================================================
