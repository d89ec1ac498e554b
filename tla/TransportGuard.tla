--------------------------- MODULE TransportGuard ---------------------------
(***************************************************************************)
(* The allowlists of hosts and origins: what normalisation makes of their  *)
(* entries, and which requests transportGuard lets through to MCP.         *)
(*                                                                         *)
(* A host is kept by its parts: its form ("v6" is an IPv6 literal without  *)
(* the brackets a URL needs), its id, and its port: "none", "*" or a       *)
(* number.  An entry or an origin has a scheme too, and an entry a path.   *)
(* Ids are compared as they are written; the name of a scheme may be one.  *)
(***************************************************************************)
CONSTANTS Ids, Ports

NoPort == "none"
AnyPort == "*"

ASSUME PartsAssumption == NoPort \notin Ports /\ AnyPort \notin Ports /\ "none" \notin Ids

NoScheme == "none"

Entries == [scheme : {NoScheme, "http", "https"}, form : {"name", "[v6]", "v6"},
            id : Ids, port : {NoPort, AnyPort} \cup Ports, path : BOOLEAN]
           \cup [scheme : {NoScheme, "http"}, form : {"empty"}, id : Ids,
                 port : {NoPort}, path : BOOLEAN]

\* What a client sends: it writes an IPv6 literal in brackets.
Headers(schemes) ==
  [scheme : schemes, form : {"name", "[v6]"}, id : Ids,
   port : {NoPort} \cup Ports, path : {FALSE}]

-----------------------------------------------------------------------------
HasColon(host) == host.form \in {"v6", "[v6]"} \/ host.port # NoPort

\* The colons of an unbracketed IPv6 literal pass for that of a port.
hasExplicitPort(host) == host.form = "v6" \/ host.port # NoPort

expandHost(host) ==
  IF host.form = "empty" THEN {}
  ELSE IF hasExplicitPort(host) THEN {host}
  ELSE {host, [host EXCEPT !.port = AnyPort]}

NormalizeHostEntry(entry) ==
  expandHost([entry EXCEPT !.scheme = NoScheme, !.path = FALSE])

NormalizeOriginEntry(entry) ==
  IF entry.scheme = NoScheme THEN NormalizeHostEntry(entry)
  ELSE expandHost([entry EXCEPT !.path = FALSE])

AllowedHosts(entries) == UNION {NormalizeHostEntry(e) : e \in entries}
AllowedOrigins(entries) == UNION {NormalizeOriginEntry(e) : e \in entries}

EqualButForPort(base, value) ==
  value.port # NoPort /\ value = [base EXCEPT !.port = value.port]

\* Whether a value begins with a base and a colon, which is that of its port or,
\* after a base that is only a name, that of its scheme.
HasPrefix(value, base) ==
  \/ EqualButForPort(base, value)
  \/ base.scheme = NoScheme /\ base.form = "name" /\ base.id = value.scheme

matches(value, allowed) ==
  \/ value \in allowed
  \/ \E a \in allowed : a.port = AnyPort /\ HasPrefix(value, a)

-----------------------------------------------------------------------------
(***************************************************************************)
(* A request.  Its body is within 4 MiB, longer and says so, or longer     *)
(* and sent in chunks.  NoHeader stands for an absent Host or Origin.      *)
(***************************************************************************)
NoHeader == [scheme |-> NoScheme, form |-> "empty", id |-> "none", port |-> NoPort,
             path |-> FALSE]

Requests == [path : {"/mcp", "/", "/health", "/other"}, method : {"GET", "POST"},
             body : {"small", "long", "chunked"}, json : BOOLEAN,
             host : Headers({NoScheme}) \cup {NoHeader},
             origin : Headers({"http", "https"}) \cup {NoHeader}]

\* The guard's checks, in its order; "mcp" hands the request on.
wrap(r, hosts, origins) ==
  CASE r.method = "POST" /\ r.body = "long" -> "413"
    [] r.method = "POST" /\ r.body # "long" /\ ~r.json -> "400"
    [] OTHER ->
         IF r.host = NoHeader \/ ~matches(r.host, hosts) THEN "421"
         ELSE IF r.origin # NoHeader /\ ~matches(r.origin, origins) THEN "403"
         ELSE "mcp"

\* MaxBytesReader: a body longer than it said is cut off while it is read.
Read(r) == IF r.method = "POST" /\ r.body = "chunked" THEN "cut" ELSE "served"

\* "/" as the MCP path is a pattern that takes every path.
Guarded(path, mcpPath) == path \in {mcpPath, "/"} \/ mcpPath = "/"

\* ServeMux prefers the more specific pattern: GET of the health check.
Answer(r, mcpPath, hosts, origins) ==
  IF r.path = "/health" /\ r.method = "GET" THEN "health"
  ELSE IF ~Guarded(r.path, mcpPath)
  THEN IF r.path = "/health" THEN "405" ELSE "404"
  ELSE IF wrap(r, hosts, origins) = "mcp" THEN Read(r)
  ELSE wrap(r, hosts, origins)

-----------------------------------------------------------------------------
(***************************************************************************)
(* What the configuration says of an entry: a host entry's scheme and the  *)
(* path of any entry do not count, an origin keeps its scheme; an entry    *)
(* without a port stands for all of them, and "*" for every port written.  *)
(***************************************************************************)
SamePlace(entry, value) ==
  /\ entry.form = value.form /\ entry.id = value.id
  /\ \/ entry.port \in {NoPort, value.port}
     \/ entry.port = AnyPort /\ value.port # NoPort

\* An origin entry without a scheme, and without a port of its own, that is
\* itself the name of the value's scheme: no place, as it is documented.
NamesScheme(entries, value) ==
  \E e \in entries : /\ e.scheme = NoScheme /\ e.form = "name" /\ e.id = value.scheme
                     /\ e.port \in {NoPort, AnyPort}

Admissible(r, hostEntries, originEntries) ==
  /\ r.method = "POST" => r.body = "small" /\ r.json
  /\ \E e \in hostEntries : SamePlace(e, r.host)
  /\ r.origin # NoHeader =>
       \E e \in originEntries : SamePlace(e, r.origin) /\ e.scheme = r.origin.scheme

\* What the guard makes of it: such an entry lets every origin of the scheme pass.
Admitted(r, hostEntries, originEntries) ==
  \/ Admissible(r, hostEntries, originEntries)
  \/ /\ NamesScheme(originEntries, r.origin)
     /\ Admissible([r EXCEPT !.origin = NoHeader], hostEntries, originEntries)
=============================================================================
