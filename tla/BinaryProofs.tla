---------------------------- MODULE BinaryProofs ----------------------------
(***************************************************************************)
(* Proofs about Binary, for any scenarios, allowlists, ids and ports: the  *)
(* guard lets through what the configuration documents and, of the origins *)
(* whose scheme a listed entry is the name of, all; the invariant IInv is  *)
(* inductive, and the safety properties follow from the two.               *)
(***************************************************************************)
EXTENDS BinaryInvariant, TLAPS

-----------------------------------------------------------------------------
(* The guard. *)

\* The host of a request, or its origin, as a client writes it.
IsValue(v) == v \in Headers({NoScheme, "http", "https"}) \cup {NoHeader}

\* The parts of an entry or of a value, and that they are all there is to it.
Parts == [scheme : {NoScheme, "http", "https"}, form : {"name", "[v6]", "v6", "empty"},
          id : Ids \cup {"none"}, port : {NoPort, AnyPort} \cup Ports, path : BOOLEAN]

LEMMA EqualByParts ==
  ASSUME NEW a \in Parts, NEW b \in Parts
  PROVE  a = b <=> /\ a.scheme = b.scheme /\ a.form = b.form /\ a.id = b.id
                   /\ a.port = b.port /\ a.path = b.path
  BY DEF Parts

LEMMA EntryParts ==
  ASSUME NEW h \in Entries
  PROVE  h \in Parts /\ h.id \in Ids
  BY DEF Entries, Parts, NoScheme, NoPort

LEMMA ValueParts ==
  ASSUME NEW v, IsValue(v)
  PROVE  /\ v \in Parts /\ v.path = FALSE /\ v.port # AnyPort /\ v.form # "v6"
         /\ v.form = "empty" => v.id = "none"
<1>1. CASE v = NoHeader
  BY <1>1, PartsAssumption DEF NoHeader, Parts, NoScheme, NoPort, AnyPort
<1>2. CASE v # NoHeader
  BY <1>2, PartsAssumption DEF IsValue, Headers, Parts, NoScheme, NoPort, AnyPort
<1> QED BY <1>1, <1>2

\* The entry is nothing but the name of the value's scheme, with any port.
IsSchemeName(h, v) == /\ h.scheme = NoScheme /\ h.form = "name" /\ h.id = v.scheme
                      /\ h.port \in {NoPort, AnyPort}

\* What expandHost admits is the host itself, without a port every port of it,
\* and with "*" every port that is written; a name with any port is also the
\* prefix of every value of the scheme of that name.
LEMMA ExpandedMatches ==
  ASSUME NEW h \in Entries, h.path = FALSE, NEW v, IsValue(v)
  PROVE  matches(v, expandHost(h)) <=>
           (SamePlace(h, v) /\ h.scheme = v.scheme) \/ IsSchemeName(h, v)
<1>1. /\ h \in Parts /\ h.id \in Ids /\ v \in Parts
      /\ v.path = FALSE /\ v.port # AnyPort /\ v.form # "v6"
      /\ v.form = "empty" => v.id = "none"
  BY EntryParts, ValueParts
<1>2. CASE h.form = "empty"
  BY <1>1, <1>2, PartsAssumption DEF matches, expandHost, SamePlace, IsSchemeName
<1>3. DEFINE any == [h EXCEPT !.port = AnyPort]
      same(a) == a.scheme = v.scheme /\ a.form = v.form /\ a.id = v.id
<1>4. v = h <=> same(h) /\ h.port = v.port
  BY <1>1, EqualByParts
<1>5. v = [h EXCEPT !.port = v.port] <=> same(h)
  <2>1. /\ [h EXCEPT !.port = v.port] \in Parts
        /\ same([h EXCEPT !.port = v.port]) <=> same(h)
        /\ [h EXCEPT !.port = v.port].port = v.port
        /\ [h EXCEPT !.port = v.port].path = FALSE
    BY <1>1 DEF Parts
  <2> QED BY <1>1, <2>1, EqualByParts
<1>6. CASE h.form # "empty" /\ hasExplicitPort(h)
  <2>1. matches(v, expandHost(h)) <=> v = h \/ (h.port = AnyPort /\ HasPrefix(v, h))
    BY <1>6 DEF matches, expandHost
  <2>2. HasPrefix(v, h) <=>
          \/ v.port # NoPort /\ same(h)
          \/ h.scheme = NoScheme /\ h.form = "name" /\ h.id = v.scheme
    BY <1>5 DEF HasPrefix, EqualButForPort
  <2>3. h.form = "v6" \/ h.port # NoPort
    BY <1>6 DEF hasExplicitPort
  <2> QED BY <1>1, <1>4, <2>1, <2>2, <2>3 DEF SamePlace, IsSchemeName
<1>7. CASE h.form # "empty" /\ ~hasExplicitPort(h)
  <2>1. h.port = NoPort
    BY <1>7 DEF hasExplicitPort
  <2>2. any.port = AnyPort /\ any.scheme = h.scheme /\ any.form = h.form /\ any.id = h.id
    BY <1>1 DEF Parts
  <2>3. v = any \/ v = h => same(h)
    BY <1>4, <2>2
  <2>4. [any EXCEPT !.port = v.port] = [h EXCEPT !.port = v.port]
    BY <1>1 DEF Parts
  <2>5. matches(v, expandHost(h)) <=> v \in {h, any} \/ HasPrefix(v, any)
    BY <1>7, <2>1, <2>2 DEF matches, expandHost, AnyPort, NoPort
  <2>6. HasPrefix(v, any) <=>
          \/ v.port # NoPort /\ same(h)
          \/ h.scheme = NoScheme /\ h.form = "name" /\ h.id = v.scheme
    BY <1>5, <2>2, <2>4 DEF HasPrefix, EqualButForPort
  <2>7. same(h) /\ v.port = NoPort => v = h
    BY <1>4, <2>1
  <2> QED BY <2>1, <2>3, <2>5, <2>6, <2>7 DEF SamePlace, IsSchemeName
<1> QED BY <1>2, <1>6, <1>7

\* An entry as it is normalised: what is dropped does not change its place.
LEMMA StrippedEntry ==
  ASSUME NEW e \in Entries, NEW s \in {NoScheme, e.scheme}
  PROVE  /\ [e EXCEPT !.scheme = s, !.path = FALSE] \in Entries
         /\ [e EXCEPT !.scheme = s, !.path = FALSE].path = FALSE
         /\ [e EXCEPT !.scheme = s, !.path = FALSE].scheme = s
         /\ \A v : SamePlace([e EXCEPT !.scheme = s, !.path = FALSE], v) <=> SamePlace(e, v)
         /\ s = e.scheme =>
              \A v : IsSchemeName([e EXCEPT !.scheme = s, !.path = FALSE], v)
                      <=> IsSchemeName(e, v)
<1> DEFINE h == [e EXCEPT !.scheme = s, !.path = FALSE]
<1>1. h \in Entries /\ h.path = FALSE /\ h.scheme = s
  BY DEF Entries, NoScheme
<1>2. h.form = e.form /\ h.id = e.id /\ h.port = e.port
  BY DEF Entries
<1> QED BY <1>1, <1>2 DEF SamePlace, IsSchemeName

\* A list of hosts admits what one of its entries stands for.
LEMMA HostsAdmit ==
  ASSUME NEW entries \in SUBSET Entries, NEW v, IsValue(v), v.scheme = NoScheme
  PROVE  matches(v, AllowedHosts(entries)) <=> \E e \in entries : SamePlace(e, v)
<1>1. ASSUME NEW e \in entries
      PROVE  matches(v, NormalizeHostEntry(e)) <=> SamePlace(e, v)
  <2> DEFINE h == [e EXCEPT !.scheme = NoScheme, !.path = FALSE]
  <2>1. /\ h \in Entries /\ h.path = FALSE /\ h.scheme = NoScheme
        /\ SamePlace(h, v) <=> SamePlace(e, v)
    BY StrippedEntry
  <2> HIDE DEF h
  <2>2. ~IsSchemeName(h, v)
    BY <2>1, EntryParts, PartsAssumption DEF IsSchemeName, NoScheme
  <2>3. matches(v, expandHost(h)) <=> SamePlace(h, v)
    BY <2>1, <2>2, ExpandedMatches
  <2> QED BY <2>1, <2>3 DEF NormalizeHostEntry, h
<1>2. matches(v, AllowedHosts(entries)) <=>
        \E e \in entries : matches(v, NormalizeHostEntry(e))
  BY DEF AllowedHosts, matches
<1> QED BY <1>1, <1>2

\* A list of origins admits what one of its entries stands for under the
\* scheme the entry names; an entry without one admits the scheme it is the
\* name of, if it is, and else nothing.
LEMMA OriginsAdmit ==
  ASSUME NEW entries \in SUBSET Entries, NEW v, IsValue(v), v.scheme # NoScheme
  PROVE  matches(v, AllowedOrigins(entries)) <=>
           \/ \E e \in entries : SamePlace(e, v) /\ e.scheme = v.scheme
           \/ NamesScheme(entries, v)
<1>1. ASSUME NEW e \in entries
      PROVE  matches(v, NormalizeOriginEntry(e)) <=>
               (SamePlace(e, v) /\ e.scheme = v.scheme) \/ IsSchemeName(e, v)
  <2> DEFINE h == [e EXCEPT !.scheme = e.scheme, !.path = FALSE]
  <2>1. /\ h \in Entries /\ h.path = FALSE /\ h.scheme = e.scheme
        /\ SamePlace(h, v) <=> SamePlace(e, v)
        /\ IsSchemeName(h, v) <=> IsSchemeName(e, v)
    BY StrippedEntry
  <2>2. NormalizeOriginEntry(e) = expandHost(h)
    BY DEF NormalizeOriginEntry, NormalizeHostEntry, Entries
  <2> HIDE DEF h
  <2>3. matches(v, expandHost(h)) <=>
          (SamePlace(h, v) /\ h.scheme = v.scheme) \/ IsSchemeName(h, v)
    BY <2>1, ExpandedMatches
  <2> QED BY <2>1, <2>2, <2>3
<1>2. matches(v, AllowedOrigins(entries)) <=>
        \E e \in entries : matches(v, NormalizeOriginEntry(e))
  BY DEF AllowedOrigins, matches
<1>3. NamesScheme(entries, v) <=> \E e \in entries : IsSchemeName(e, v)
  BY DEF NamesScheme, IsSchemeName
<1> QED BY <1>1, <1>2, <1>3

\* Whatever the lists and the request: it reaches MCP exactly when the lists,
\* read as the configuration documents them, admit its host and its origin, its
\* body is one the guard takes, and its path is the endpoint's; or when all of
\* this is so but for its origin, of whose scheme an entry is the name
\* (.env.example:27-33, 85-89; security.go:15-36).
THEOREM GuardAdmits ==
  ASSUME NEW hosts \in SUBSET Entries, NEW origins \in SUBSET Entries,
         NEW r \in Requests, NEW path, WellFormed(path)
  PROVE  Answer(r, path, AllowedHosts(hosts), AllowedOrigins(origins)) = "served"
           <=> /\ Admitted(r, hosts, origins)
               /\ ~(r.path = "/health" /\ r.method = "GET")
               /\ path # "/" => r.path \in {path, "/"}
<1> DEFINE H == AllowedHosts(hosts)
           O == AllowedOrigins(origins)
<1>1. /\ r.method \in {"GET", "POST"} /\ r.body \in {"small", "long", "chunked"}
      /\ r.json \in BOOLEAN
  BY DEF Requests
<1>2. r.host # NoHeader /\ matches(r.host, H) <=> \E e \in hosts : SamePlace(e, r.host)
  <2>1. IsValue(r.host) /\ r.host.scheme = NoScheme
    <3>1. r.host \in Headers({NoScheme}) \/ r.host = NoHeader
      BY DEF Requests
    <3>2. r.host \in Headers({NoScheme}) => IsValue(r.host) /\ r.host.scheme = NoScheme
      BY DEF IsValue, Headers
    <3>3. NoHeader.scheme = NoScheme
      BY DEF NoHeader
    <3> QED BY <3>1, <3>2, <3>3 DEF IsValue
  <2>2. r.host = NoHeader => ~ \E e \in hosts : SamePlace(e, r.host)
    BY PartsAssumption, EntryParts DEF SamePlace, NoHeader
  <2> QED BY <2>1, <2>2, HostsAdmit
<1>3. r.origin # NoHeader =>
        (matches(r.origin, O) <=>
           \/ \E e \in origins : SamePlace(e, r.origin) /\ e.scheme = r.origin.scheme
           \/ NamesScheme(origins, r.origin))
  <2>1. r.origin # NoHeader => IsValue(r.origin) /\ r.origin.scheme # NoScheme
    BY DEF Requests, IsValue, Headers, NoScheme
  <2> QED BY <2>1, OriginsAdmit
<1> HIDE DEF H, O
<1>4. wrap(r, H, O) = "mcp" /\ Read(r) = "served" <=> Admitted(r, hosts, origins)
  <2>1. r.origin = NoHeader => ~NamesScheme(origins, r.origin)
    BY EntryParts, PartsAssumption DEF NamesScheme, NoHeader, NoScheme
  <2> DEFINE bare == [r EXCEPT !.origin = NoHeader]
  <2>2. /\ bare.method = r.method /\ bare.body = r.body /\ bare.json = r.json
        /\ bare.host = r.host /\ bare.origin = NoHeader
    BY DEF Requests
  <2> HIDE DEF bare
  <2>3. Admissible(bare, hosts, origins) <=>
          /\ r.method = "POST" => r.body = "small" /\ r.json
          /\ \E e \in hosts : SamePlace(e, r.host)
    BY <2>2 DEF Admissible
  <2>4. Admitted(r, hosts, origins) <=>
          \/ Admissible(r, hosts, origins)
          \/ NamesScheme(origins, r.origin) /\ Admissible(bare, hosts, origins)
    BY DEF Admitted, bare
  <2> QED BY <1>1, <1>2, <1>3, <2>1, <2>3, <2>4 DEF wrap, Read, Admissible
<1>5. Guarded(r.path, path) <=> (path # "/" => r.path \in {path, "/"})
  BY DEF Guarded
<1>6. wrap(r, H, O) # "served"
  BY <1>1 DEF wrap
<1>7. Answer(r, path, H, O) = "served" <=>
        /\ ~(r.path = "/health" /\ r.method = "GET")
        /\ Guarded(r.path, path) /\ wrap(r, H, O) = "mcp" /\ Read(r) = "served"
  BY <1>6 DEF Answer
<1> QED BY <1>4, <1>5, <1>7 DEF H, O

-----------------------------------------------------------------------------
(* The settings. *)

\* A variable whose every text is meaningless, and a required one that is not
\* set, is reported.
LEMMA UnusableReported ==
  ASSUME \A n \in Names : Settled(n)
  PROVE  Unusable \subseteq Reported(values)
<1> SUFFICES ASSUME NEW n \in Unusable PROVE n \in Reported(values)
  OBVIOUS
<1>1. n \in Names /\ Settled(n)
  BY DEF Unusable
<1>2. CASE Written(n) = {}
  BY <1>1, <1>2 DEF Unusable, Settled, Reported, required
<1>3. CASE Written(n) # {}
  <2>1. IsSet(values, n) /\ values[n] \in Meaningless(n)
    BY <1>1, <1>3 DEF Unusable, Settled
  <2>2. /\ DOMAIN WholeNumber = {"-1", "0", "10"}
        /\ AtMostZero("0") /\ AtMostZero("-1")
    BY DEF WholeNumber, AtMostZero
  <2>3. n \in {"PORT", "ENVIRONMENT", "HTTP_MAX_CONNECTIONS", "HTTP_TIMEOUT_SECONDS",
               "ALLOWED_HOSTS", "ALLOWED_ORIGINS"}
    BY <2>1 DEF Meaningless
  <2>4. CASE n = "PORT"
    BY <1>1, <2>1, <2>2, <2>4 DEF Meaningless, Reported, integer
  <2>5. CASE n = "ENVIRONMENT"
    BY <1>1, <2>1, <2>5 DEF Meaningless, Reported, environment, Environments
  <2>6. CASE n = "HTTP_MAX_CONNECTIONS"
    <3>1. values[n] \in {"word", ""} \/ AtMostZero(values[n])
      BY <2>1, <2>2, <2>6 DEF Meaningless
    <3>2. positiveInteger(values, n)
      BY <2>1, <2>2, <3>1 DEF positiveInteger, integer
    <3> QED BY <1>1, <2>6, <3>2 DEF Reported
  <2>7. CASE n = "HTTP_TIMEOUT_SECONDS"
    <3>1. values[n] \in {"word", ""} \/ AtMostZero(values[n])
      BY <2>1, <2>2, <2>7 DEF Meaningless
    <3>2. positiveFloat(values, n)
      BY <2>1, <2>2, <3>1 DEF positiveFloat, Floats
    <3> QED BY <1>1, <2>7, <3>2 DEF Reported
  <2>8. CASE n \in {"ALLOWED_HOSTS", "ALLOWED_ORIGINS"}
    BY <1>1, <2>1, <2>8, ListsAssumption DEF Meaningless, Reported, list
  <2> QED BY <2>3, <2>4, <2>5, <2>6, <2>7, <2>8
<1> QED BY <1>2, <1>3

\* The lists a handler is built with are those of the settings.
LEMMA ListsOfEntries ==
  ASSUME Reported(values) = {}
  PROVE  Hosts \subseteq Entries /\ Origins \subseteq Entries
<1>1. IsSet(values, "ALLOWED_HOSTS") => values["ALLOWED_HOSTS"] \in DOMAIN HostLists
  BY DEF Reported, list, Names
<1>2. IsSet(values, "ALLOWED_ORIGINS") => values["ALLOWED_ORIGINS"] \in DOMAIN OriginLists
  BY DEF Reported, list, Names
<1> QED BY <1>1, <1>2, EntriesAssumption DEF Hosts, Origins, Listed

-----------------------------------------------------------------------------
(* The invariant is inductive. *)

USE DEF server, config, stdio, StillRuns, Gathering, BeforeBuild, Startable, IsStdio, IsHTTP

LEMMA InitInv == Init => IInv
<1> SUFFICES ASSUME Init PROVE IInv
  OBVIOUS
<1> USE DEF Init, Server!Init
<1>1. DOMAIN values = {}
  OBVIOUS
<1>2. TypeOK
  <2>1. pairs \in Seq(Keys \X STRING)
    OBVIOUS
  <2>2. exit \in StillRuns..2
    BY DEF StillRuns
  <2>3. trouble = {} /\ err = {} /\ reported = {} /\ left = {}
    OBVIOUS
  <2> QED BY <1>1, <2>1, <2>2, <2>3 DEF TypeOK, ConfigTypeOK
<1>3. GatherInv /\ PutInv /\ SettingsInv /\ TransportInv
  BY <1>1 DEF GatherInv, PutInv, Gathering, SettingsInv, BeforeBuild, TransportInv
<1>4. StdioInv /\ ServerInv /\ GuardInv /\ ExitTellsFailure /\ LogEndsClosed
  BY DEF StdioInv, ServerInv, GuardInv, ExitTellsFailure, LogEndsClosed
<1> QED BY <1>2, <1>3, <1>4 DEF IInv

\* The .env file, key by key.
LEMMA TakeDotEnvInv ==
  ASSUME IInv, NEW key \in left, TakeDotEnv(key)
  PROVE  IInv'
<1>1. /\ pc = "gather" /\ left' = left \ {key} /\ key \in Keys
      /\ key \in DOMAIN given.dotenv /\ given.dotenv[key] \in STRING
      /\ UNCHANGED <<given, pc, reported, signalled, stdio, exit, trouble, handler, answer,
                     server>>
  BY ScenariosAssumption DEF TakeDotEnv, IInv, TypeOK, ConfigTypeOK, GatherInv
<1>2. Taken' = Taken \cup {key}
  BY <1>1 DEF Taken
<1>3. ConfigTypeOK' /\ GatherInv'
  <2>1. CASE given.transport = "stdio"
    <3>1. values' = Put(values, key, given.dotenv[key]) /\ UNCHANGED pairs
      BY <2>1 DEF TakeDotEnv
    <3> DEFINE name == ToLower(key)
    <3>2. /\ DOMAIN values' = DOMAIN values \cup {name} /\ name \in Names
          /\ values'[name] = given.dotenv[key]
          /\ \A n \in DOMAIN values : n # name => values'[n] = values[n]
      BY <1>1, <3>1 DEF Put, ToLower, Keys
    <3>3. ConfigTypeOK'
      BY <1>1, <3>1, <3>2 DEF IInv, TypeOK, ConfigTypeOK
    <3>4. ASSUME NEW n \in Names
          PROVE  IF TakenTexts(n)' = {} THEN ~IsSet(values', n)
                 ELSE IsSet(values', n) /\ values'[n] \in TakenTexts(n)'
      <4>1. CASE n = name
        <5>1. given.dotenv[key] \in TakenTexts(n)'
          BY <1>1, <1>2, <4>1 DEF TakenTexts, WrittenIn
        <5> QED BY <3>2, <4>1, <5>1 DEF IsSet
      <4>2. CASE n # name
        <5>1. TakenTexts(n)' = TakenTexts(n)
          BY <1>1, <1>2, <4>2 DEF TakenTexts, WrittenIn
        <5>2. IsSet(values', n) <=> IsSet(values, n)
          BY <3>2, <4>2 DEF IsSet
        <5> QED BY <1>1, <2>1, <3>2, <4>2, <5>1, <5>2 DEF IsSet, IInv, GatherInv
      <4> QED BY <4>1, <4>2
    <3> QED BY <1>1, <2>1, <3>1, <3>3, <3>4 DEF IInv, GatherInv
  <2>2. CASE given.transport # "stdio"
    <3>1. pairs' = Append(pairs, <<key, given.dotenv[key]>>) /\ UNCHANGED values
      BY <2>2 DEF TakeDotEnv
    <3>2. pairs \in Seq(Keys \X STRING)
      BY DEF IInv, TypeOK, ConfigTypeOK
    <3>3. /\ pairs' \in Seq(Keys \X STRING) /\ Len(pairs') = Len(pairs) + 1
          /\ DOMAIN pairs' = DOMAIN pairs \cup {Len(pairs) + 1}
          /\ \A i \in DOMAIN pairs : pairs'[i] = pairs[i]
          /\ pairs'[Len(pairs) + 1] = <<key, given.dotenv[key]>>
      BY <1>1, <3>1, <3>2
    <3>4. ConfigTypeOK'
      BY <1>1, <3>1, <3>3 DEF IInv, TypeOK, ConfigTypeOK
    <3>5. \A i \in DOMAIN pairs' : /\ pairs'[i][1] \in Taken'
                                   /\ pairs'[i][2] = given'.dotenv[pairs'[i][1]]
      BY <1>1, <1>2, <2>2, <3>3 DEF IInv, GatherInv
    <3>6. \A k \in Taken' : \E i \in DOMAIN pairs' : pairs'[i][1] = k
      BY <1>1, <1>2, <2>2, <3>3 DEF IInv, GatherInv
    <3> QED BY <1>1, <2>2, <3>1, <3>4, <3>5, <3>6 DEF IInv, GatherInv
  <2> QED BY <2>1, <2>2
<1>4. PutInv' /\ SettingsInv' /\ TransportInv'
  BY <1>1 DEF IInv, PutInv, Gathering, SettingsInv, BeforeBuild, TransportInv
<1>5. StdioInv' /\ ServerInv' /\ ExitTellsFailure' /\ LogEndsClosed'
  BY <1>1 DEF IInv, StdioInv, ServerInv, ExitTellsFailure, LogEndsClosed
<1>6. GuardInv'
  BY <1>1 DEF IInv, GuardInv, ServerInv
<1>7. TypeOK'
  BY <1>1, <1>3 DEF IInv, TypeOK
<1> QED BY <1>3, <1>4, <1>5, <1>6, <1>7 DEF IInv

\* What a name may be written as is the scenario's; what is settled stays so.
LEMMA SettledKept ==
  ASSUME UNCHANGED <<given, values>>
  PROVE  \A n : Written(n)' = Written(n) /\ (Settled(n)' <=> Settled(n))
BY DEF Settled, Written, WrittenIn

\* A step past the configuration keeps it.
LEMMA ConfigKept ==
  ASSUME IInv, UNCHANGED config, reported = {},
         pc \notin BeforeBuild, pc' \notin BeforeBuild, trouble \subseteq trouble'
  PROVE  ConfigTypeOK' /\ GatherInv' /\ PutInv' /\ SettingsInv'
<1>1. ConfigTypeOK' /\ GatherInv'
  BY DEF IInv, TypeOK, ConfigTypeOK, GatherInv
<1>2. PutInv'
  <2>1. \A i : NameOf(i)' = NameOf(i)
    BY DEF NameOf
  <2>2. Startable' => Startable
    OBVIOUS
  <2> QED BY <2>1, <2>2, SettledKept DEF IInv, PutInv
<1>3. SettingsInv'
  BY DEF IInv, SettingsInv
<1> QED BY <1>1, <1>2, <1>3

\* A step that leaves the handler, its settings and its answers alone.
LEMMA GuardKept ==
  ASSUME IInv, UNCHANGED <<values, handler, answer>>,
         pc \in BeforeBuild \/ pc' \notin BeforeBuild
  PROVE  GuardInv'
<1>1. UNCHANGED <<MCPPath(values), Hosts, Origins, Reported(values)>>
  BY DEF MCPPath, Hosts, Origins, Listed, IsSet, Reported, required, integer,
         positiveInteger, positiveFloat, environment, list
<1> QED BY <1>1 DEF IInv, GuardInv

\* A server that is not there yet answers nothing.
LEMMA NoHandler ==
  ASSUME IInv, UNCHANGED <<handler, answer>>, pc \notin {"serving", "exited"}
  PROVE  GuardInv'
BY DEF IInv, ServerInv, GuardInv

LEMMA ParseFlagInv ==
  ASSUME IInv, ParseFlag
  PROVE  IInv'
<1>1. /\ pc = "flags"
      /\ UNCHANGED <<config, signalled, stdio, handler, answer, server>>
      /\ \/ /\ given.transport = "other" /\ pc' = "exited" /\ exit' = 1
            /\ trouble' = trouble \cup {"flag"}
         \/ given.transport # "other" /\ pc' = "dotenv" /\ UNCHANGED <<exit, trouble>>
  BY DEF ParseFlag, ExitWith, Goto
<1>2. ConfigTypeOK' /\ GatherInv' /\ PutInv' /\ SettingsInv'
  BY <1>1 DEF IInv, TypeOK, ConfigTypeOK, GatherInv, PutInv, SettingsInv
<1>3. TransportInv' /\ StdioInv' /\ ServerInv' /\ LogEndsClosed' /\ ExitTellsFailure'
  BY <1>1 DEF IInv, TransportInv, StdioInv, ServerInv, LogEndsClosed, ExitTellsFailure
<1>4. TypeOK'
  <2>1. exit' \in StillRuns..2 /\ (exit' = StillRuns <=> pc' # "exited")
    BY <1>1 DEF IInv, TypeOK
  <2>2. trouble' \subseteq Failures
    BY <1>1 DEF IInv, TypeOK, Failures
  <2> QED BY <1>1, <1>2, <2>1, <2>2 DEF IInv, TypeOK, Failures
<1>5. GuardInv'
  BY <1>1, NoHandler
<1> QED BY <1>2, <1>3, <1>4, <1>5 DEF IInv

LEMMA ReadDotEnvInv ==
  ASSUME IInv, ReadDotEnv
  PROVE  IInv'
<1>1. /\ pc = "dotenv"
      /\ UNCHANGED <<given, pairs, values, reported, signalled, stdio, handler, answer, server>>
      /\ \/ /\ pc' = "exited" /\ exit' = 1 /\ UNCHANGED left
            /\ trouble' = trouble \cup {"dotenv"}
         \/ pc' = "gather" /\ left' = DOMAIN given.dotenv /\ UNCHANGED <<exit, trouble>>
  BY DEF ReadDotEnv, ExitWith, Goto
<1>2. ConfigTypeOK'
  BY <1>1, ScenariosAssumption DEF IInv, TypeOK, ConfigTypeOK
<1>3. GatherInv'
  <2>1. pc' = "gather" => \A n : Taken' = {} /\ TakenTexts(n)' = {}
    BY <1>1 DEF Taken, TakenTexts, WrittenIn
  <2> QED BY <1>1, <2>1 DEF IInv, GatherInv, IsSet
<1>4. PutInv' /\ SettingsInv'
  BY <1>1 DEF IInv, PutInv, SettingsInv
<1>5. TransportInv' /\ StdioInv' /\ ServerInv' /\ LogEndsClosed' /\ ExitTellsFailure'
  BY <1>1 DEF IInv, TransportInv, StdioInv, ServerInv, LogEndsClosed, ExitTellsFailure
<1>6. TypeOK'
  <2>1. exit' \in StillRuns..2 /\ (exit' = StillRuns <=> pc' # "exited")
    BY <1>1 DEF IInv, TypeOK
  <2>2. trouble' \subseteq Failures
    BY <1>1 DEF IInv, TypeOK, Failures
  <2> QED BY <1>1, <1>2, <2>1, <2>2 DEF IInv, TypeOK, Failures
<1>7. GuardInv'
  BY <1>1, NoHandler
<1> QED BY <1>2, <1>3, <1>4, <1>5, <1>6, <1>7 DEF IInv

\* The environment's last pair of a name is the one to win.
LEMMA WrittenByEnviron ==
  ASSUME given.environ \in Seq(Keys \X STRING), NEW e \in DOMAIN given.environ,
         \A j \in DOMAIN given.environ :
           j > e => ToLower(given.environ[j][1]) # ToLower(given.environ[e][1])
  PROVE  given.environ[e][2] \in Written(ToLower(given.environ[e][1]))
<1> DEFINE here == {i \in DOMAIN given.environ :
                      ToLower(given.environ[i][1]) = ToLower(given.environ[e][1])}
<1>1. e \in here /\ \A j \in here : j <= e
  OBVIOUS
<1> QED BY <1>1 DEF Written

\* A name the environment does not have is the file's.
LEMMA WrittenByFile ==
  ASSUME NEW n, \A e \in DOMAIN given.environ : ToLower(given.environ[e][1]) # n
  PROVE  Written(n) = {given.dotenv[k] : k \in WrittenIn(DOMAIN given.dotenv, n)}
BY DEF Written

\* The environment goes last, and the file is all taken by then.
LEMMA TakeEnvironInv ==
  ASSUME IInv, TakeEnviron
  PROVE  IInv'
<1> DEFINE env == given.environ
           L == Len(pairs)
<1>1. /\ pc = "gather" /\ left = {} /\ pc' = "load" /\ pairs' = pairs \o env
      /\ UNCHANGED <<given, left, values, reported, signalled, stdio, exit, trouble, handler,
                     answer, server>>
  BY DEF TakeEnviron, PairsOf, Goto
<1>2. given \in Scenarios /\ env \in Seq(Keys \X STRING) /\ pairs \in Seq(Keys \X STRING)
  BY ScenariosAssumption DEF IInv, TypeOK, ConfigTypeOK
<1>3. /\ pairs' \in Seq(Keys \X STRING)
      /\ L \in Nat /\ DOMAIN pairs = 1..L
      /\ \A i \in DOMAIN pairs : i \in DOMAIN pairs' /\ pairs'[i] = pairs[i]
      /\ \A e \in DOMAIN env : L + e \in DOMAIN pairs' /\ pairs'[L + e] = env[e] /\ L + e > L
      /\ \A i \in DOMAIN pairs' : i \in 1..L \/ i - L \in DOMAIN env
  BY <1>1, <1>2
<1>4. Taken = DOMAIN given.dotenv
  BY <1>1 DEF Taken
<1>5. \A n : Written(n)' = Written(n) /\ (Settled(n)' <=> Settled(n))
  BY <1>1, SettledKept
<1>6. ASSUME NEW i \in DOMAIN pairs',
             \A j \in DOMAIN pairs' : j > i => ToLower(pairs'[j][1]) # ToLower(pairs'[i][1])
      PROVE  pairs'[i][2] \in Written(ToLower(pairs'[i][1]))
  <2>1. CASE i \in 1..L
    <3>1. \A e \in DOMAIN env : ToLower(env[e][1]) # ToLower(pairs[i][1])
      BY <1>3, <1>6, <2>1
    <3>2. pairs[i][1] \in Taken /\ pairs[i][2] = given.dotenv[pairs[i][1]]
      BY <1>1, <1>3, <2>1 DEF IInv, GatherInv
    <3>3. pairs[i][2] \in {given.dotenv[k] : k \in WrittenIn(DOMAIN given.dotenv,
                                                            ToLower(pairs[i][1]))}
      BY <1>4, <3>2 DEF WrittenIn
    <3> QED BY <1>3, <2>1, <3>1, <3>3, WrittenByFile
  <2>2. CASE i - L \in DOMAIN env
    <3> DEFINE e == i - L
    <3>1. i \in Int /\ i = L + e /\ pairs'[i] = env[e] /\ e \in Int
      <4>1. i \in Int
        BY <1>3
      <4> QED BY <1>3, <2>2, <4>1
    <3>2. ASSUME NEW j \in DOMAIN env, j > e
          PROVE  ToLower(env[j][1]) # ToLower(env[e][1])
      <4>1. L + j \in DOMAIN pairs' /\ pairs'[L + j] = env[j] /\ j \in Int
        BY <1>2, <1>3
      <4>2. L + j > i
        BY <1>3, <3>1, <3>2, <4>1
      <4> QED BY <1>6, <3>1, <4>1, <4>2
    <3> QED BY <1>2, <2>2, <3>1, <3>2, WrittenByEnviron
  <2> QED BY <1>3, <2>1, <2>2
<1>7. ASSUME NEW n \in Names, \A i \in DOMAIN pairs' : ToLower(pairs'[i][1]) # n
      PROVE  Settled(n)
  <2>1. \A e \in DOMAIN env : ToLower(env[e][1]) # n
    BY <1>3, <1>7
  <2>2. Written(n) = TakenTexts(n)
    BY <1>4, <2>1, WrittenByFile DEF TakenTexts
  <2>3. CASE given.transport = "stdio"
    BY <1>1, <2>2, <2>3 DEF Settled, IInv, GatherInv
  <2>4. CASE given.transport # "stdio"
    <3>1. \A k \in Taken : ToLower(k) # n
      BY <1>1, <1>3, <1>7, <2>4 DEF IInv, GatherInv
    <3>2. TakenTexts(n) = {}
      BY <3>1 DEF TakenTexts, WrittenIn
    <3> QED BY <1>1, <2>2, <2>4, <3>2 DEF Settled, IsSet, IInv, GatherInv
  <2> QED BY <2>3, <2>4
<1>8. ConfigTypeOK' /\ GatherInv' /\ SettingsInv'
  BY <1>1, <1>3 DEF IInv, TypeOK, ConfigTypeOK, GatherInv, SettingsInv
<1>9. PutInv'
  BY <1>5, <1>6, <1>7 DEF PutInv, NameOf
<1>10. TransportInv' /\ StdioInv' /\ ServerInv' /\ LogEndsClosed' /\ ExitTellsFailure'
  BY <1>1 DEF IInv, TransportInv, StdioInv, ServerInv, LogEndsClosed, ExitTellsFailure
<1>11. TypeOK'
  BY <1>1, <1>8 DEF IInv, TypeOK
<1>12. GuardInv'
  BY <1>1, NoHandler
<1> QED BY <1>8, <1>9, <1>10, <1>11, <1>12 DEF IInv

\* A pair that is put settles its name, unless the name is to be put again.
LEMMA PutPairInv ==
  ASSUME IInv, PutPair
  PROVE  IInv'
<1> DEFINE name == ToLower(pairs[1][1])
<1>1. /\ pc = "load" /\ pairs # <<>> /\ pairs' = Tail(pairs)
      /\ values' = Put(values, pairs[1][1], pairs[1][2])
      /\ UNCHANGED <<given, left, pc, reported, signalled, stdio, exit, trouble, handler,
                     answer, server>>
  BY DEF PutPair
<1>2. /\ pairs \in Seq(Keys \X STRING) /\ pairs' \in Seq(Keys \X STRING)
      /\ 1 \in DOMAIN pairs /\ pairs[1] \in Keys \X STRING
      /\ \A i \in DOMAIN pairs' : i + 1 \in DOMAIN pairs /\ pairs'[i] = pairs[i + 1] /\ i \in Nat
      /\ \A i \in DOMAIN pairs : i = 1 \/ (i > 1 /\ i - 1 \in DOMAIN pairs')
  BY <1>1 DEF IInv, TypeOK, ConfigTypeOK
<1>3. /\ DOMAIN values' = DOMAIN values \cup {name} /\ name \in Names
      /\ values'[name] = pairs[1][2]
      /\ \A n \in DOMAIN values : n # name => values'[n] = values[n]
  BY <1>1, <1>2 DEF Put, ToLower, Keys
<1>4. Startable
  BY <1>1 DEF IInv, ServerInv
<1>5. \A n : Written(n)' = Written(n)
  BY <1>1 DEF Written, WrittenIn
<1>6. ASSUME NEW i \in DOMAIN pairs',
             \A j \in DOMAIN pairs' : j > i => ToLower(pairs'[j][1]) # ToLower(pairs'[i][1])
      PROVE  pairs'[i][2] \in Written(ToLower(pairs'[i][1]))
  <2>1. ASSUME NEW j \in DOMAIN pairs, j > i + 1
        PROVE  NameOf(j) # NameOf(i + 1)
    <3>1. j \in Int /\ j - 1 \in DOMAIN pairs' /\ pairs'[j - 1] = pairs[j] /\ j - 1 > i
      <4>1. j \in Int /\ i \in Nat /\ j - 1 \in DOMAIN pairs'
        BY <1>2, <2>1
      <4>2. pairs'[j - 1] = pairs[j - 1 + 1] /\ j - 1 + 1 = j
        BY <1>2, <4>1
      <4> QED BY <2>1, <4>1, <4>2
    <3> QED BY <1>2, <1>6, <3>1 DEF NameOf
  <2> QED BY <1>1, <1>2, <1>4, <2>1 DEF IInv, PutInv, NameOf
<1>7. ASSUME NEW n \in Names, \A i \in DOMAIN pairs' : ToLower(pairs'[i][1]) # n
      PROVE  Settled(n)'
  <2>1. ASSUME NEW j \in DOMAIN pairs, j # 1
        PROVE  NameOf(j) # n
    <3>1. j \in Int /\ j - 1 \in DOMAIN pairs'
      BY <1>2, <2>1
    <3>2. pairs'[j - 1] = pairs[j - 1 + 1] /\ j - 1 + 1 = j
      BY <1>2, <3>1
    <3> QED BY <1>7, <3>1, <3>2 DEF NameOf
  <2>2. CASE n = name
    <3>1. \A j \in DOMAIN pairs : j > 1 => NameOf(j) # NameOf(1)
      BY <2>1, <2>2 DEF NameOf
    <3>2. pairs[1][2] \in Written(n)
      BY <1>1, <1>2, <1>4, <2>2, <3>1 DEF IInv, PutInv, NameOf
    <3> QED BY <1>3, <1>5, <2>2, <3>2 DEF Settled, IsSet
  <2>3. CASE n # name
    <3>1. \A i \in DOMAIN pairs : NameOf(i) # n
      BY <2>1, <2>3 DEF NameOf
    <3>2. Settled(n)
      BY <1>1, <1>4, <3>1 DEF IInv, PutInv
    <3> QED BY <1>3, <1>5, <2>3, <3>2 DEF Settled, IsSet
  <2> QED BY <2>2, <2>3
<1>8. ConfigTypeOK' /\ GatherInv' /\ SettingsInv'
  BY <1>1, <1>2, <1>3 DEF IInv, TypeOK, ConfigTypeOK, GatherInv, SettingsInv
<1>9. PutInv'
  BY <1>5, <1>6, <1>7 DEF PutInv, NameOf
<1>10. TransportInv' /\ StdioInv' /\ ServerInv' /\ LogEndsClosed' /\ ExitTellsFailure'
  BY <1>1 DEF IInv, TransportInv, StdioInv, ServerInv, LogEndsClosed, ExitTellsFailure
<1>11. TypeOK'
  BY <1>1, <1>8 DEF IInv, TypeOK
<1>12. GuardInv'
  BY <1>1, NoHandler
<1> QED BY <1>8, <1>9, <1>10, <1>11, <1>12 DEF IInv

LEMMA ReadSettingsInv ==
  ASSUME IInv, ReadSettings
  PROVE  IInv'
<1>1. /\ pc = "load" /\ pairs = <<>> /\ reported' = Reported(values)
      /\ UNCHANGED <<given, left, pairs, values, signalled, stdio, handler, answer, cause, err>>
      /\ \/ /\ Reported(values) = {} /\ pc' = "build"
            /\ UNCHANGED <<exit, trouble, phase, asked>>
         \/ /\ Reported(values) # {} /\ pc' = "exited" /\ exit' = 1
            /\ trouble' = trouble \cup {"settings"}
            /\ phase' \in {phase, "refused"} /\ asked' \in {asked, TRUE}
  BY DEF ReadSettings, Goto, ExitWith, Server!StartReturns
<1>2. Reported(values) \subseteq Names /\ Reported(values)' = Reported(values)
  BY <1>1 DEF Reported
<1>3. trouble = {} /\ phase = "starting" /\ handler = "none"
  BY <1>1 DEF IInv, ServerInv
<1>4. \/ pc' = "build" /\ exit' = exit /\ trouble' = {} /\ phase' = "starting"
      \/ /\ pc' = "exited" /\ exit' = 1 /\ trouble' = {"settings"}
         /\ phase' \in {"starting", "refused"}
  BY <1>1, <1>3
<1>5. ConfigTypeOK' /\ GatherInv'
  BY <1>1, <1>2 DEF IInv, TypeOK, ConfigTypeOK, GatherInv
<1>6. PutInv'
  <2>1. \A i : NameOf(i)' = NameOf(i)
    BY <1>1 DEF NameOf
  <2> QED BY <1>1, <1>3, <2>1, SettledKept DEF IInv, PutInv
<1>7. SettingsInv' /\ TransportInv'
  BY <1>1, <1>2, <1>3 DEF IInv, SettingsInv, TransportInv
<1>8. StdioInv' /\ ServerInv' /\ LogEndsClosed' /\ ExitTellsFailure'
  BY <1>1, <1>3, <1>4 DEF IInv, StdioInv, ServerInv, LogEndsClosed, ExitTellsFailure
<1>9. TypeOK'
  <2>1. exit' \in StillRuns..2 /\ (exit' = StillRuns <=> pc' # "exited")
    BY <1>1, <1>4 DEF IInv, TypeOK
  <2>2. trouble' \subseteq Failures
    BY <1>4 DEF Failures
  <2>3. phase' \in {"starting", "refused"} /\ asked' \in BOOLEAN
    BY <1>1, <1>3 DEF IInv, TypeOK
  <2> QED BY <1>1, <1>5, <2>1, <2>2, <2>3 DEF IInv, TypeOK
<1>10. GuardInv'
  BY <1>1, NoHandler
<1> QED BY <1>5, <1>6, <1>7, <1>8, <1>9, <1>10 DEF IInv

LEMMA SignalInv ==
  ASSUME IInv, Signal
  PROVE  IInv'
<1>1. /\ pc \notin {"flags", "exited"} /\ signalled' = TRUE
      /\ UNCHANGED <<config, pc, stdio, exit, trouble, handler, answer, phase, cause, err>>
      /\ asked' \in {asked, TRUE}
  BY DEF Signal, Server!Ask
<1>2. ConfigTypeOK' /\ GatherInv' /\ SettingsInv' /\ TransportInv'
  <2>1. Taken' = Taken /\ \A n : TakenTexts(n)' = TakenTexts(n)
    BY <1>1 DEF Taken, TakenTexts, WrittenIn
  <2>2. ConfigTypeOK' /\ SettingsInv' /\ TransportInv'
    BY <1>1 DEF IInv, TypeOK, ConfigTypeOK, SettingsInv, TransportInv
  <2> QED BY <1>1, <2>1, <2>2 DEF IInv, GatherInv
<1>3. PutInv'
  <2>1. \A i : NameOf(i)' = NameOf(i)
    BY <1>1 DEF NameOf
  <2> QED BY <1>1, <2>1, SettledKept DEF IInv, PutInv
<1>4. StdioInv' /\ ServerInv' /\ LogEndsClosed' /\ ExitTellsFailure'
  BY <1>1 DEF IInv, StdioInv, ServerInv, LogEndsClosed, ExitTellsFailure
<1>5. TypeOK'
  <2>1. asked' \in BOOLEAN
    BY <1>1 DEF IInv, TypeOK
  <2> QED BY <1>1, <1>2, <2>1 DEF IInv, TypeOK
<1>6. GuardInv'
  BY <1>1, GuardKept
<1> QED BY <1>2, <1>3, <1>4, <1>5, <1>6 DEF IInv

(* stdio *)

\* The two deferred calls, in the order they are to run.
LEMMA BuildRuntimeInv ==
  ASSUME IInv, BuildRuntime
  PROVE  IInv'
<1>1. /\ IsStdio /\ pc = "build"
      /\ UNCHANGED <<config, signalled, ended, handler, answer, server>>
      /\ \/ /\ pc' = "preflight" /\ UNCHANGED <<exit, trouble>>
            /\ lastLine' = "starting" /\ logFile' = "open"
            /\ deferred' = <<"closingRecord", "close">>
         \/ /\ pc' = "exited" /\ exit' = 1 /\ trouble' = trouble \cup {"runtime"}
            /\ UNCHANGED <<logFile, lastLine, deferred>>
  BY DEF BuildRuntime, Goto, WriteLine, Defer, ExitWith
<1>2. trouble = {} /\ reported = {} /\ exit = -1 /\ ended = "none"
  BY <1>1 DEF IInv, ServerInv, SettingsInv, TypeOK, StdioInv
<1>3. \/ pc' = "preflight" /\ exit' = -1 /\ trouble' = {}
      \/ pc' = "exited" /\ exit' = 1 /\ trouble' = {"runtime"}
  BY <1>1, <1>2
<1>4. ConfigTypeOK' /\ GatherInv' /\ PutInv' /\ SettingsInv'
  BY <1>1, <1>2, <1>3, ConfigKept
<1>5. TransportInv' /\ StdioInv'
  BY <1>1, <1>2 DEF TransportInv, StdioInv
<1>6. ServerInv' /\ LogEndsClosed' /\ ExitTellsFailure'
  BY <1>1, <1>2, <1>3 DEF IInv, ServerInv, LogEndsClosed, ExitTellsFailure
<1>7. TypeOK'
  <2>1. exit' \in StillRuns..2 /\ (exit' = StillRuns <=> pc' # "exited")
    BY <1>3
  <2>2. trouble' \subseteq Failures
    BY <1>3 DEF Failures
  <2> QED BY <1>1, <1>4, <2>1, <2>2 DEF IInv, TypeOK
<1>8. GuardInv'
  BY <1>1, NoHandler
<1> QED BY <1>4, <1>5, <1>6, <1>7, <1>8 DEF IInv

\* The probe and the records of a session only write to the log.
LEMMA LogsInv ==
  ASSUME IInv, PreflightEnds \/ SessionLogs
  PROVE  IInv'
<1>1. /\ IsStdio /\ pc \in {"preflight", "session"} /\ pc' = "session"
      /\ UNCHANGED <<config, signalled, ended, deferred, exit, trouble, handler, answer, server>>
      /\ lastLine' \in {"preflight", "session"} /\ logFile' = "open"
  BY DEF PreflightEnds, SessionLogs, Goto, WriteLine
<1>2. reported = {}
  BY <1>1 DEF IInv, SettingsInv
<1>3. ConfigTypeOK' /\ GatherInv' /\ PutInv' /\ SettingsInv'
  BY <1>1, <1>2, ConfigKept
<1>4. TransportInv' /\ StdioInv' /\ ServerInv' /\ LogEndsClosed' /\ ExitTellsFailure'
  BY <1>1 DEF IInv, TransportInv, StdioInv, ServerInv, LogEndsClosed, ExitTellsFailure
<1>5. TypeOK'
  BY <1>1, <1>3 DEF IInv, TypeOK
<1>6. GuardInv'
  BY <1>1, NoHandler
<1> QED BY <1>3, <1>4, <1>5, <1>6 DEF IInv

\* A session that ends has failed exactly when it ends with a broken transport.
LEMMA RunReturnsInv ==
  ASSUME IInv, ClientHangsUp \/ TransportBreaks \/ SessionCancelled
  PROVE  IInv'
<1>1. /\ IsStdio /\ pc = "session" /\ pc' = "deferred"
      /\ UNCHANGED <<config, signalled, logFile, lastLine, deferred, exit, handler, answer,
                     server>>
      /\ \/ ended' \in {"nil", "serverClosing", "cancelled"} /\ trouble' = trouble \cup {}
         \/ ended' \in {"wireError", "EOF"} /\ trouble' = trouble \cup {"session"}
  BY DEF ClientHangsUp, TransportBreaks, SessionCancelled, RunReturns
<1>2. trouble = {} /\ reported = {} /\ exit = -1
  BY <1>1 DEF IInv, ServerInv, SettingsInv, TypeOK
<1>3. \/ ended' \in {"nil", "serverClosing", "cancelled"} /\ trouble' = {}
      \/ ended' \in {"wireError", "EOF"} /\ trouble' = {"session"}
  BY <1>1, <1>2
<1>4. ConfigTypeOK' /\ GatherInv' /\ PutInv' /\ SettingsInv'
  BY <1>1, <1>2, <1>3, ConfigKept
<1>5. TransportInv' /\ StdioInv'
  BY <1>1, <1>3 DEF IInv, TransportInv, StdioInv
<1>6. ServerInv' /\ LogEndsClosed' /\ ExitTellsFailure'
  BY <1>1 DEF IInv, ServerInv, LogEndsClosed, ExitTellsFailure
<1>7. TypeOK'
  <2>1. trouble' \subseteq Failures
    BY <1>3 DEF Failures
  <2> QED BY <1>1, <1>4, <2>1 DEF IInv, TypeOK
<1>8. GuardInv'
  BY <1>1, NoHandler
<1> QED BY <1>4, <1>5, <1>6, <1>7, <1>8 DEF IInv

\* The closing record is written before the log is closed.
LEMMA RunDeferredInv ==
  ASSUME IInv, RunDeferred
  PROVE  IInv'
<1>1. /\ pc = "deferred" /\ deferred # <<>>
      /\ UNCHANGED <<config, pc, signalled, ended, exit, trouble, handler, answer, server>>
  BY DEF RunDeferred
<1>2. \/ /\ deferred = <<"closingRecord", "close">> /\ deferred' = <<"close">>
         /\ lastLine' = "closing" /\ logFile' = "open"
      \/ /\ deferred = <<"close">> /\ deferred' = <<>> /\ lastLine = "closing"
         /\ lastLine' = "closing" /\ logFile' = "closed"
  <2>1. CASE deferred = <<"closingRecord", "close">>
    <3>1. Head(deferred) = "closingRecord" /\ Tail(deferred) = <<"close">>
      BY <2>1
    <3> QED BY <2>1, <3>1 DEF RunDeferred, WriteLine
  <2>2. CASE deferred = <<"close">> /\ lastLine = "closing"
    <3>1. Head(deferred) = "close" /\ Tail(deferred) = <<>>
      BY <2>2
    <3> QED BY <2>2, <3>1 DEF RunDeferred
  <2> QED BY <1>1, <2>1, <2>2 DEF IInv, StdioInv
<1>3. reported = {}
  BY <1>1 DEF IInv, SettingsInv
<1>4. ConfigTypeOK' /\ GatherInv' /\ PutInv' /\ SettingsInv'
  BY <1>1, <1>3, ConfigKept
<1>5. TransportInv' /\ StdioInv'
  BY <1>1, <1>2 DEF IInv, TransportInv, StdioInv
<1>6. ServerInv' /\ LogEndsClosed' /\ ExitTellsFailure'
  BY <1>1 DEF IInv, ServerInv, LogEndsClosed, ExitTellsFailure
<1>7. TypeOK'
  BY <1>1, <1>2, <1>4 DEF IInv, TypeOK
<1>8. GuardInv'
  BY <1>1, NoHandler
<1> QED BY <1>4, <1>5, <1>6, <1>7, <1>8 DEF IInv

LEMMA StdioExitsInv ==
  ASSUME IInv, StdioExits
  PROVE  IInv'
<1>1. /\ pc = "deferred" /\ deferred = <<>> /\ pc' = "exited" /\ exit' = SessionStatus
      /\ trouble' = trouble
      /\ UNCHANGED <<config, signalled, stdio, handler, answer, server>>
  BY DEF StdioExits, ExitWith
<1>2. /\ reported = {} /\ lastLine = "closing" /\ logFile = "closed"
      /\ trouble = IF ended \in {"wireError", "EOF"} THEN {"session"} ELSE {}
      /\ handler = "none" /\ phase = "starting"
  BY <1>1 DEF IInv, SettingsInv, StdioInv, ServerInv
<1>3. exit' = IF ended \in {"wireError", "EOF"} THEN 1 ELSE 0
  BY <1>1 DEF IInv, StdioInv, TypeOK, SessionStatus, isClientHangup
<1>4. ConfigTypeOK' /\ GatherInv' /\ PutInv' /\ SettingsInv'
  BY <1>1, <1>2, ConfigKept
<1>5. TransportInv' /\ StdioInv' /\ ServerInv' /\ LogEndsClosed'
  BY <1>1, <1>2 DEF IInv, TransportInv, StdioInv, ServerInv, LogEndsClosed
<1>6. ExitTellsFailure'
  BY <1>1, <1>2, <1>3 DEF ExitTellsFailure
<1>7. TypeOK'
  <2>1. exit' \in StillRuns..2 /\ exit' # StillRuns
    BY <1>3
  <2> QED BY <1>1, <1>4, <2>1 DEF IInv, TypeOK
<1>8. GuardInv'
  BY <1>1, NoHandler
<1> QED BY <1>4, <1>5, <1>6, <1>7, <1>8 DEF IInv

(* HTTP *)

LEMMA StartServerInv ==
  ASSUME IInv, StartServer
  PROVE  IInv'
<1>1. /\ IsHTTP /\ pc = "build" /\ phase = "starting"
      /\ UNCHANGED <<config, signalled, stdio, handler, answer, cause, err>>
      /\ \/ phase' = "running" /\ pc' = "serving" /\ UNCHANGED <<asked, exit, trouble>>
         \/ /\ phase' = "refused" /\ asked' \in {asked, TRUE}
            /\ pc' = "exited" /\ exit' = 1 /\ trouble' = trouble \cup {"start"}
  BY DEF StartServer, Server!StartReturns, Goto, ExitWith
<1>2. trouble = {} /\ reported = {} /\ exit = -1 /\ handler = "none" /\ err = {}
      /\ ended = "none"
  BY <1>1 DEF IInv, ServerInv, SettingsInv, StdioInv, TypeOK
<1>3. \/ pc' = "serving" /\ exit' = -1 /\ trouble' = {} /\ phase' = "running"
      \/ pc' = "exited" /\ exit' = 1 /\ trouble' = {"start"} /\ phase' = "refused"
  BY <1>1, <1>2
<1>4. ConfigTypeOK' /\ GatherInv' /\ PutInv' /\ SettingsInv'
  BY <1>1, <1>2, <1>3, ConfigKept
<1>5. TransportInv' /\ StdioInv' /\ ServerInv' /\ LogEndsClosed' /\ ExitTellsFailure'
  <2>1. TransportInv' /\ StdioInv' /\ LogEndsClosed'
    BY <1>1, <1>2, <1>3 DEF TransportInv, StdioInv, LogEndsClosed
  <2>2. ServerInv'
    BY <1>1, <1>2, <1>3 DEF ServerInv
  <2>3. ExitTellsFailure'
    BY <1>3 DEF ExitTellsFailure
  <2> QED BY <2>1, <2>2, <2>3
<1>6. TypeOK'
  <2>1. exit' \in StillRuns..2 /\ (exit' = StillRuns <=> pc' # "exited")
    BY <1>3
  <2>2. trouble' \subseteq Failures
    BY <1>3 DEF Failures
  <2>3. asked' \in BOOLEAN
    BY <1>1 DEF IInv, TypeOK
  <2> QED BY <1>1, <1>3, <1>4, <2>1, <2>2, <2>3 DEF IInv, TypeOK
<1>7. GuardInv'
  BY <1>1, NoHandler
<1> QED BY <1>4, <1>5, <1>6, <1>7 DEF IInv

\* The handler is built of settings that were read with nothing to report.
LEMMA BuildHandlerInv ==
  ASSUME IInv, BuildHandler
  PROVE  IInv'
<1>1. /\ pc = "serving" /\ handler = "none"
      /\ UNCHANGED <<config, signalled, stdio, answer, cause, err>>
      /\ \/ /\ WellFormed(MCPPath(values)) /\ handler' = "built"
            /\ UNCHANGED <<pc, exit, trouble, phase, asked>>
         \/ /\ UNCHANGED handler /\ pc' = "exited" /\ exit' = 2
            /\ trouble' = trouble \cup {"panic"}
            /\ phase' = "crashed" /\ asked' = TRUE
  BY DEF BuildHandler, ExitWith, Server!Crash
<1>2. /\ trouble = err /\ err \subseteq {"accept", "listenerClose", "deadline", "close"}
      /\ reported = {}
  BY <1>1 DEF IInv, ServerInv, SettingsInv, TypeOK
<1>3. Reported(values) = {} /\ answer = NoAnswer
  BY <1>1, <1>2 DEF IInv, SettingsInv, GuardInv
<1>4. ConfigTypeOK' /\ GatherInv' /\ PutInv' /\ SettingsInv'
  BY <1>1, <1>2, ConfigKept
<1>5. TransportInv' /\ StdioInv' /\ ServerInv' /\ LogEndsClosed'
  BY <1>1 DEF IInv, TransportInv, StdioInv, ServerInv, LogEndsClosed
<1>6. ExitTellsFailure'
  BY <1>1 DEF ExitTellsFailure
<1>7. TypeOK'
  <2>1. exit' \in StillRuns..2 /\ (exit' = StillRuns <=> pc' # "exited")
    BY <1>1 DEF IInv, TypeOK
  <2>2. trouble' \subseteq Failures
    BY <1>1, <1>2 DEF Failures
  <2> QED BY <1>1, <1>4, <2>1, <2>2 DEF IInv, TypeOK
<1>8. GuardInv'
  BY <1>1, <1>3 DEF GuardInv, NoAnswer
<1> QED BY <1>4, <1>5, <1>6, <1>7, <1>8 DEF IInv

LEMMA RequestInv ==
  ASSUME IInv, NEW r \in given.requests, Request(r)
  PROVE  IInv'
<1>1. /\ handler = "built" /\ phase = "running" /\ r \in Requests
      /\ answer' = [request |-> r,
                    status |-> Answer(r, MCPPath(values), AllowedHosts(Hosts),
                                      AllowedOrigins(Origins))]
      /\ UNCHANGED <<config, pc, signalled, stdio, exit, trouble, handler, server>>
  BY ScenariosAssumption DEF Request, IInv, TypeOK, ConfigTypeOK
<1>2. pc = "serving" /\ reported = {}
  BY <1>1 DEF IInv, ServerInv, SettingsInv
<1>3. ConfigTypeOK' /\ GatherInv' /\ PutInv' /\ SettingsInv'
  BY <1>1, <1>2, ConfigKept
<1>4. TransportInv' /\ StdioInv' /\ ServerInv' /\ LogEndsClosed' /\ ExitTellsFailure'
  BY <1>1 DEF IInv, TransportInv, StdioInv, ServerInv, LogEndsClosed, ExitTellsFailure
<1>5. TypeOK'
  BY <1>1, <1>3 DEF IInv, TypeOK
<1>6. GuardInv'
  <2>1. UNCHANGED <<MCPPath(values), Hosts, Origins, Reported(values)>>
    BY <1>1 DEF MCPPath, Hosts, Origins, Listed, IsSet, Reported, required, integer,
                positiveInteger, positiveFloat, environment, list
  <2>2. answer'.request = r /\ answer'.status = Answer(r, MCPPath(values),
                                                     AllowedHosts(Hosts),
                                                     AllowedOrigins(Origins))
    BY <1>1
  <2> QED BY <1>1, <2>1, <2>2 DEF IInv, GuardInv
<1> QED BY <1>3, <1>4, <1>5, <1>6 DEF IInv

LEMMA BeginStopInv ==
  ASSUME IInv, BeginStop
  PROVE  IInv'
<1>1. /\ handler = "built" /\ phase = "running" /\ phase' = "stopping" /\ asked' = TRUE
      /\ cause' \in {"asked", "listener"}
      /\ UNCHANGED <<config, pc, signalled, stdio, exit, trouble, handler, answer, err>>
  BY DEF BeginStop, Server!BeginStop
<1>2. pc = "serving" /\ reported = {}
  BY <1>1 DEF IInv, ServerInv, SettingsInv
<1>3. ConfigTypeOK' /\ GatherInv' /\ PutInv' /\ SettingsInv'
  BY <1>1, <1>2, ConfigKept
<1>4. TransportInv' /\ StdioInv' /\ ServerInv' /\ LogEndsClosed' /\ ExitTellsFailure'
  BY <1>1, <1>2 DEF IInv, TransportInv, StdioInv, ServerInv, LogEndsClosed, ExitTellsFailure
<1>5. TypeOK'
  BY <1>1, <1>3 DEF IInv, TypeOK
<1>6. GuardInv'
  BY <1>1, <1>2, GuardKept
<1> QED BY <1>3, <1>4, <1>5, <1>6 DEF IInv

\* What the server reports is all that has failed.
LEMMA StopServerInv ==
  ASSUME IInv, StopServer
  PROVE  IInv'
<1>1. /\ phase = "stopping" /\ phase' = "stopped"
      /\ err' \subseteq {"accept", "listenerClose", "deadline", "close"}
      /\ trouble' = trouble \cup err'
      /\ UNCHANGED <<config, pc, signalled, stdio, exit, handler, answer, asked, cause>>
  BY DEF StopServer, Server!Stop, Server!StopErrors
<1>2. pc = "serving" /\ reported = {} /\ handler = "built" /\ trouble = {}
  BY <1>1 DEF IInv, ServerInv, SettingsInv, TypeOK
<1>3. ConfigTypeOK' /\ GatherInv' /\ PutInv' /\ SettingsInv'
  BY <1>1, <1>2, ConfigKept
<1>4. TransportInv' /\ StdioInv' /\ ServerInv' /\ LogEndsClosed' /\ ExitTellsFailure'
  BY <1>1, <1>2 DEF IInv, TransportInv, StdioInv, ServerInv, LogEndsClosed, ExitTellsFailure
<1>5. TypeOK'
  <2>1. trouble' \subseteq Failures
    BY <1>1, <1>2 DEF Failures
  <2> QED BY <1>1, <1>3, <2>1 DEF IInv, TypeOK
<1>6. GuardInv'
  BY <1>1, <1>2, GuardKept
<1> QED BY <1>3, <1>4, <1>5, <1>6 DEF IInv

LEMMA ServerExitsInv ==
  ASSUME IInv, ServerExits
  PROVE  IInv'
<1>1. /\ pc = "serving" /\ phase = "stopped" /\ pc' = "exited" /\ trouble' = trouble
      /\ exit' = IF err = {} THEN 0 ELSE 1
      /\ UNCHANGED <<config, signalled, stdio, handler, answer, server>>
  BY DEF ServerExits, ExitWith
<1>2. reported = {} /\ trouble = err /\ ended = "none"
  BY <1>1 DEF IInv, ServerInv, SettingsInv, StdioInv
<1>3. ConfigTypeOK' /\ GatherInv' /\ PutInv' /\ SettingsInv'
  BY <1>1, <1>2, ConfigKept
<1>4. TransportInv' /\ StdioInv' /\ ServerInv' /\ LogEndsClosed'
  BY <1>1, <1>2 DEF IInv, TransportInv, StdioInv, ServerInv, LogEndsClosed
<1>5. ExitTellsFailure'
  BY <1>1, <1>2 DEF ExitTellsFailure
<1>6. TypeOK'
  <2>1. exit' \in StillRuns..2 /\ exit' # StillRuns
    BY <1>1
  <2> QED BY <1>1, <1>3, <2>1 DEF IInv, TypeOK
<1>7. GuardInv'
  BY <1>1, GuardKept
<1> QED BY <1>3, <1>4, <1>5, <1>6, <1>7 DEF IInv

LEMMA StepInv == IInv /\ [Next]_vars => IInv'
<1> SUFFICES ASSUME IInv, [Next]_vars PROVE IInv'
  OBVIOUS
<1>1. CASE Gather
  BY <1>1, ParseFlagInv, ReadDotEnvInv, TakeDotEnvInv, TakeEnvironInv, PutPairInv,
     ReadSettingsInv DEF Gather
<1>2. CASE Signal
  BY <1>2, SignalInv
<1>3. CASE StdioStep
  <2>1. CASE OdasSettles \/ ProbeGivesUp \/ SessionLogs
    BY <2>1, LogsInv DEF OdasSettles, ProbeGivesUp
  <2> QED BY <1>3, <2>1, BuildRuntimeInv, RunReturnsInv, RunDeferredInv, StdioExitsInv
          DEF StdioStep
<1>4. CASE HTTPStep
  BY <1>4, StartServerInv, BuildHandlerInv, RequestInv, BeginStopInv, StopServerInv,
     ServerExitsInv DEF HTTPStep
<1>5. CASE UNCHANGED vars
  <2>1. UNCHANGED <<config, pc, signalled, stdio, exit, trouble, handler, answer, server>>
    BY <1>5 DEF vars
  <2>2. /\ Taken' = Taken /\ \A n : TakenTexts(n)' = TakenTexts(n)
        /\ \A i : NameOf(i)' = NameOf(i)
    BY <2>1 DEF Taken, TakenTexts, WrittenIn, NameOf
  <2>3. PutInv'
    BY <2>1, <2>2, SettledKept DEF IInv, PutInv
  <2>4. GuardInv'
    BY <2>1, GuardKept DEF IInv, GuardInv
  <2>5. ConfigTypeOK' /\ GatherInv' /\ SettingsInv' /\ TransportInv'
    BY <2>1, <2>2 DEF IInv, TypeOK, ConfigTypeOK, GatherInv, SettingsInv, TransportInv
  <2>6. StdioInv' /\ ServerInv' /\ LogEndsClosed' /\ ExitTellsFailure'
    BY <2>1 DEF IInv, StdioInv, ServerInv, LogEndsClosed, ExitTellsFailure
  <2> QED BY <2>1, <2>3, <2>4, <2>5, <2>6 DEF IInv, TypeOK
<1> QED BY <1>1, <1>2, <1>3, <1>4, <1>5 DEF Next

-----------------------------------------------------------------------------
(* What follows from it. *)

\* What is still to be put settles every name, a reported variable has ended
\* the process, and each place of the main goroutine knows what failed.
THEOREM Inductive == Spec => []IInv
BY InitInv, StepInv, PTL DEF Spec

\* Every variable has its type, whatever the scenarios.
THEOREM TypeCorrect == Spec => []TypeOK
<1>1. IInv => TypeOK
  BY DEF IInv
<1> QED BY <1>1, Inductive, PTL

\* However many spellings the .env file and the environment have of a name, and
\* in whatever order the file's map is ranged over, the settings are read from
\* the environment's last pair of it, else from the file (config.go:109-110,
\* main.go:100-102).
THEOREM RealEnvironmentAlwaysWins == Spec => []RealEnvironmentWins
<1>1. IInv => RealEnvironmentWins
  BY DEF IInv, PutInv, Gathered, RealEnvironmentWins
<1> QED BY <1>1, Inductive, PTL

\* A variable no deployment could mean is named in the configuration error, and
\* the process ends there (config.go:110, .env.example:9-10).
THEOREM UnusableAlwaysRefused == Spec => []UnusableIsRefused
<1>1. IInv => UnusableIsRefused
  <2> SUFFICES ASSUME IInv, Gathered, pc # "load"
               PROVE  Unusable \subseteq reported /\ (reported # {} => trouble = {"settings"})
    BY DEF UnusableIsRefused
  <2>1. \A n \in Names : Settled(n)
    BY DEF IInv, PutInv, Gathered
  <2>2. reported = Reported(values)
    BY DEF IInv, SettingsInv, Gathered
  <2> QED BY <2>1, <2>2, UnusableReported DEF IInv, SettingsInv
<1> QED BY <1>1, Inductive, PTL

\* The exit status is 0 exactly when nothing of the process's own failed
\* (main.go:94, 120-121).
THEOREM ExitAlwaysTells == Spec => []ExitTellsFailure
<1>1. IInv => ExitTellsFailure
  BY DEF IInv
<1> QED BY <1>1, Inductive, PTL

\* A stdio process that held a session leaves its log closed, after the closing
\* record (main.go:82-90).
THEOREM LogAlwaysClosed == Spec => []LogEndsClosed
<1>1. IInv => LogEndsClosed
  BY DEF IInv
<1> QED BY <1>1, Inductive, PTL

\* Whatever the configured lists and the request, MCP serves it exactly when
\* the lists, read as they are documented, admit it (.env.example:27-33, 85-89),
\* or admit its host while an origin entry is the name of its origin's scheme.
THEOREM ServedAlwaysAdmissible == Spec => []ServedIsAdmissible
<1>1. IInv => ServedIsAdmissible
  <2> SUFFICES ASSUME IInv, answer # NoAnswer
               PROVE  (answer.status = "served") =
                        /\ Admitted(answer.request, Hosts, Origins)
                        /\ ~(answer.request.path = "/health" /\ answer.request.method = "GET")
                        /\ MCPPath(values) # "/" =>
                             answer.request.path \in {MCPPath(values), "/"}
    BY DEF ServedIsAdmissible
  <2>1. /\ Reported(values) = {} /\ WellFormed(MCPPath(values))
        /\ answer.request \in Requests
        /\ answer.status = Answer(answer.request, MCPPath(values), AllowedHosts(Hosts),
                                  AllowedOrigins(Origins))
    BY DEF IInv, GuardInv
  <2>2. Hosts \in SUBSET Entries /\ Origins \in SUBSET Entries
    BY <2>1, ListsOfEntries
  <2>3. (answer.status = "served") <=>
          /\ Admitted(answer.request, Hosts, Origins)
          /\ ~(answer.request.path = "/health" /\ answer.request.method = "GET")
          /\ MCPPath(values) # "/" => answer.request.path \in {MCPPath(values), "/"}
    BY <2>1, <2>2, GuardAdmits
  <2>4. Admitted(answer.request, Hosts, Origins) \in BOOLEAN
    BY DEF Admitted
  <2> QED BY <2>3, <2>4
<1> QED BY <1>1, Inductive, PTL

=============================================================================
