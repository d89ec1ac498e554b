------------------------------ MODULE MCBinary ------------------------------
(***************************************************************************)
(* Instances of Binary for TLC: one name in two spellings, in the .env     *)
(* file and twice in the environment; two names at once set to anything;   *)
(* and, for the guard, lists of every kind of entry against every request. *)
(* "https" is the id of a host and the name of a scheme.                   *)
(***************************************************************************)
EXTENDS BinaryInvariant, SequencesExt

Scenario(transport, dotenv, environ, requests) ==
  [transport |-> transport, dotenv |-> dotenv, environ |-> environ,
   requests |-> requests]

BothTransports == {"http", "stdio"}
NoFile == [k \in {} |-> ""]
Key(name, spelling) == [name |-> name, spelling |-> spelling]
Var(name, text) == <<Key(name, "upper"), text>>
Otel == Var("OTEL_URL", "url")

-----------------------------------------------------------------------------
Spellings == {Key("PORT", "upper"), Key("PORT", "lower")}
Files == UNION {[ks -> {"10", "word"}] : ks \in SUBSET Spellings}
Environs == SeqOf(Spellings \X {"10", "-1"}, 2)

Precedence == {Scenario(t, f, <<Otel>> \o e, {}) :
                 t \in BothTransports, f \in Files, e \in Environs}

Timeouts == {"-1", "0", "10", "word", "", "tiny", "huge", "NaN"}

Settable ==
  {Var(n, x) : n \in {"PORT", "HTTP_MAX_CONNECTIONS"}, x \in {"-1", "0", "10", "word", ""}}
  \cup {Var("ENVIRONMENT", x) : x \in {"sandbox", "production", "word", ""}}
  \cup {Var(n, x) : n \in {"ALLOWED_HOSTS", "ALLOWED_ORIGINS"}, x \in {"[]", "a,b", ""}}
  \cup {Var("MCP_PATH", x) : x \in {"/mcp", "/", "mcp", ""}}

TwoAtOnce ==
  {Scenario(t, NoFile, first \o <<Var("HTTP_TIMEOUT_SECONDS", x), v>>, {}) :
     t \in BothTransports \cup {"other"}, first \in {<<>>, <<Otel>>},
     x \in Timeouts, v \in Settable}

-----------------------------------------------------------------------------
Entry(scheme, form, port, path) ==
  [scheme |-> scheme, form |-> form, id |-> "a", port |-> port, path |-> path]

\* A name that is also that of a scheme.
SchemeWord(port) == [Entry(NoScheme, "name", port, FALSE) EXCEPT !.id = "https"]

AllHostLists ==
  "[]" :> {}
  @@ "['']" :> {Entry(NoScheme, "empty", NoPort, FALSE)}
  @@ "['a']" :> {Entry(NoScheme, "name", NoPort, FALSE)}
  @@ "['a:1']" :> {Entry(NoScheme, "name", "1", FALSE)}
  @@ "['a:*']" :> {Entry(NoScheme, "name", AnyPort, FALSE)}
  @@ "['http://a/x', '[a]']" :> {Entry("http", "name", NoPort, TRUE),
                                 Entry(NoScheme, "[v6]", NoPort, FALSE)}
  @@ "['[a]:1/x', 'a:2']" :> {Entry(NoScheme, "[v6]", "1", TRUE),
                              Entry(NoScheme, "name", "2", FALSE)}
  @@ "['::a']" :> {Entry(NoScheme, "v6", NoPort, FALSE)}

AllOriginLists ==
  "[]" :> {}
  @@ "['a']" :> {Entry(NoScheme, "name", NoPort, FALSE)}
  @@ "['http://a']" :> {Entry("http", "name", NoPort, FALSE)}
  @@ "['https://a:1/x', 'http://[a]']" :> {Entry("https", "name", "1", TRUE),
                                           Entry("http", "[v6]", NoPort, FALSE)}
  @@ "['https']" :> {SchemeWord(NoPort)}
  @@ "['https:*', 'http://a']" :> {SchemeWord(AnyPort),
                                   Entry("http", "name", NoPort, FALSE)}
  @@ "['https:1']" :> {SchemeWord("1")}
  @@ "['http://a:*', 'https://a:2']" :> {Entry("http", "name", AnyPort, FALSE),
                                         Entry("https", "name", "2", FALSE)}

Plain == [path |-> "/mcp", method |-> "POST", body |-> "small", json |-> TRUE,
          host |-> [Entry(NoScheme, "name", NoPort, FALSE) EXCEPT !.port = "1"],
          origin |-> NoHeader]

FromAnyHost == {[Plain EXCEPT !.host = h] : h \in Headers({NoScheme}) \cup {NoHeader}}
FromAnyOrigin == {[Plain EXCEPT !.origin = o] : o \in Headers({"http", "https"})}
OfAnyShape ==
  {[Plain EXCEPT !.path = p, !.method = m, !.body = b, !.json = j] :
     p \in {"/mcp", "/", "/health", "/other"}, m \in {"GET", "POST"},
     b \in {"small", "long", "chunked"}, j \in BOOLEAN}

Guarding(hosts, origins, path, requests) ==
  Scenario("http", NoFile, <<Otel, Var("ALLOWED_HOSTS", hosts),
                             Var("ALLOWED_ORIGINS", origins), Var("MCP_PATH", path)>>,
           requests)

AnyHosts == {Guarding(h, "[]", "/mcp", FromAnyHost) : h \in DOMAIN AllHostLists}
AnyOrigins == {Guarding("['a']", o, "/mcp", FromAnyOrigin) : o \in DOMAIN AllOriginLists}
AnyShapes == {Guarding(h, "[]", p, OfAnyShape) : h \in {"[]", "['a']"}, p \in {"/mcp", "/"}}

-----------------------------------------------------------------------------
EveryScenario == Precedence \cup TwoAtOnce \cup AnyHosts \cup AnyOrigins \cup AnyShapes

AnyTimeout == {Scenario("stdio", NoFile, <<Otel, Var("HTTP_TIMEOUT_SECONDS", x)>>, {}) :
                 x \in Timeouts}
=============================================================================
