------------------------------ MODULE Settings ------------------------------
(***************************************************************************)
(* What config.LoadFrom makes of its variables.  A variable is kept by its *)
(* name; the text it is set to by what its reader can make of it: a whole  *)
(* number, a float ("tiny" is below a nanosecond, "huge" beyond what an    *)
(* int64 of nanoseconds holds, infinity included), a JSON list, a word.    *)
(* One name is kept for each of the reader's methods.                      *)
(***************************************************************************)
EXTENDS Integers, Sequences, FiniteSets

CONSTANTS
  HostLists,    \* what each JSON text of ALLOWED_HOSTS lists
  OriginLists   \* what each JSON text of ALLOWED_ORIGINS lists

\* Neither of these is a JSON list.
ASSUME ListsAssumption ==
  {"a,b", ""} \cap (DOMAIN HostLists \cup DOMAIN OriginLists) = {}

Names == {"OTEL_URL", "PORT", "HTTP_MAX_CONNECTIONS", "HTTP_TIMEOUT_SECONDS",
          "ENVIRONMENT", "ALLOWED_HOSTS", "ALLOWED_ORIGINS", "MCP_PATH"}

\* A name as it may be written: lookup does not tell the spellings apart.
Keys == [name : Names, spelling : {"upper", "lower"}]
AsWritten(key) == IF key.spelling = "upper" THEN key.name ELSE "lower case"
ToLower(key) == key.name

\* One more pair: it takes the place of an earlier one of the same name.
Put(values, key, text) ==
  [n \in DOMAIN values \cup {ToLower(key)} |->
     IF n = ToLower(key) THEN text ELSE values[n]]

-----------------------------------------------------------------------------
(***************************************************************************)
(* The methods of reader, each as "this variable is reported".             *)
(***************************************************************************)
WholeNumber == [text \in {"-1", "0", "10"} |-> IF text = "-1" THEN -1
                                               ELSE IF text = "0" THEN 0 ELSE 10]
Floats == DOMAIN WholeNumber \cup {"tiny", "huge", "NaN"}
Environments == {"sandbox", "development", "staging", "production"}

IsSet(values, name) == name \in DOMAIN values

BelowZero(text) == text \in DOMAIN WholeNumber /\ WholeNumber[text] < 0

\* NaN is not <= 0.
AtMostZero(text) == text \in DOMAIN WholeNumber /\ WholeNumber[text] <= 0

required(values, name) == ~IsSet(values, name)
integer(values, name) ==
  IsSet(values, name) /\ values[name] \notin DOMAIN WholeNumber
positiveInteger(values, name) ==
  \/ integer(values, name)
  \/ IsSet(values, name) /\ AtMostZero(values[name])
positiveFloat(values, name) ==
  /\ IsSet(values, name)
  /\ values[name] \notin Floats \/ AtMostZero(values[name])
environment(values, name) ==
  IsSet(values, name) /\ values[name] \notin Environments
list(values, name, lists) ==
  IsSet(values, name) /\ values[name] \notin DOMAIN lists

\* Every variable LoadFrom reports; none means it returns settings.
Reported(values) ==
  {n \in Names :
     \/ n = "OTEL_URL" /\ required(values, n)
     \/ n = "PORT" /\ integer(values, n)
     \/ n = "HTTP_MAX_CONNECTIONS" /\ positiveInteger(values, n)
     \/ n = "HTTP_TIMEOUT_SECONDS" /\ positiveFloat(values, n)
     \/ n = "ENVIRONMENT" /\ environment(values, n)
     \/ n = "ALLOWED_HOSTS" /\ list(values, n, HostLists)
     \/ n = "ALLOWED_ORIGINS" /\ list(values, n, OriginLists)}

-----------------------------------------------------------------------------
\* The settings the rest of the program reads, their fallbacks included.
Listed(values, name, lists) ==
  IF IsSet(values, name) THEN lists[values[name]] ELSE {}

MCPPath(values) == IF IsSet(values, "MCP_PATH") THEN values["MCP_PATH"] ELSE "/mcp"

\* The patterns ServeMux takes; it panics on any other.
WellFormed(path) == path \in {"/mcp", "/"}

\* The seconds as a time.Duration: less than a nanosecond is 0, and what
\* an int64 does not hold comes out negative or beyond any wait.  http.Client
\* bounds a request only when it is positive.
Bounded(values) ==
  IsSet(values, "HTTP_TIMEOUT_SECONDS") =>
    values["HTTP_TIMEOUT_SECONDS"] \notin {"tiny", "huge", "NaN"}
=============================================================================
