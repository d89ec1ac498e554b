-------------------------- MODULE BinaryInvariant ---------------------------
(***************************************************************************)
(* The inductive invariant of Binary.  That the settings are read from the *)
(* variables as written rests on what is still to be put while they are    *)
(* gathered, one pair or key at a time; that the exit tells a failure, on  *)
(* what each place of the main goroutine may have seen fail.               *)
(***************************************************************************)
EXTENDS Binary

Gathering == {"flags", "dotenv", "gather"}
BeforeBuild == Gathering \cup {"load"}
Startable == trouble \cap {"flag", "dotenv"} = {}

\* The keys of the .env file that are taken, and the texts they give a name.
Taken == DOMAIN given.dotenv \ left
TakenTexts(name) == {given.dotenv[k] : k \in WrittenIn(Taken, name)}

\* The .env file is taken key by key: over stdio into the values, else into
\* pairs.
GatherInv ==
  /\ left \subseteq DOMAIN given.dotenv
  /\ pc \in {"flags", "dotenv"} => pairs = <<>> /\ DOMAIN values = {}
  /\ pc = "gather" /\ given.transport = "stdio" =>
       /\ pairs = <<>>
       /\ \A n \in Names : IF TakenTexts(n) = {} THEN ~IsSet(values, n)
                           ELSE IsSet(values, n) /\ values[n] \in TakenTexts(n)
  /\ pc = "gather" /\ given.transport # "stdio" =>
       /\ DOMAIN values = {}
       /\ \A i \in DOMAIN pairs : /\ pairs[i][1] \in Taken
                                  /\ pairs[i][2] = given.dotenv[pairs[i][1]]
       /\ \A k \in Taken : \E i \in DOMAIN pairs : pairs[i][1] = k

NameOf(i) == ToLower(pairs[i][1])

\* While pairs are put: the last pair of a name still to be put carries a text
\* the name may have, and a name without one is settled.
PutInv ==
  pc \notin Gathering /\ Startable =>
    /\ \A i \in DOMAIN pairs :
         (\A j \in DOMAIN pairs : j > i => NameOf(j) # NameOf(i))
           => pairs[i][2] \in Written(NameOf(i))
    /\ \A n \in Names : (\A i \in DOMAIN pairs : NameOf(i) # n) => Settled(n)

\* Past the configuration nothing is put, and a variable that is reported has
\* ended the process.
SettingsInv ==
  /\ pc \notin BeforeBuild /\ Startable => pairs = <<>> /\ reported = Reported(values)
  /\ pc \in BeforeBuild => reported = {}
  /\ reported # {} => pc = "exited" /\ trouble = {"settings"} /\ handler = "none"

TransportInv ==
  /\ pc \notin {"flags", "exited"} => given.transport # "other"
  /\ pc \in {"preflight", "session", "deferred"} => IsStdio
  /\ pc = "serving" => IsHTTP

\* runStdio: what is deferred, and what the session left.
StdioInv ==
  /\ pc = "deferred" => ended # "none"
  /\ ended # "none" => pc \in {"deferred", "exited"}
  /\ pc \in {"preflight", "session"} => deferred = <<"closingRecord", "close">>
  /\ pc = "deferred" =>
       \/ deferred = <<"closingRecord", "close">>
       \/ deferred = <<"close">> /\ lastLine = "closing"
       \/ deferred = <<>> /\ lastLine = "closing" /\ logFile = "closed"
  /\ pc = "deferred" =>
       trouble = IF ended \in {"wireError", "EOF"} THEN {"session"} ELSE {}

\* The embedded server: it runs only while it is served, it stops only with a
\* handler, and what it reports is all that failed.
ServerInv ==
  /\ pc \notin {"deferred", "serving", "exited"} => trouble = {}
  /\ pc \notin {"serving", "exited"} => phase = "starting" /\ handler = "none"
  /\ pc = "serving" => phase \in {"running", "stopping", "stopped"} /\ trouble = err
  /\ pc = "exited" => phase # "stopping" /\ (handler = "built" => phase = "stopped")
  /\ handler = "none" => phase \notin {"stopping", "stopped"}
  /\ phase # "stopped" => err = {}

\* A request is answered by a handler built of settings nothing is wrong with.
GuardInv ==
  /\ handler = "built" => /\ pc \notin BeforeBuild /\ Reported(values) = {}
                          /\ WellFormed(MCPPath(values))
  /\ answer # NoAnswer =>
       /\ handler = "built" /\ answer.request \in Requests
       /\ answer.status = Answer(answer.request, MCPPath(values), AllowedHosts(Hosts),
                                 AllowedOrigins(Origins))

IInv == /\ TypeOK /\ GatherInv /\ PutInv /\ SettingsInv /\ TransportInv
        /\ StdioInv /\ ServerInv /\ GuardInv
        /\ ExitTellsFailure /\ LogEndsClosed

=============================================================================
