----------------------------- MODULE Onboarding -----------------------------
(***************************************************************************)
(* The wizard that sets a client up (scripts/init_client.py): five steps   *)
(* of questions, a review, and the files it makes.  "The wizard saves      *)
(* progress after every step so an interrupted session can be resumed by   *)
(* running the script again" (init_client.py:9-10).                        *)
(*                                                                         *)
(* One wizard runs at a time.  The operator may interrupt it and the       *)
(* process may be killed anywhere, also while it writes a file, and a      *)
(* write may fail.                                                         *)
(***************************************************************************)
EXTENDS Naturals, Sequences, FiniteSets

CONSTANTS
  Client,       \* the ids that step 1 may give a client
  Choice,       \* what the operator may answer to each of the other steps
  Environment,  \* the number of the step about the environment, 4 in the code
  Probed,       \* the step whose answer may be tested, 3 in the code
  Last,         \* the last step of questions, 5 in the code
  Declined,     \* the answer that leaves the environment out
  Compliance,   \* the frameworks that each answer about the environment names
  NoSiem,       \* the answer to step 3 that there is nothing to test for
  Unanswered,   \* a step that was not answered
  Absent,       \* a file that is not there
  Torn,         \* a file that is being written, or was when the process ended
  MaxSetups,    \* bounds how often a setup is begun
  MaxNotes      \* bounds how often context is written to a database

Step == 1..Last

ASSUME StepAssumption ==
  /\ Last \in Nat /\ Environment \in 2..Last /\ Probed \in 2..Last
  /\ Probed # Environment
  /\ DOMAIN Choice = 2..Last /\ DOMAIN Compliance = Choice[Environment]
  /\ Absent # Torn
  /\ MaxSetups \in Nat /\ MaxNotes \in Nat

VARIABLES
  pc,         \* where the wizard is
  saved,      \* what it has in memory: the steps that are complete, the
              \* answers, and the result of the connectivity test
  stateFile,  \* .onboarding_state.json
  config,     \* the configuration files of the clients
  schema,     \* the clients whose database has its tables
  guides,     \* the clients that have a getting-started.md
  noted,      \* for each time context was written to a database: the client, the
              \* setup (0 for --add-context) and the answer that was written
  end,        \* how the last run ended
  given,      \* what was answered last to each step of this setup (not program state)
  reached,    \* the last step of this setup that was saved (not program state)
  setup,      \* the number of this setup (not program state)
  repeated,   \* the setups whose environment is asked for again (not program state)
  story       \* whether this setup was tested, and resumed after step 3 (not
              \* program state)

fileVars == <<config, schema, guides, noted>>
ghostVars == <<given, reached, setup, repeated, story>>
vars == <<pc, saved, stateFile, fileVars, end, ghostVars>>

Answer == (UNION {Choice[k] : k \in 2..Last}) \cup Client \cup {Unanswered}
Progress == [step : 0..Last, answers : [Step -> Answer], probe : {"none", "object", "text"}]
Framework == {Compliance[answer] : answer \in Choice[Environment]}
Note == [client : Client, setup : 0..MaxSetups, answer : Answer]
Blank == [k \in Step |-> Unanswered]
Empty == [step |-> 0, answers |-> Blank, probe |-> "none"]

ASSUME FileAssumption == Absent \notin Progress /\ Torn \notin Progress

TypeOK ==
  /\ pc \in {"idle", "ask", "noted", "save", "review", "config", "database",
             "guide", "checks", "clear"}
  /\ saved \in Progress
  /\ stateFile \in Progress \cup {Absent, Torn}
  /\ config \in [Client -> [Step -> Answer \cup Framework] \cup {Absent, Torn}]
  /\ schema \subseteq Client /\ guides \subseteq Client
  /\ noted \in Seq(Note) /\ Len(noted) <= MaxNotes
  /\ end \in {"none", "done", "interrupted", "cancelled", "killed", "write", "database",
             "traceback"}
  /\ given \in [Step -> Answer] /\ reached \in 0..Last
  /\ setup \in 0..MaxSetups /\ repeated \subseteq 1..MaxSetups
  /\ story \subseteq {"tested", "resumed"}

----------------------------------------------------------------------------
client == saved.answers[1]
Asked == saved.step + 1
Choices(k) == IF k = 1 THEN Client ELSE Choice[k]

Ends(how) == pc' = "idle" /\ end' = how

(* A setup begins with nothing. *)
NewSetup ==
  /\ setup < MaxSetups
  /\ setup' = setup + 1
  /\ saved' = Empty
  /\ pc' = "ask" /\ end' = "none"
  /\ given' = Blank /\ reached' = 0 /\ story' = {}
  /\ UNCHANGED <<fileVars, repeated>>

(* _load_state: a file that cannot be read counts as none. *)
Found == pc = "idle" /\ stateFile \notin {Absent, Torn}

StartNew ==
  /\ pc = "idle" /\ ~Found
  /\ NewSetup
  /\ UNCHANGED stateFile

(* "Resume from where you left off?" *)
StartOver ==
  /\ Found
  /\ stateFile' = Absent
  /\ NewSetup

Resume ==
  /\ Found
  /\ saved' = stateFile
  /\ pc' = IF stateFile.step = Last THEN "review" ELSE "ask"
  /\ end' = "none"
  /\ story' = IF stateFile.step >= Probed THEN story \cup {"resumed"} ELSE story
  /\ UNCHANGED <<stateFile, fileVars, given, reached, setup, repeated>>

(* What saved.update and _save_state begin with: memory has the answer, and   *)
(* the file is open for writing. *)
Keep(k, answer, probe) ==
  /\ saved' = [step |-> k, answers |-> [saved.answers EXCEPT ![k] = answer],
                probe |-> probe]
  /\ stateFile' = Torn
  /\ pc' = "save"

(* A step is answered; for a SIEM, connectivity may be tested. *)
AnswerStep ==
  /\ pc = "ask" /\ Asked # Environment
  /\ \E answer \in Choices(Asked) :
       /\ given' = [given EXCEPT ![Asked] = answer]
       /\ \/ /\ Keep(Asked, answer, saved.probe)
             /\ UNCHANGED story
          \/ /\ Asked = Probed /\ answer # NoSiem
             /\ Keep(Asked, answer, "object")
             /\ story' = story \cup {"tested"}
  /\ UNCHANGED <<fileVars, end, reached, setup, repeated>>

(* build_context writes everything that was answered to the database, after    *)
(* the last of its questions; who declines gets the tables. *)
AnswerEnvironment ==
  /\ pc = "ask" /\ Asked = Environment
  /\ \E answer \in Choices(Asked) :
       /\ given' = [given EXCEPT ![Asked] = answer]
       /\ \/ answer = Declined /\ UNCHANGED noted
          \/ /\ answer # Declined /\ Len(noted) < MaxNotes
             /\ noted' = Append(noted, [client |-> client, setup |-> setup,
                                        answer |-> answer])
  /\ schema' = schema \cup {client}
  /\ pc' = "noted"
  /\ UNCHANGED <<saved, stateFile, config, guides, end, reached, setup, repeated, story>>

(* A variation: the step is not marked as complete. *)
KeepUnmarked ==
  /\ pc = "noted"
  /\ saved' = [saved EXCEPT !.answers[Environment] = given[Environment]]
  /\ stateFile' = Torn
  /\ pc' = "save"
  /\ UNCHANGED <<fileVars, end, ghostVars>>

KeepEnvironment ==
  /\ pc = "noted"
  /\ Keep(Environment, given[Environment], saved.probe)
  /\ UNCHANGED <<fileVars, end, ghostVars>>

(* json.dump(..., default=str): the result of the test becomes a string. *)
InFile(s) == [s EXCEPT !.probe = IF @ = "object" THEN "text" ELSE @]

(* A variation: the wizard goes on with what it has saved. *)
SaveAndReload ==
  /\ pc = "save"
  /\ stateFile' = InFile(saved) /\ saved' = InFile(saved)
  /\ reached' = saved.step
  /\ pc' = IF saved.step = Last THEN "review" ELSE "ask"
  /\ UNCHANGED <<fileVars, end, given, setup, repeated, story>>

(* The state is written; memory keeps the result. *)
Save ==
  /\ pc = "save"
  /\ stateFile' = InFile(saved)
  /\ reached' = saved.step
  /\ pc' = IF saved.step = Last THEN "review" ELSE "ask"
  /\ UNCHANGED <<saved, fileVars, end, given, setup, repeated, story>>

(* "Create this client?"  A file that is there is overwritten. *)
Confirm ==
  /\ pc = "review"
  /\ config' = [config EXCEPT ![client] = Torn]
  /\ pc' = "config"
  /\ UNCHANGED <<saved, stateFile, schema, guides, noted, end, ghostVars>>

Cancel ==
  /\ pc = "review"
  /\ Ends("cancelled")
  /\ UNCHANGED <<saved, stateFile, fileVars, ghostVars>>

(* A variation: what the wizard keeps for itself is written as well. *)
WriteProgress ==
  /\ pc = "config"
  /\ config' = [config EXCEPT ![client] = saved]
  /\ pc' = "database"
  /\ UNCHANGED <<saved, stateFile, schema, guides, noted, end, ghostVars>>

(* Of the answer about the environment the file has the compliance only;      *)
(* subnets, scanners, windows, bastions, sign-on and team are left out. *)
InConfig(answers) == [answers EXCEPT ![Environment] = Compliance[@]]

WriteConfig ==
  /\ pc = "config"
  /\ config' = [config EXCEPT ![client] = InConfig(saved.answers)]
  /\ pc' = "database"
  /\ UNCHANGED <<saved, stateFile, schema, guides, noted, end, ghostVars>>

(* A variation: the state is cleared as soon as the files are there. *)
InitDbAndClear ==
  /\ pc = "database"
  /\ schema' = schema \cup {client}
  /\ stateFile' = Absent
  /\ pc' = "guide"
  /\ UNCHANGED <<saved, config, guides, noted, end, ghostVars>>

InitDb ==
  /\ pc = "database"
  /\ schema' = schema \cup {client}
  /\ pc' = "guide"
  /\ UNCHANGED <<saved, stateFile, config, guides, noted, end, ghostVars>>

(* The guide is left out when its template is missing or it cannot be written. *)
GenerateDocs ==
  /\ pc = "guide"
  /\ guides' \in {guides, guides \cup {client}}
  /\ pc' = "checks"
  /\ UNCHANGED <<saved, stateFile, config, schema, noted, end, ghostVars>>

(* sqlite fails, as for a database that the API has locked, and nothing      *)
(* handles it. *)
DatabaseFails ==
  /\ pc = "database" \/ (pc = "ask" /\ Asked = Environment)
  /\ Ends("database")
  /\ UNCHANGED <<saved, stateFile, fileVars, ghostVars>>

(* The health report asks the test's result for its ok. *)
HealthReport ==
  /\ pc = "checks"
  /\ IF saved.probe = "text"
     THEN Ends("traceback")
     ELSE pc' = "clear" /\ UNCHANGED end
  /\ UNCHANGED <<saved, stateFile, fileVars, ghostVars>>

ClearState ==
  /\ pc = "clear"
  /\ stateFile' = Absent
  /\ reached' = 0
  /\ Ends("done")
  /\ UNCHANGED <<saved, fileVars, given, setup, repeated, story>>

(* The disk is full or the file may not be written: nothing handles it. *)
WriteFails ==
  /\ pc \in {"save", "config"}
  /\ Ends("write")
  /\ UNCHANGED <<saved, stateFile, fileVars, ghostVars>>

(* What the step was told is gone, and a file that was being written is torn.  *)
Stop(how) ==
  /\ pc # "idle"
  /\ repeated' = IF pc = "noted" THEN repeated \cup {setup} ELSE repeated
  /\ Ends(how)
  /\ UNCHANGED <<saved, stateFile, fileVars, given, reached, setup, story>>

(* Ctrl-C, also while a file is written: "progress saved". *)
Interrupt == Stop("interrupted")

Kill == Stop("killed")

(* --add-context, for a client that has a configuration. *)
AddContext(c) ==
  /\ config[c] # Absent
  /\ Len(noted) < MaxNotes
  /\ \E answer \in Choice[Environment] \ {Declined} :
       noted' = Append(noted, [client |-> c, setup |-> 0, answer |-> answer])
  /\ schema' = schema \cup {c}
  /\ UNCHANGED <<pc, saved, stateFile, config, guides, end, ghostVars>>

Init ==
  /\ pc = "idle" /\ end = "none"
  /\ saved = Empty /\ stateFile = Absent
  /\ config \in [Client -> {Blank, Absent}]
  /\ schema = {c \in Client : config[c] # Absent} /\ guides = {} /\ noted = <<>>
  /\ given = Blank /\ reached = 0 /\ setup = 0 /\ repeated = {} /\ story = {}

Next ==
  \/ StartNew \/ StartOver \/ Resume
  \/ AnswerStep \/ AnswerEnvironment \/ KeepEnvironment \/ Save
  \/ Confirm \/ Cancel \/ WriteConfig \/ InitDb \/ DatabaseFails
  \/ GenerateDocs \/ HealthReport \/ ClearState
  \/ WriteFails \/ Interrupt \/ Kill
  \/ \E c \in Client : AddContext(c)

Spec == Init /\ [][Next]_vars

----------------------------------------------------------------------------
(* Until a setup is finished the state file has every step of it that was     *)
(* saved, with the answer that was given last, whatever stops the wizard and   *)
(* however often; unless the process was killed, interrupted or refused while  *)
(* it wrote that very file (init_client.py:9-10, 254-257, 1053-1059). *)
ProgressKept ==
  reached > 0 =>
    \/ stateFile = Torn /\ (pc = "save" \/ end \in {"killed", "interrupted", "write"})
    \/ /\ stateFile \notin {Absent, Torn}
       /\ stateFile.step >= reached
       /\ \A k \in 1..reached : stateFile.answers[k] = given[k]

(* The context of one setup is in the database once, unless the process was   *)
(* stopped after it was written there and before the state file said so: its  *)
(* rows have new ids each time (context_builder.py:175-182). *)
ContextOnce ==
  \A i, j \in 1..Len(noted) :
    (i # j /\ noted[i].setup = noted[j].setup /\ noted[i].setup # 0) =>
      noted[i].setup \in repeated

(* A run that says "Setup complete!" leaves every answer somewhere: the file   *)
(* has those to every step, of the environment the compliance; the database    *)
(* has its tables and, unless the operator declined, the whole answer about the *)
(* environment; and there is nothing to resume.  Only a setup that was resumed *)
(* after its SIEM had been tested fails at the health report                   *)
(* (init_client.py:559-599, 689-692, 1005-1050, context_builder.py:141-144). *)
EndsWhole ==
  /\ end = "done" =>
       /\ config[client] = InConfig(given)
       /\ client \in schema
       /\ given[Environment] # Declined =>
            \E i \in 1..Len(noted) :
              noted[i] = [client |-> client, setup |-> setup, answer |-> given[Environment]]
       /\ stateFile = Absent
  /\ end = "traceback" => story = {"tested", "resumed"}

=============================================================================
