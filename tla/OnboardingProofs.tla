-------------------------- MODULE OnboardingProofs --------------------------
(***************************************************************************)
(* What holds of the setup wizard for any clients, steps and answers and   *)
(* however often it is interrupted, killed, resumed or begun anew.         *)
(***************************************************************************)
EXTENDS Onboarding, TLAPS

InFileState == stateFile \notin {Absent, Torn}

(* How far the wizard is, by where it is. *)
Phases ==
  /\ pc # "idle" => end = "none" /\ setup >= 1
  /\ pc = "ask" => saved.step < Last
  /\ pc = "noted" => saved.step = Environment - 1 /\ given[Environment] \in Choice[Environment]
  /\ pc = "save" => saved.step >= 1 /\ stateFile = Torn
  /\ pc \in {"review", "config", "database", "guide", "checks", "clear"} =>
       saved.step = Last
  /\ saved.step >= 1 => saved.answers[1] \in Client
  /\ saved.step >= Environment => saved.answers[Environment] \in Choice[Environment]

(* What the state file has, and how memory follows it. *)
OnFile ==
  /\ InFileState =>
       /\ setup >= 1
       /\ stateFile.step >= 1
       /\ stateFile.answers[1] \in Client
       /\ stateFile.step >= Environment =>
            stateFile.answers[Environment] \in Choice[Environment]
       /\ \A k \in 1..stateFile.step : stateFile.answers[k] = given[k]
       /\ pc # "idle" => stateFile.step = saved.step
  /\ pc \notin {"idle", "save"} /\ ~InFileState => saved.step = 0
  /\ pc # "idle" => \A k \in 1..saved.step : saved.answers[k] = given[k]

(* The result of the connectivity test, in memory and in the file. *)
ProbeStory ==
  /\ saved.probe # "none" => saved.step >= Probed /\ "tested" \in story
  /\ saved.probe = "text" => "resumed" \in story
  /\ InFileState /\ stateFile.probe # "none" =>
       stateFile.step >= Probed /\ "tested" \in story

(* The context of this setup is in the database only once the wizard has got  *)
(* that far. *)
Written ==
  /\ \A i \in 1..Len(noted) : noted[i].setup <= setup
  /\ (\E i \in 1..Len(noted) : noted[i].setup = setup) =>
       \/ setup \in repeated
       \/ pc = "noted"
       \/ pc # "idle" /\ saved.step >= Environment
       \/ pc = "idle" /\ (InFileState => stateFile.step >= Environment)

(* Once the step about the environment is answered, the database has all of it, *)
(* unless the operator declined. *)
Recorded ==
  \E i \in 1..Len(noted) :
    noted[i] = [client |-> given[1], setup |-> setup, answer |-> given[Environment]]

InDatabase ==
  /\ \/ pc = "noted"
     \/ pc # "idle" /\ saved.step >= Environment
     \/ InFileState /\ stateFile.step >= Environment
  /\ given[Environment] # Declined
  => Recorded

(* The files of a setup that is almost done. *)
Whole ==
  /\ pc \in {"database", "guide", "checks", "clear"} => config[client] = InConfig(saved.answers)
  /\ pc \in {"guide", "checks", "clear"} => client \in schema

SetupInv ==
  /\ TypeOK
  /\ Phases /\ OnFile /\ ProbeStory /\ Written /\ InDatabase /\ Whole
  /\ ProgressKept /\ ContextOnce /\ EndsWhole

----------------------------------------------------------------------------
(* The empty progress a setup begins with. *)
LEMMA EmptyProgress ==
  /\ Blank \in [Step -> Answer]
  /\ Empty \in Progress /\ Empty.step = 0 /\ Empty.probe = "none"
<1>1. Blank \in [Step -> Answer]
  BY DEF Blank, Answer
<1>2. 0 \in 0..Last
  BY StepAssumption
<1>3. QED
  BY <1>1, <1>2 DEF Empty, Progress

(* What the file has of some progress. *)
LEMMA InFileProgress ==
  ASSUME NEW s \in Progress
  PROVE  /\ InFile(s) \in Progress
         /\ InFile(s).step = s.step /\ InFile(s).answers = s.answers
         /\ InFile(s).probe = "none" <=> s.probe = "none"
BY DEF InFile, Progress

(* What an answer makes of it. *)
LEMMA KeptProgress ==
  ASSUME NEW s \in Progress, NEW k \in Step, NEW a \in Answer,
         NEW p \in {"none", "object", "text"}
  PROVE  [step |-> k, answers |-> [s.answers EXCEPT ![k] = a], probe |-> p] \in Progress
<1>1. [s.answers EXCEPT ![k] = a] \in [Step -> Answer]
  BY DEF Progress
<1>2. k \in 0..Last
  BY StepAssumption DEF Step
<1>3. QED
  BY <1>1, <1>2 DEF Progress

(* Every choice is an answer. *)
LEMMA ChoiceIsAnswer ==
  /\ Choices(1) = Client
  /\ \A k \in Step : Choices(k) \subseteq Answer
<1>1. ASSUME NEW k \in Step, NEW a \in Choices(k)
      PROVE  a \in Answer
  <2>1. CASE k = 1
    BY <1>1, <2>1 DEF Choices, Answer
  <2>2. CASE k # 1
    <3>1. k \in 2..Last /\ a \in Choice[k]
      BY <1>1, <2>2, StepAssumption DEF Choices, Step
    <3>2. QED
      BY <3>1 DEF Answer
  <2>3. QED
    BY <2>1, <2>2
<1>2. QED
  BY <1>1 DEF Choices

(* A row of context is written. *)
LEMMA NotedGrows ==
  ASSUME TypeOK, NEW e \in Note, Len(noted) < MaxNotes,
         noted' = Append(noted, e)
  PROVE  /\ noted' \in Seq(Note) /\ Len(noted') <= MaxNotes
         /\ Len(noted') = Len(noted) + 1
         /\ \A i \in 1..Len(noted) : noted'[i] = noted[i]
         /\ noted'[Len(noted')] = e
BY StepAssumption DEF TypeOK

----------------------------------------------------------------------------
(* The invariant holds of a state that differs from a good one only in what *)
(* one step changes: first the steps that begin a run of the wizard. *)
LEMMA StartKeeps ==
  ASSUME SetupInv, StartNew \/ StartOver \/ Resume
  PROVE  SetupInv'
<1>1. CASE StartNew \/ StartOver
  <2>1. /\ pc = "idle" /\ pc' = "ask" /\ saved' = Empty /\ end' = "none"
        /\ setup < MaxSetups /\ setup' = setup + 1
        /\ given' = Blank /\ reached' = 0 /\ story' = {}
        /\ UNCHANGED <<config, schema, guides, noted, repeated>>
    BY <1>1 DEF StartNew, StartOver, NewSetup, Found, fileVars
  <2>2. stateFile' \in {Absent, Torn} /\ ~InFileState'
    BY <1>1 DEF StartNew, StartOver, NewSetup, Found, InFileState
  <2>3. TypeOK'
    BY <2>1, <2>2, StepAssumption, EmptyProgress DEF SetupInv, TypeOK
  <2>4. Phases' /\ OnFile' /\ ProbeStory'
    BY <2>1, <2>2, StepAssumption, EmptyProgress
    DEF SetupInv, TypeOK, Phases, OnFile, ProbeStory
  <2>5. Written' /\ InDatabase'
    <3>1. \A i \in 1..Len(noted) : noted[i].setup <= setup /\ noted[i].setup \in Nat
      <4>1. \A i \in 1..Len(noted) : noted[i] \in Note
        BY DEF SetupInv, TypeOK
      <4>2. \A i \in 1..Len(noted) : noted[i].setup \in 0..MaxSetups
        BY <4>1 DEF Note
      <4>3. QED
        BY <4>2, StepAssumption DEF SetupInv, Written
    <3>2. setup \in Nat
      BY StepAssumption DEF SetupInv, TypeOK
    <3>3. Written'
      BY <2>1, <3>1, <3>2 DEF Written
    <3>4. InDatabase'
      BY <2>1, <2>2, StepAssumption, EmptyProgress DEF InDatabase
    <3>5. QED
      BY <3>3, <3>4
  <2>6. Whole' /\ ProgressKept' /\ ContextOnce' /\ EndsWhole'
    BY <2>1 DEF SetupInv, Whole, ProgressKept, ContextOnce, EndsWhole
  <2>7. QED
    BY <2>3, <2>4, <2>5, <2>6 DEF SetupInv
<1>2. CASE Resume
  <2>1. InFileState /\ stateFile \in Progress /\ saved' = stateFile /\ pc = "idle"
    BY <1>2 DEF Resume, Found, InFileState, SetupInv, TypeOK
  <2>2. TypeOK'
    BY <1>2, <2>1 DEF SetupInv, TypeOK, Resume, fileVars
  <2>3. Phases' /\ OnFile' /\ ProbeStory'
    BY <1>2, <2>1, StepAssumption, SMTT(30)
    DEF SetupInv, TypeOK, Phases, OnFile, ProbeStory, InFileState, Progress, Resume
  <2>4. Written' /\ InDatabase' /\ Whole' /\ ProgressKept' /\ ContextOnce' /\ EndsWhole'
    <3>1. /\ saved' = stateFile /\ pc' \in {"ask", "review"} /\ end' = "none"
          /\ UNCHANGED <<stateFile, config, schema, noted, given, reached, setup, repeated>>
      BY <1>2 DEF Resume, fileVars
    <3>2. Written'
      BY <2>1, <3>1 DEF SetupInv, Written
    <3>3. InDatabase'
      BY <2>1, <3>1 DEF SetupInv, InDatabase, Recorded, InFileState
    <3>4. Whole' /\ ContextOnce' /\ EndsWhole'
      BY <3>1 DEF SetupInv, Whole, ContextOnce, EndsWhole
    <3>5. ProgressKept'
      BY <2>1, <3>1 DEF SetupInv, ProgressKept, InFileState
    <3>6. QED
      BY <3>2, <3>3, <3>4, <3>5
  <2>5. QED
    BY <2>2, <2>3, <2>4 DEF SetupInv
<1>3. QED
  BY <1>1, <1>2

(* An answer goes into memory, and the file is being written. *)
LEMMA AnswerStepKeeps ==
  ASSUME SetupInv, AnswerStep
  PROVE  SetupInv'
<1> DEFINE k == saved.step + 1
<1>1. PICK answer \in Choices(k) :
        /\ given' = [given EXCEPT ![k] = answer]
        /\ \/ Keep(k, answer, saved.probe) /\ UNCHANGED story
           \/ /\ k = Probed
              /\ Keep(k, answer, "object")
              /\ story' = story \cup {"tested"}
  BY DEF AnswerStep, Asked
<1>2. /\ pc = "ask" /\ k # Environment /\ k \in Step /\ saved \in Progress
      /\ answer \in Answer /\ (k = 1 => answer \in Client)
      /\ saved.probe \in {"none", "object", "text"}
  BY ChoiceIsAnswer, StepAssumption
  DEF AnswerStep, Asked, SetupInv, TypeOK, Phases, Progress, Step
<1>3. /\ saved' \in Progress /\ saved'.step = k
      /\ saved'.answers = [saved.answers EXCEPT ![k] = answer]
      /\ stateFile' = Torn /\ pc' = "save"
      /\ \/ saved'.probe = saved.probe /\ story' = story
         \/ k = Probed /\ saved'.probe = "object" /\ story' = story \cup {"tested"}
  <2>1. \A probe \in {"none", "object", "text"} :
          /\ [step |-> k, answers |-> [saved.answers EXCEPT ![k] = answer],
              probe |-> probe] \in Progress
          /\ [step |-> k, answers |-> [saved.answers EXCEPT ![k] = answer],
              probe |-> probe].step = k
    BY <1>2, KeptProgress
  <2>2. CASE Keep(k, answer, saved.probe) /\ UNCHANGED story
    BY <1>2, <2>1, <2>2 DEF Keep
  <2>3. CASE k = Probed /\ Keep(k, answer, "object") /\ story' = story \cup {"tested"}
    BY <1>2, <2>1, <2>3 DEF Keep
  <2>4. QED
    BY <1>1, <2>2, <2>3
<1>4. UNCHANGED <<config, schema, guides, noted, end, reached, setup, repeated>>
  BY DEF AnswerStep, fileVars
<1>5. TypeOK'
  <2>1. given' \in [Step -> Answer]
    BY <1>1, <1>2 DEF SetupInv, TypeOK
  <2>2. story' \subseteq {"tested", "resumed"}
    BY <1>3 DEF SetupInv, TypeOK
  <2>3. QED
    BY <1>3, <1>4, <2>1, <2>2 DEF SetupInv, TypeOK
<1>6. Phases'
  BY <1>1, <1>2, <1>3, <1>4, StepAssumption DEF SetupInv, Phases, Progress, Step
<1>7. OnFile'
  <2>1. ~InFileState' /\ pc' = "save"
    BY <1>3 DEF InFileState
  <2>2. given \in [Step -> Answer] /\ saved.answers \in [Step -> Answer]
    BY <1>2 DEF SetupInv, TypeOK, Progress
  <2>3. \A j \in 1..saved.step : saved.answers[j] = given[j]
    BY <1>2 DEF SetupInv, OnFile
  <2>4. \A j \in 1..k : saved'.answers[j] = given'[j]
    <3>1. saved'.answers[k] = answer /\ given'[k] = answer
      BY <1>1, <1>2, <1>3, <2>2
    <3>2. ASSUME NEW j \in 1..k, j # k
          PROVE  saved'.answers[j] = given'[j]
      <4>1. j \in 1..saved.step /\ j \in Step
        BY <1>2, <3>2, StepAssumption DEF Progress, Step
      <4>2. saved'.answers[j] = saved.answers[j] /\ given'[j] = given[j]
        BY <1>1, <1>2, <1>3, <2>2, <3>2, <4>1
      <4>3. QED
        BY <2>3, <4>1, <4>2
    <3>3. QED
      BY <3>1, <3>2
  <2>5. QED
    BY <1>3, <2>1, <2>4 DEF OnFile
<1>8. ProbeStory'
  BY <1>2, <1>3, StepAssumption DEF SetupInv, ProbeStory, InFileState, Progress, Step
<1>9. Written'
  BY <1>2, <1>3, <1>4, StepAssumption DEF SetupInv, Written, Progress
<1>10. InDatabase'
  <2>1. CASE k < Environment
    <3>1. ~(saved'.step >= Environment) /\ ~InFileState' /\ pc' # "noted"
      BY <1>2, <1>3, <2>1, StepAssumption DEF InFileState, Step
    <3>2. QED
      BY <3>1 DEF InDatabase
  <2>2. CASE k > Environment
    <3>1. saved.step >= Environment
      BY <1>2, <2>2, StepAssumption DEF Progress, Step
    <3>2. given'[1] = given[1] /\ given'[Environment] = given[Environment]
      BY <1>1, <1>2, <2>2, StepAssumption DEF SetupInv, TypeOK, Step
    <3>3. QED
      BY <1>2, <1>4, <3>1, <3>2 DEF SetupInv, InDatabase, Recorded
  <2>3. QED
    BY <1>2, <2>1, <2>2, StepAssumption DEF Step
<1>11. Whole' /\ ProgressKept' /\ ContextOnce' /\ EndsWhole'
  BY <1>2, <1>3, <1>4 DEF SetupInv, Phases, Whole, ProgressKept, ContextOnce, EndsWhole
<1>12. QED
  BY <1>5, <1>6, <1>7, <1>8, <1>9, <1>10, <1>11 DEF SetupInv

(* The context is written before the step is marked: nothing of this setup was *)
(* there, unless the wizard was killed at this point before. *)
LEMMA AnswerEnvironmentKeeps ==
  ASSUME SetupInv, AnswerEnvironment
  PROVE  SetupInv'
<1>1. PICK answer \in Choices(Environment) :
        /\ given' = [given EXCEPT ![Environment] = answer]
        /\ \/ answer = Declined /\ UNCHANGED noted
           \/ /\ Len(noted) < MaxNotes
              /\ noted' = Append(noted, [client |-> client, setup |-> setup,
                                         answer |-> answer])
  BY DEF AnswerEnvironment, Asked
<1>2. /\ pc = "ask" /\ pc' = "noted" /\ saved.step = Environment - 1
      /\ Environment \in Step /\ saved \in Progress /\ answer \in Answer
      /\ client \in Client /\ setup \in 0..MaxSetups /\ answer \in Choice[Environment]
      /\ schema' = schema \cup {client}
      /\ UNCHANGED <<saved, stateFile, config, guides, end, reached, setup, repeated,
                     story>>
  <2>1. /\ pc = "ask" /\ pc' = "noted" /\ saved.step + 1 = Environment
        /\ schema' = schema \cup {client}
        /\ UNCHANGED <<saved, stateFile, config, guides, end, reached, setup, repeated,
                       story>>
    BY DEF AnswerEnvironment, Asked
  <2>2. /\ saved \in Progress /\ setup \in 0..MaxSetups
        /\ (saved.step >= 1 => saved.answers[1] \in Client)
    BY DEF SetupInv, TypeOK, Phases
  <2>3. saved.step = Environment - 1 /\ saved.step >= 1 /\ Environment \in Step
        /\ Environment # 1
    BY <2>1, <2>2, StepAssumption DEF Progress, Step
  <2>4. answer \in Choice[Environment] /\ answer \in Answer
    BY <1>1, <2>3, ChoiceIsAnswer DEF Choices
  <2>5. QED
    BY <2>1, <2>2, <2>3, <2>4 DEF client
<1>3. \/ answer = Declined /\ UNCHANGED noted
      \/ /\ noted' \in Seq(Note) /\ Len(noted') <= MaxNotes
         /\ Len(noted') = Len(noted) + 1
         /\ \A i \in 1..Len(noted) : noted'[i] = noted[i]
         /\ noted'[Len(noted')] = [client |-> client, setup |-> setup, answer |-> answer]
  <2>1. [client |-> client, setup |-> setup, answer |-> answer] \in Note
    BY <1>2 DEF Note
  <2>2. QED
    BY <1>1, <2>1, NotedGrows DEF SetupInv
<1>4. TypeOK'
  <2>1. given' \in [Step -> Answer]
    BY <1>1, <1>2 DEF SetupInv, TypeOK
  <2>2. noted' \in Seq(Note) /\ Len(noted') <= MaxNotes
    BY <1>3 DEF SetupInv, TypeOK
  <2>3. QED
    BY <1>2, <2>1, <2>2 DEF SetupInv, TypeOK
<1>5. Phases' /\ OnFile'
  BY <1>1, <1>2, StepAssumption
  DEF SetupInv, TypeOK, Phases, OnFile, InFileState, Progress, Step
<1>6. ProbeStory' /\ Whole' /\ EndsWhole'
  BY <1>2 DEF SetupInv, Phases, ProbeStory, Whole, EndsWhole, InFileState
<1>7. ProgressKept'
  BY <1>1, <1>2, StepAssumption
  DEF SetupInv, TypeOK, Phases, OnFile, ProgressKept, InFileState, Progress, Step
<1>8. noted \in Seq(Note) /\ Len(noted) \in Nat
  BY DEF SetupInv, TypeOK
<1>9. Written'
  <2>1. \A i \in 1..Len(noted') : noted'[i].setup <= setup
    BY <1>2, <1>3, <1>8 DEF SetupInv, Written
  <2>2. QED
    BY <1>2, <2>1 DEF Written
<1>10. ContextOnce'
  <2>1. \A i \in 1..Len(noted) : noted[i].setup = setup => setup \in repeated
    BY <1>2, StepAssumption DEF SetupInv, Written
  <2>2. CASE UNCHANGED noted
    BY <1>2, <2>2 DEF SetupInv, ContextOnce
  <2>3. CASE ~UNCHANGED noted
    <3>1. ASSUME NEW i \in 1..Len(noted'), NEW j \in 1..Len(noted'), i # j,
                 noted'[i].setup = noted'[j].setup, noted'[i].setup # 0
          PROVE  noted'[i].setup \in repeated
      <4>1. CASE i \in 1..Len(noted) /\ j \in 1..Len(noted)
        BY <1>3, <2>3, <3>1, <4>1 DEF SetupInv, ContextOnce
      <4>2. CASE i \notin 1..Len(noted)
        <5>1. j \in 1..Len(noted) /\ noted'[i].setup = setup
          BY <1>3, <1>8, <2>3, <3>1, <4>2
        <5>2. QED
          BY <1>3, <2>1, <2>3, <3>1, <5>1
      <4>3. CASE j \notin 1..Len(noted)
        <5>1. i \in 1..Len(noted) /\ noted'[j].setup = setup
          BY <1>3, <1>8, <2>3, <3>1, <4>3
        <5>2. QED
          BY <1>3, <2>1, <2>3, <3>1, <5>1
      <4>4. QED
        BY <4>1, <4>2, <4>3
    <3>2. QED
      BY <1>2, <3>1 DEF ContextOnce
  <2>4. QED
    BY <2>2, <2>3
<1>11. InDatabase'
  <2>1. given'[1] = client /\ given'[Environment] = answer
    BY <1>1, <1>2, StepAssumption DEF SetupInv, TypeOK, OnFile, client, Step
  <2>2. CASE answer = Declined
    BY <2>1, <2>2 DEF InDatabase
  <2>3. CASE answer # Declined
    <3>1. Len(noted') \in 1..Len(noted')
      BY <1>3, <1>8, <2>3
    <3>2. QED
      BY <1>2, <1>3, <2>1, <2>3, <3>1 DEF InDatabase, Recorded
  <2>4. QED
    BY <2>2, <2>3
<1>12. QED
  BY <1>4, <1>5, <1>6, <1>7, <1>9, <1>10, <1>11 DEF SetupInv

(* The step is marked in memory, and the file is being written; or it is       *)
(* complete. *)
LEMMA SaveKeeps ==
  ASSUME SetupInv, KeepEnvironment \/ Save
  PROVE  SetupInv'
<1>1. CASE KeepEnvironment
  <2>1. /\ pc = "noted" /\ saved \in Progress /\ Environment \in Step
        /\ given[Environment] \in Answer /\ saved.probe \in {"none", "object", "text"}
    <3>1. pc = "noted" /\ Environment \in Step
      BY <1>1, StepAssumption DEF KeepEnvironment, Step
    <3>2. saved \in Progress /\ given \in [Step -> Answer]
      BY DEF SetupInv, TypeOK
    <3>3. saved.probe \in {"none", "object", "text"}
      BY <3>2 DEF Progress
    <3>4. QED
      BY <3>1, <3>2, <3>3
  <2>2. /\ saved' \in Progress /\ saved'.step = Environment /\ saved'.probe = saved.probe
        /\ saved'.answers = [saved.answers EXCEPT ![Environment] = given[Environment]]
        /\ stateFile' = Torn /\ pc' = "save"
    BY <1>1, <2>1, KeptProgress DEF KeepEnvironment, Keep
  <2>3. TypeOK'
    BY <1>1, <2>2 DEF SetupInv, TypeOK, KeepEnvironment, fileVars, ghostVars
  <2>4. /\ UNCHANGED <<config, schema, guides, noted, end, given, reached, setup,
                      repeated, story>>
        /\ saved.step = Environment - 1 /\ saved.answers \in [Step -> Answer]
    BY <1>1, <2>1
    DEF KeepEnvironment, fileVars, ghostVars, SetupInv, Phases, Progress
  <2>5. Phases'
    BY <2>1, <2>2, <2>4, StepAssumption DEF SetupInv, Phases, Step
  <2>6. OnFile'
    <3>1. \A j \in 1..saved.step : saved.answers[j] = given[j]
      BY <2>1 DEF SetupInv, OnFile
    <3>2. \A j \in 1..Environment : saved'.answers[j] = given[j]
      BY <2>2, <2>4, <3>1, StepAssumption DEF Step
    <3>3. QED
      BY <2>2, <2>4, <3>2 DEF OnFile, InFileState
  <2>7. ProbeStory'
    BY <2>1, <2>2, <2>4, StepAssumption DEF SetupInv, ProbeStory, InFileState
  <2>8. Written'
    BY <2>1, <2>2, <2>4, StepAssumption DEF SetupInv, Written
  <2>9. InDatabase' /\ Whole' /\ ProgressKept' /\ ContextOnce' /\ EndsWhole'
    BY <2>1, <2>2, <2>4
    DEF SetupInv, Phases, InDatabase, Recorded, Whole, ProgressKept, ContextOnce, EndsWhole
  <2>10. QED
    BY <2>3, <2>5, <2>6, <2>7, <2>8, <2>9 DEF SetupInv
<1>2. CASE Save
  <2>1. /\ pc = "save" /\ stateFile' \in Progress /\ InFileState'
        /\ stateFile'.step = saved.step /\ stateFile'.answers = saved.answers
        /\ stateFile'.probe = "none" <=> saved.probe = "none"
    BY <1>2, InFileProgress, FileAssumption DEF Save, SetupInv, TypeOK, InFileState
  <2>2. TypeOK'
    BY <1>2, <2>1 DEF SetupInv, TypeOK, Progress, Save, fileVars
  <2>3. Phases' /\ OnFile' /\ ProbeStory'
    <3>1. /\ UNCHANGED <<saved, given, setup, story, end>>
          /\ pc' = IF saved.step = Last THEN "review" ELSE "ask"
          /\ saved.step \in 0..Last /\ end = "none" /\ setup >= 1 /\ saved.step >= 1
          /\ saved.answers[1] \in Client
          /\ saved.step >= Environment => saved.answers[Environment] \in Choice[Environment]
      BY <1>2, <2>1 DEF Save, SetupInv, TypeOK, Phases, Progress
    <3>2. Phases'
      BY <3>1, StepAssumption DEF Phases
    <3>3. OnFile'
      BY <2>1, <3>1 DEF SetupInv, OnFile
    <3>4. ProbeStory'
      BY <2>1, <3>1 DEF SetupInv, ProbeStory
    <3>5. QED
      BY <3>2, <3>3, <3>4
  <2>4. Written' /\ InDatabase' /\ Whole' /\ ContextOnce' /\ EndsWhole'
    BY <1>2, <2>1
    DEF SetupInv, Phases, Written, InDatabase, Recorded, Whole, ContextOnce, EndsWhole, Save,
        fileVars, client
  <2>5. ProgressKept'
    BY <1>2, <2>1 DEF SetupInv, TypeOK, Phases, OnFile, ProgressKept, InFileState, Progress, Save
  <2>6. QED
    BY <2>2, <2>3, <2>4, <2>5 DEF SetupInv
<1>3. QED
  BY <1>1, <1>2

(* Memory is written to the files, one after another. *)
LEMMA FilesKeep ==
  ASSUME SetupInv, Confirm \/ WriteConfig \/ InitDb \/ GenerateDocs
  PROVE  SetupInv'
<1>1. CASE Confirm
  BY <1>1, StepAssumption, FileAssumption, SMTT(30)
  DEF SetupInv, TypeOK, Phases, OnFile, ProbeStory, Written, InDatabase, Recorded, Whole,
      ProgressKept, ContextOnce, EndsWhole, InFileState, Progress, Step, client, Ends, fileVars,
      ghostVars, Confirm
<1>2. CASE InitDb
  BY <1>2, StepAssumption, FileAssumption, SMTT(30)
  DEF SetupInv, TypeOK, Phases, OnFile, ProbeStory, Written, InDatabase, Recorded, Whole,
      ProgressKept, ContextOnce, EndsWhole, InFileState, Progress, Step, client, Ends, fileVars,
      ghostVars, InitDb
<1>3. CASE GenerateDocs
  BY <1>3, StepAssumption, FileAssumption, SMTT(30)
  DEF SetupInv, TypeOK, Phases, OnFile, ProbeStory, Written, InDatabase, Recorded, Whole,
      ProgressKept, ContextOnce, EndsWhole, InFileState, Progress, Step, client, Ends, fileVars,
      ghostVars, GenerateDocs
<1>4. CASE WriteConfig
  <2>1. pc = "config" /\ pc' = "database" /\ client \in Client /\ saved.answers \in [Step -> Answer]
    BY <1>4, StepAssumption DEF WriteConfig, SetupInv, TypeOK, Phases, Progress, client
  <2>2. TypeOK'
    <3>1. InConfig(saved.answers) \in [Step -> Answer \cup Framework]
      BY <1>4, <2>1, StepAssumption
      DEF WriteConfig, SetupInv, Phases, InConfig, Framework, Step
    <3>2. QED
      BY <1>4, <2>1, <3>1 DEF SetupInv, TypeOK, WriteConfig, ghostVars
  <2>4. Whole'
    BY <1>4, <2>1 DEF SetupInv, TypeOK, Whole, WriteConfig, client
  <2>3. QED
    BY <1>4, <2>1, <2>2, <2>4
    DEF SetupInv, Phases, OnFile, ProbeStory, Written, InDatabase, Recorded, ProgressKept,
        ContextOnce, EndsWhole, InFileState, WriteConfig, ghostVars
<1>5. QED
  BY <1>1, <1>2, <1>3, <1>4

(* The wizard ends, well or not. *)
LEMMA EndKeeps ==
  ASSUME SetupInv,
         Cancel \/ WriteFails \/ Interrupt \/ Kill \/ DatabaseFails \/ HealthReport \/ ClearState
  PROVE  SetupInv'
<1>1. CASE Cancel
  BY <1>1, StepAssumption, FileAssumption, SMTT(30)
  DEF SetupInv, TypeOK, Phases, OnFile, ProbeStory, Written, InDatabase, Recorded, Whole,
      ProgressKept, ContextOnce, EndsWhole, InFileState, Progress, Step, client, Ends, Asked, fileVars,
      ghostVars, Cancel
<1>2. CASE Interrupt
  BY <1>2, StepAssumption, FileAssumption, SMTT(30)
  DEF SetupInv, TypeOK, Phases, OnFile, ProbeStory, Written, InDatabase, Recorded, Whole,
      ProgressKept, ContextOnce, EndsWhole, InFileState, Progress, Step, client, Ends, Asked, fileVars,
      ghostVars, Interrupt, Stop
<1>3. CASE Kill
  BY <1>3, StepAssumption, FileAssumption, SMTT(30)
  DEF SetupInv, TypeOK, Phases, OnFile, ProbeStory, Written, InDatabase, Recorded, Whole,
      ProgressKept, ContextOnce, EndsWhole, InFileState, Progress, Step, client, Ends, Asked, fileVars,
      ghostVars, Kill, Stop
<1>4. CASE DatabaseFails
  BY <1>4, StepAssumption, FileAssumption, SMTT(30)
  DEF SetupInv, TypeOK, Phases, OnFile, ProbeStory, Written, InDatabase, Recorded, Whole,
      ProgressKept, ContextOnce, EndsWhole, InFileState, Progress, Step, client, Ends, Asked, fileVars,
      ghostVars, DatabaseFails
<1>5. CASE HealthReport
  <2>1. saved.probe = "text" => story = {"tested", "resumed"}
    BY DEF SetupInv, TypeOK, ProbeStory
  <2>2. EndsWhole'
    BY <1>5, <2>1 DEF SetupInv, Phases, EndsWhole, HealthReport, Ends, fileVars, ghostVars
  <2>3. QED
    <3>1. /\ pc = "checks" /\ UNCHANGED <<saved, stateFile, config, schema, guides, noted,
                                           given, reached, setup, repeated, story>>
          /\ \/ pc' = "idle" /\ end' = "traceback"
             \/ pc' = "clear" /\ end' = end
      BY <1>5 DEF HealthReport, Ends, fileVars, ghostVars
    <3>2. TypeOK' /\ Phases'
      BY <3>1 DEF SetupInv, TypeOK, Phases
    <3>3. OnFile' /\ ProbeStory'
      BY <3>1 DEF SetupInv, OnFile, ProbeStory, InFileState
    <3>4. saved.step = Last /\ Last >= Environment
      BY <3>1, StepAssumption DEF SetupInv, Phases
    <3>5. Written'
      BY <3>1, <3>4, StepAssumption DEF SetupInv, OnFile, Written, InFileState
    <3>6. InDatabase' /\ Whole'
      BY <3>1, <3>4 DEF SetupInv, InDatabase, Recorded, Whole, InFileState, client
    <3>7. ProgressKept' /\ ContextOnce'
      BY <3>1 DEF SetupInv, Phases, ProgressKept, ContextOnce
    <3>8. QED
      BY <2>2, <3>2, <3>3, <3>5, <3>6, <3>7 DEF SetupInv
<1>6. CASE ClearState
  <2>1. saved.answers = given
    BY <1>6 DEF ClearState, SetupInv, TypeOK, Phases, OnFile, Progress, Step
  <2>2. EndsWhole'
    BY <1>6, <2>1, StepAssumption
    DEF SetupInv, Phases, InDatabase, Recorded, Whole, EndsWhole, ClearState, Ends, client,
        fileVars
  <2>3. QED
    BY <1>6, <2>2, StepAssumption, SMTT(30)
    DEF SetupInv, TypeOK, Phases, OnFile, ProbeStory, Written, InDatabase, Recorded, Whole,
      ProgressKept, ContextOnce, InFileState, Progress, client, Ends, ClearState, fileVars
<1>7. CASE WriteFails
  BY <1>7, StepAssumption, FileAssumption, SMTT(30)
  DEF SetupInv, TypeOK, Phases, OnFile, ProbeStory, Written, InDatabase, Recorded, Whole,
      ProgressKept, ContextOnce, EndsWhole, InFileState, Progress, Step, client, Ends, Asked,
      fileVars, ghostVars, WriteFails
<1>8. QED
  BY <1>1, <1>2, <1>3, <1>4, <1>5, <1>6, <1>7

(* --add-context is not part of a setup. *)
LEMMA AddContextKeeps ==
  ASSUME SetupInv, NEW c \in Client, AddContext(c)
  PROVE  SetupInv'
<1> PICK answer \in Choice[Environment] :
      noted' = Append(noted, [client |-> c, setup |-> 0, answer |-> answer])
  BY DEF AddContext
<1>1. noted \in Seq(Note) /\ Len(noted) \in Nat
      /\ [client |-> c, setup |-> 0, answer |-> answer] \in Note /\ setup \in Nat
  BY StepAssumption DEF SetupInv, TypeOK, Note, Answer
<1>2. /\ noted' \in Seq(Note) /\ Len(noted') <= MaxNotes
      /\ Len(noted') = Len(noted) + 1
      /\ \A i \in 1..Len(noted) : noted'[i] = noted[i]
      /\ noted'[Len(noted')] = [client |-> c, setup |-> 0, answer |-> answer]
  BY <1>1, NotedGrows DEF SetupInv, AddContext
<1>3. TypeOK' /\ Phases' /\ OnFile' /\ ProbeStory' /\ Whole' /\ ProgressKept'
  BY <1>2 DEF SetupInv, TypeOK, Phases, OnFile, ProbeStory, Whole, ProgressKept,
    InFileState, AddContext, client, ghostVars
<1>4. Written'
  <2>1. CASE setup = 0
    BY <1>1, <1>2, <2>1 DEF SetupInv, Written, Phases, OnFile, AddContext, ghostVars, InFileState
  <2>2. CASE setup # 0
    BY <1>1, <1>2, <2>2 DEF SetupInv, Written, AddContext, ghostVars, InFileState
  <2>3. QED
    BY <2>1, <2>2
<1>5. ContextOnce'
  BY <1>1, <1>2 DEF SetupInv, ContextOnce, AddContext, ghostVars
<1>6. InDatabase' /\ EndsWhole'
  <2>1. Recorded => Recorded'
    BY <1>1, <1>2 DEF Recorded, AddContext, ghostVars
  <2>2. InDatabase'
    BY <2>1 DEF SetupInv, InDatabase, InFileState, AddContext, ghostVars
  <2>3. EndsWhole'
    BY <1>1, <1>2 DEF SetupInv, EndsWhole, AddContext, client, ghostVars
  <2>4. QED
    BY <2>2, <2>3
<1>7. QED
  BY <1>3, <1>4, <1>5, <1>6 DEF SetupInv

(* The invariant of the wizard: where it is, what the file and memory have of  *)
(* the answers, and what of this setup is in the client's files (init_client.py *)
(* 965-1059). *)
THEOREM SetupInvariant == Spec => []SetupInv
<1>1. Init => SetupInv
  BY StepAssumption, FileAssumption, EmptyProgress
  DEF Init, SetupInv, TypeOK, Phases, OnFile, ProbeStory, Written, InDatabase, Recorded, Whole,
      ProgressKept, ContextOnce, EndsWhole, InFileState, Progress, Step, Answer
<1>2. SetupInv /\ [Next]_vars => SetupInv'
  <2>1. CASE Next
    BY <2>1, StartKeeps, AnswerStepKeeps, AnswerEnvironmentKeeps, SaveKeeps, FilesKeep,
      EndKeeps, AddContextKeeps DEF Next
  <2>2. CASE UNCHANGED vars
    BY <2>2 DEF SetupInv, TypeOK, Phases, OnFile, ProbeStory, Written, InDatabase, Recorded, Whole,
      ProgressKept, ContextOnce, EndsWhole, InFileState, client, vars,
      fileVars, ghostVars
  <2>3. QED
    BY <2>1, <2>2
<1>3. QED
  BY <1>1, <1>2, PTL DEF Spec

(* Types, for any clients, steps and answers. *)
THEOREM SetupTypes == Spec => []TypeOK
<1>1. SetupInv => TypeOK
  BY DEF SetupInv
<1>2. QED
  BY <1>1, SetupInvariant, PTL

(* An interrupted setup can be resumed with every answer that was saved        *)
(* (init_client.py:9-10), however often the wizard is stopped, unless it was   *)
(* in the middle of writing the state file. *)
THEOREM AnswersSurvive == Spec => []ProgressKept
<1>1. SetupInv => ProgressKept
  BY DEF SetupInv
<1>2. QED
  BY <1>1, SetupInvariant, PTL

(* The environment context of a setup is written twice only after a stop       *)
(* between the database and the state file (context_builder.py:175-182,       *)
(* init_client.py:1005-1012). *)
THEOREM ContextWrittenOnce == Spec => []ContextOnce
<1>1. SetupInv => ContextOnce
  BY DEF SetupInv
<1>2. QED
  BY <1>1, SetupInvariant, PTL

(* After "Setup complete!" every answer is in the client's file, of the         *)
(* environment its compliance, or in the database, and nothing is left to       *)
(* resume; and only a tested and resumed setup fails at the health report       *)
(* (init_client.py:559-599, 689-692, 1005-1050). *)
THEOREM SetupEndsWhole == Spec => []EndsWhole
<1>1. SetupInv => EndsWhole
  BY DEF SetupInv
<1>2. QED
  BY <1>1, SetupInvariant, PTL

=============================================================================
