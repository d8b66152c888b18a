------------------------ MODULE WebhookManagerProofs ------------------------
(***************************************************************************)
(* Theorems about WebhookManager, for any number of registrations, events  *)
(* and settings, and any limits.                                           *)
(***************************************************************************)
EXTENDS WebhookManager, TLAPS

(* A dict of registrations that is saved. *)
LEMMA SaveType ==
  ASSUME TypeOK, NEW r \in Registry, Save(r)
  PROVE  /\ reg' = r
         /\ LoopFree
         /\ disk' = disk
         /\ tmp' \in {tmp, Empty}
         /\ pen' \in [Writer -> {"none", "tmp", "disk", "gone", "closed"}]
         /\ Editing' = Editing
         /\ behind' \in BOOLEAN /\ faulted' \in BOOLEAN
         /\ behind' => faulted'
         /\ faulted => faulted'
         /\ LoopFree' => behind'
         /\ ~LoopFree' => /\ pen'["api"] = "tmp" /\ tmp' = Empty
                          /\ behind' = Editing
<1>1. /\ pen \in [Writer -> {"none", "tmp", "disk", "gone", "closed"}]
      /\ Writer = {"api", "dashboard"} /\ faulted \in BOOLEAN /\ Editing \in BOOLEAN
  BY DEF TypeOK, Writer, Editing
<1>2. CASE Open("api") /\ behind' = Editing /\ faulted' = (faulted \/ Editing)
  BY <1>1, <1>2 DEF Save, Open, Editing, LoopFree
<1>3. CASE UNCHANGED fileVars /\ behind' = TRUE /\ faulted' = TRUE
  BY <1>1, <1>3 DEF Save, fileVars, Editing, LoopFree
<1>4. QED
  BY <1>2, <1>3 DEF Save

LEMMA CountedType ==
  ASSUME NEW r \in Registration, NEW success \in BOOLEAN
  PROVE  Counted(r, success) \in Registration
<1> DEFINE f == IF success THEN 0 ELSE r.failures + 1
           a == IF success THEN r.active ELSE r.failures + 1 < MaxFailures
<1>1. f \in Nat
  BY DEF Registration
<1>2. a \in BOOLEAN
  <2>1. r.active \in BOOLEAN
    BY DEF Registration
  <2>2. CASE success
    BY <2>1, <2>2
  <2>3. CASE ~success
    BY <2>3
  <2>4. QED
    BY <2>2, <2>3
<1>3. r.settings \in Settings
  BY DEF Registration
<1>4. QED
  BY <1>1, <1>2, <1>3 DEF Counted, Registration

(* The inductive form of ActiveForCause: as long as no write or read has     *)
(* failed, the file is up to date, the counter in a registration is the true *)
(* number of failures in a row, and a registration that fails too often has  *)
(* been switched off. *)
FreshHooks == \A h \in Hook : h \notin used => streak[h] = 0 /\ due[h] = "active"

Honest ==
  /\ behind => faulted
  /\ FreshHooks
  /\ ~faulted => \A h \in Hook : reg[h] # Absent => reg[h].failures = streak[h]

(* What makes Durable inductive: as long as the dashboard has not come between, *)
(* _save has the temporary file for itself, empty or with what is in memory.    *)
Undisturbed == ~behind \/ "edit" \notin trouble

Owned ==
  \/ pen["api"] = "tmp" /\ tmp = Empty
  \/ pen["api"] = "closed" /\ tmp = reg

SaveInv ==
  /\ Undisturbed /\ ~LoopFree => ~Editing /\ Owned
  /\ "edit" \notin trouble => page = Absent /\ ~Editing
  /\ ~behind => pen["dashboard"] # "disk"

WebhookInv == TypeOK /\ Durable /\ SaveInv /\ Honest /\ ActiveForCause

(* A registration agrees with the n failures in a row and what is due. *)
Agrees(r, n, d) ==
  /\ r.failures = n
  /\ d = "active" => r.active
  /\ d = "failing" /\ n >= MaxFailures => ~r.active

(* Counting an outcome keeps registration and properties in agreement. *)
LEMMA AgreesAfterCount ==
  ASSUME NEW r \in Registration, NEW n \in Nat, NEW d \in {"active", "off", "failing"},
         NEW success \in BOOLEAN, Agrees(r, n, d)
  PROVE  Agrees(Counted(r, success),
              IF success THEN 0 ELSE n + 1,
              IF ~success /\ n + 1 >= MaxFailures THEN "failing" ELSE d)
<1>1. CASE success
  BY <1>1, BoundAssumption DEF Agrees, Counted
<1>2. CASE ~success
  <2>1. r.failures = n
    BY DEF Agrees
  <2>2. Counted(r, success).active <=> ~(n + 1 >= MaxFailures)
    <3>1. Counted(r, success).active = (n + 1 < MaxFailures)
      BY <1>2, <2>1 DEF Counted
    <3>2. (n + 1 < MaxFailures) <=> ~(n + 1 >= MaxFailures)
      BY BoundAssumption
    <3>3. QED
      BY <3>1, <3>2
  <2>3. Counted(r, success).failures = n + 1
    BY <1>2, <2>1 DEF Counted
  <2>4. CASE n + 1 >= MaxFailures
    BY <1>2, <2>2, <2>3, <2>4 DEF Agrees
  <2>5. CASE ~(n + 1 >= MaxFailures)
    BY <1>2, <2>2, <2>3, <2>5 DEF Agrees
  <2>6. QED
    BY <2>4, <2>5
<1>3. QED
  BY <1>1, <1>2

(* The part of TypeOK that is about files, and the rest of it. *)
FilesOK ==
  /\ reg \in Registry /\ disk \in Registry \cup {Empty, Torn}
  /\ tmp \in Registry \cup {Absent, Empty, Torn}
  /\ pen \in [Writer -> {"none", "tmp", "disk", "gone", "closed"}]
  /\ page \in Registry \cup {Absent}
  /\ Editing => page # Absent
  /\ used \subseteq Hook
  /\ \A f \in {reg, disk, tmp, page} \cap Registry, h \in Hook : f[h] # Absent => h \in used

RestOK ==
  /\ trouble \in Troubles
  /\ edits \in 0..MaxEdits
  /\ emitted \subseteq Event
  /\ job \in [Delivery -> Settings \cup {Absent}]
  /\ \A d \in Delivery : job[d] # Absent => d[2] \in emitted
  /\ attempt \in [Delivery -> 0..MaxAttempts]
  /\ waiting \in [Delivery -> BOOLEAN]
  /\ \A d \in Delivery : waiting[d] => job[d] # Absent /\ attempt[d] < MaxAttempts
  /\ behind \in BOOLEAN /\ faulted \in BOOLEAN
  /\ streak \in [Hook -> Nat]
  /\ due \in [Hook -> {"active", "off", "failing"}]

LEMMA TypeParts ==
  /\ TypeOK <=> FilesOK /\ RestOK
  /\ TypeOK' <=> FilesOK' /\ RestOK'
  BY DEF TypeOK, FilesOK, RestOK, Editing

(* No text is both registrations and none. *)
LEMMA TextsApart ==
  /\ \A r \in Registry : r \notin {Absent, Empty, Torn}
  /\ Absent \notin {Empty, Torn} /\ Empty # Torn
  BY NoHookAssumption DEF Registry

LEMMA NobodyType == Nobody \in Registry /\ \A h \in Hook : Nobody[h] = Absent
  BY DEF Nobody, Registry

(* What is read from webhooks.json. *)
LEMMA LoadedType ==
  ASSUME NEW text \in Registry \cup {Empty, Torn}
  PROVE  /\ Loaded(text) \in Registry
         /\ text \notin {Empty, Torn} => Loaded(text) = text
         /\ text \in {Empty, Torn} => Loaded(text) = Nobody
  BY TextsApart, NobodyType DEF Loaded

(* A step that only moves texts between the files. *)
LEMMA FileStep ==
  ASSUME FilesOK, UNCHANGED <<reg, used>>, page' \in {page, Absent},
         disk' \in {disk, tmp, reg, page, Torn} \ {Absent},
         tmp' \in {tmp, reg, page, Absent, Empty, Torn},
         pen' \in [Writer -> {"none", "tmp", "disk", "gone", "closed"}],
         Editing' => page' # Absent
  PROVE  FilesOK'
<1>1. disk' \in Registry \cup {Empty, Torn} /\ tmp' \in Registry \cup {Absent, Empty, Torn}
  BY TextsApart DEF FilesOK
<1>2. page' \in Registry \cup {Absent}
  BY DEF FilesOK
<1>3. {reg', disk', tmp', page'} \cap Registry \subseteq {reg, disk, tmp, page} \cap Registry
  BY TextsApart
<1>4. QED
  BY <1>1, <1>2, <1>3 DEF FilesOK

(* A step of a write moves texts between the files, and its own pen. *)
LEMMA WriteStep ==
  ASSUME FilesOK, NEW w \in Writer, NEW text \in {reg, page}, text # Absent, Write(w, text)
  PROVE  /\ disk' \in {disk, text, Torn} \ {Absent} /\ tmp' \in {tmp, text, Torn}
         /\ pen' = [pen EXCEPT ![w] = "closed"]
         /\ pen' \in [Writer -> {"none", "tmp", "disk", "gone", "closed"}]
         /\ pen[w] # "disk" => disk' = disk
  BY TextsApart DEF Write, Over, FilesOK

LEMMA ReplaceStep ==
  ASSUME FilesOK, NEW w \in Writer, Replace(w)
  PROVE  /\ disk' \in {tmp} \ {Absent} /\ tmp' = Absent
         /\ pen'[w] = "none"
         /\ \A v \in Writer : v # w => (pen[v] = "none" <=> pen'[v] = "none")
         /\ pen' \in [Writer -> {"none", "tmp", "disk", "gone", "closed"}]
<1>1. \A v \in Writer : /\ Moved(pen[v]) \in {"none", "tmp", "disk", "gone", "closed"}
                        /\ pen[v] = "none" <=> Moved(pen[v]) = "none"
  BY DEF Moved, FilesOK
<1>2. QED
  BY <1>1 DEF Replace, FilesOK

LEMMA DropStep ==
  ASSUME FilesOK, NEW w \in Writer, Drop(w)
  PROVE  /\ disk' \in {disk, Torn} \ {Absent} /\ tmp' \in {tmp, Absent, Torn}
         /\ pen' = [pen EXCEPT ![w] = "none"]
         /\ pen' \in [Writer -> {"none", "tmp", "disk", "gone", "closed"}]
         /\ pen[w] # "disk" => disk' = disk
  BY TextsApart DEF Drop, FilesOK

(* What the deliveries' counts mean is left alone by a step that changes no     *)
(* registration. *)
LEMMA CountsStay ==
  ASSUME Honest, ActiveForCause, UNCHANGED <<reg, used, streak, due>>,
         ~faulted' => ~faulted, ~faulted' => ~behind'
  PROVE  Honest' /\ ActiveForCause'
<1>1. behind' => faulted'
  OBVIOUS
<1>2. FreshHooks'
  BY DEF Honest, FreshHooks
<1>3. ~faulted' => \A h \in Hook : reg'[h] # Absent => reg'[h].failures = streak'[h]
  BY DEF Honest
<1>4. ActiveForCause'
  BY DEF ActiveForCause
<1>5. QED
  BY <1>1, <1>2, <1>3, <1>4 DEF Honest

LEMMA WebhookInit == Init => WebhookInv
<1> SUFFICES ASSUME Init
             PROVE  WebhookInv
  OBVIOUS
<1>1. TypeOK
  <2>1. \A d \in Delivery : job[d] = Absent /\ attempt[d] = 0 /\ waiting[d] = FALSE
    BY DEF Init
  <2>2. /\ job \in [Delivery -> Settings \cup {Absent}]
        /\ attempt \in [Delivery -> 0..MaxAttempts]
        /\ waiting \in [Delivery -> BOOLEAN]
    BY BoundAssumption DEF Init
  <2>3. /\ reg = Nobody /\ disk = Nobody /\ tmp = Absent /\ page = Absent
        /\ pen \in [Writer -> {"none", "tmp", "disk", "gone", "closed"}]
        /\ ~Editing
    BY DEF Init, Editing, Writer
  <2>4. /\ streak \in [Hook -> Nat] /\ due \in [Hook -> {"active", "off", "failing"}]
        /\ edits \in 0..MaxEdits
    BY BoundAssumption DEF Init
  <2>5. /\ trouble \in Troubles
        /\ used = {} /\ emitted = {} /\ behind = FALSE /\ faulted = FALSE
    BY DEF Init
  <2> HIDE DEF Init
  <2>6. QED
    BY <2>1, <2>2, <2>3, <2>4, <2>5, NobodyType, TextsApart DEF TypeOK
<1>2. Durable /\ Honest /\ ActiveForCause
  BY NobodyType DEF Init, Durable, Honest, FreshHooks, ActiveForCause
<1>4. SaveInv
  BY DEF Init, SaveInv, LoopFree, Editing, Writer
<1>3. QED
  BY <1>1, <1>2, <1>4 DEF WebhookInv

(* A step that saves a change to the registration of h. *)
LEMMA SavedStep ==
  ASSUME WebhookInv, NEW h \in Hook, NEW r \in Registration \cup {Absent},
         Save([reg EXCEPT ![h] = r]),
         h \in used', used \subseteq used', used' \subseteq Hook,
         emitted' = emitted, UNCHANGED pageVars,
         job' \in [Delivery -> Settings \cup {Absent}],
         attempt' \in [Delivery -> 0..MaxAttempts],
         waiting' \in [Delivery -> BOOLEAN],
         \A d \in Delivery : job'[d] # Absent => d[2] \in emitted',
         \A d \in Delivery : waiting'[d] => job'[d] # Absent /\ attempt'[d] < MaxAttempts,
         NEW n \in Nat, streak' = [streak EXCEPT ![h] = n],
         NEW w \in {"active", "off", "failing"}, due' = [due EXCEPT ![h] = w],
         ~faulted /\ r # Absent => Agrees(r, n, w)
  PROVE  WebhookInv'
<1> DEFINE r2 == [reg EXCEPT ![h] = r]
<1>1. r2 \in Registry
  BY DEF WebhookInv, TypeOK, Registry
<1>2. /\ reg' = r2 /\ LoopFree
      /\ disk' = disk /\ tmp' \in {tmp, Empty}
      /\ pen' \in [Writer -> {"none", "tmp", "disk", "gone", "closed"}]
      /\ Editing' = Editing
      /\ behind' \in BOOLEAN /\ faulted' \in BOOLEAN
      /\ behind' => faulted'
      /\ faulted => faulted'
      /\ LoopFree' => behind'
      /\ ~LoopFree' => pen'["api"] = "tmp" /\ tmp' = Empty /\ behind' = Editing
  BY <1>1, SaveType DEF WebhookInv
<1>u. UNCHANGED <<trouble, page, edits>>
  BY DEF pageVars
<1>3. TypeOK'
  <2>1. FilesOK /\ RestOK
    BY TypeParts DEF WebhookInv
  <2>2. \A k \in Hook : reg'[k] # Absent => k \in used'
    BY <1>1, <1>2, <2>1 DEF FilesOK, Registry
  <2>3. {disk', tmp', page'} \cap Registry \subseteq {disk, tmp, page} \cap Registry
    BY <1>2, <1>u, TextsApart
  <2>4. \A f \in {reg', disk', tmp', page'} \cap Registry, k \in Hook :
          f[k] # Absent => k \in used'
    BY <2>1, <2>2, <2>3 DEF FilesOK
  <2>5. FilesOK'
    BY <1>1, <1>2, <1>u, <2>1, <2>4 DEF FilesOK
  <2>6. streak' \in [Hook -> Nat] /\ due' \in [Hook -> {"active", "off", "failing"}]
    BY <2>1 DEF RestOK
  <2>7. RestOK'
    BY <1>2, <1>u, <2>1, <2>6 DEF RestOK
  <2>8. QED
    BY <2>5, <2>7, TypeParts
<1>4. Durable'
  BY <1>2, <1>u DEF Durable, WebhookInv
<1>s. SaveInv'
  <2>1. ~behind' => ~Editing
    BY <1>2
  <2>2. ~behind' => pen'["dashboard"] # "disk"
    BY <1>2, <2>1 DEF Editing
  <2>3. QED
    BY <1>2, <1>u, <2>1, <2>2 DEF SaveInv, WebhookInv, Undisturbed, Owned
<1>5. FreshHooks'
  BY DEF WebhookInv, Honest, FreshHooks, TypeOK
<1>6. behind' => faulted'
  BY <1>2
<1>7. ~faulted' => ~faulted
  BY <1>2
<1>8. ASSUME ~faulted', NEW k \in Hook, reg'[k] # Absent
      PROVE  Agrees(reg'[k], streak'[k], due'[k])
  <2>1. CASE k = h
    BY <1>2, <1>7, <1>8, <2>1 DEF WebhookInv, TypeOK, Registry
  <2>2. CASE k # h
    BY <1>2, <1>7, <1>8, <2>2 DEF WebhookInv, Honest, ActiveForCause, Agrees, TypeOK, Registry
  <2>3. QED
    BY <2>1, <2>2
<1>9. QED
  BY <1>3, <1>4, <1>s, <1>5, <1>6, <1>8 DEF WebhookInv, Honest, ActiveForCause, Agrees

(* A step that touches no registration and no file. *)
LEMMA IdleStep ==
  ASSUME WebhookInv, UNCHANGED <<reg, fileVars, used, pageVars, ghostVars>>,
         emitted' \subseteq Event,
         job' \in [Delivery -> Settings \cup {Absent}],
         attempt' \in [Delivery -> 0..MaxAttempts],
         waiting' \in [Delivery -> BOOLEAN],
         \A d \in Delivery : job'[d] # Absent => d[2] \in emitted',
         \A d \in Delivery : waiting'[d] => job'[d] # Absent /\ attempt'[d] < MaxAttempts
  PROVE  WebhookInv'
<1>1. UNCHANGED <<reg, disk, tmp, pen, used, trouble, page, edits, behind, faulted, streak, due>>
  BY DEF fileVars, pageVars, ghostVars
<1>2. TypeOK'
  <2>1. FilesOK' /\ RestOK'
    BY <1>1, TypeParts DEF WebhookInv, FilesOK, RestOK, Editing
  <2>2. QED
    BY <2>1, TypeParts
<1>3. QED
  BY <1>1, <1>2 DEF WebhookInv, Durable, SaveInv, Undisturbed, Owned, LoopFree, Editing,
                    Honest, FreshHooks, ActiveForCause

LEMMA StopType ==
  ASSUME TypeOK, NEW d \in Delivery, Sending(d), Stop(d)
  PROVE  /\ job' \in [Delivery -> Settings \cup {Absent}]
         /\ attempt' \in [Delivery -> 0..MaxAttempts]
         /\ waiting' \in [Delivery -> BOOLEAN]
         /\ \A c \in Delivery : job'[c] # Absent => c[2] \in emitted
         /\ \A c \in Delivery : waiting'[c] => job'[c] # Absent /\ attempt'[c] < MaxAttempts
  BY BoundAssumption DEF TypeOK, Stop, Sending

(* The outcome of a delivery counts on the registration as it is when the  *)
(* delivery ends. *)
LEMMA FinishStep ==
  ASSUME WebhookInv, NEW d \in Delivery, NEW success \in BOOLEAN,
         Sending(d), Finish(d, success)
  PROVE  WebhookInv'
<1> DEFINE h == d[1]
<1>1. h \in Hook
  BY DEF Delivery
<1>2. /\ job' \in [Delivery -> Settings \cup {Absent}]
      /\ attempt' \in [Delivery -> 0..MaxAttempts]
      /\ waiting' \in [Delivery -> BOOLEAN]
      /\ \A c \in Delivery : job'[c] # Absent => c[2] \in emitted
      /\ \A c \in Delivery : waiting'[c] => job'[c] # Absent /\ attempt'[c] < MaxAttempts
  BY StopType DEF Finish, WebhookInv
<1>3. CASE reg[h] = Absent
  BY <1>2, <1>3, IdleStep DEF Finish, WebhookInv, TypeOK
<1>4. CASE reg[h] # Absent
  <2> DEFINE r == Counted(reg[h], success)
             n == IF success THEN 0 ELSE streak[h] + 1
             w == IF ~success /\ streak[h] + 1 >= MaxFailures THEN "failing" ELSE due[h]
  <2>1. reg[h] \in Registration /\ streak[h] \in Nat /\ due[h] \in {"active", "off", "failing"}
    BY <1>1, <1>4 DEF WebhookInv, TypeOK, Registry
  <2>2. r \in Registration /\ n \in Nat /\ w \in {"active", "off", "failing"} /\ h \in used
    BY <1>1, <1>4, <2>1, CountedType DEF WebhookInv, TypeOK
  <2>3. /\ Save([reg EXCEPT ![h] = r])
        /\ streak' = [streak EXCEPT ![h] = n]
        /\ due' = [due EXCEPT ![h] = w]
        /\ UNCHANGED <<used, emitted, pageVars>>
    BY <1>4 DEF Finish, Note
  <2>4. ASSUME ~faulted
        PROVE  Agrees(r, n, w)
    <3>1. Agrees(reg[h], streak[h], due[h])
      BY <1>1, <1>4, <2>4 DEF WebhookInv, Honest, ActiveForCause, Agrees
    <3>2. QED
      BY <2>1, <3>1, AgreesAfterCount
  <2>5. used' = used /\ used \subseteq Hook /\ emitted' = emitted /\ UNCHANGED pageVars
    BY <2>3 DEF WebhookInv, TypeOK
  <2> HIDE DEF h, r, n, w
  <2>6. QED
    BY <1>1, <1>2, <2>2, <2>3, <2>4, <2>5, SavedStep
<1>5. QED
  BY <1>3, <1>4

(* _save goes on, or fails. *)
LEMMA SavingStep ==
  ASSUME WebhookInv, Saving
  PROVE  WebhookInv'
<1>1. FilesOK /\ RestOK /\ reg # Absent /\ "api" \in Writer /\ "dashboard" \in Writer
  BY TypeParts, TextsApart DEF WebhookInv, FilesOK, Writer
<1>2. UNCHANGED <<reg, used, emitted, job, attempt, waiting, trouble, page, edits, streak, due>>
  BY DEF Saving, SaveWrites, SaveReplaces, SaveFails, deliveryVars, pageVars, ghostVars
<1>b. (behind' = behind /\ faulted' = faulted) \/ (behind' = TRUE /\ faulted' = TRUE)
  BY DEF Saving, SaveWrites, SaveReplaces, SaveFails, ghostVars
<1>c. behind => faulted
  BY DEF WebhookInv, Honest
<1>3. behind' \in {behind, TRUE} /\ faulted' \in {faulted, TRUE}
  BY <1>b
<1>d. ~faulted' => ~faulted
  BY <1>b
<1>e. ~faulted' => ~behind'
  BY <1>b, <1>c
<1>4. RestOK'
  BY <1>1, <1>2, <1>3 DEF RestOK
<1>5. Honest' /\ ActiveForCause'
  <2>1. UNCHANGED <<reg, used, streak, due>>
    BY <1>2
  <2>2. Honest /\ ActiveForCause
    BY DEF WebhookInv
  <2>3. QED
    BY <1>d, <1>e, <2>1, <2>2, CountsStay
<1>6. CASE SaveWrites
  <2>1. Write("api", reg) /\ UNCHANGED <<behind, faulted>>
    BY <1>6 DEF SaveWrites, ghostVars
  <2>2. /\ disk' \in {disk, reg, Torn} \ {Absent} /\ tmp' \in {tmp, reg, Torn}
        /\ pen' = [pen EXCEPT !["api"] = "closed"]
        /\ pen' \in [Writer -> {"none", "tmp", "disk", "gone", "closed"}]
        /\ pen["api"] # "disk" => disk' = disk
    BY <1>1, <2>1, WriteStep
  <2>3. ~LoopFree /\ ~LoopFree' /\ Editing' = Editing
    BY <1>1, <2>1, <2>2 DEF Write, LoopFree, Editing, FilesOK
  <2>4. FilesOK'
    BY <1>1, <1>2, <2>2, <2>3, FileStep DEF FilesOK
  <2>5. Undisturbed' => Undisturbed
    BY <1>2, <2>1 DEF Undisturbed
  <2>6. Undisturbed => pen["api"] = "tmp" /\ tmp' = reg /\ disk' = disk
    <3>1. Undisturbed => pen["api"] = "tmp" /\ tmp = Empty
      BY <2>1, <2>3 DEF WebhookInv, SaveInv, Owned, Write
    <3>2. QED
      BY <2>1, <2>2, <3>1 DEF Write, Over
  <2>7. SaveInv'
    <3>1. pen'["dashboard"] = pen["dashboard"] /\ pen'["api"] = "closed"
      BY <1>1, <2>2 DEF FilesOK
    <3>2. QED
      BY <1>2, <2>1, <2>3, <2>5, <2>6, <3>1 DEF WebhookInv, SaveInv, Owned
  <2>8. Durable'
    BY <1>2, <2>3, <2>6 DEF WebhookInv, Durable, Undisturbed
  <2>9. QED
    BY <1>4, <1>5, <2>4, <2>7, <2>8, TypeParts DEF WebhookInv
<1>7. CASE SaveReplaces
  <2>1. Replace("api") /\ UNCHANGED <<behind, faulted>>
    BY <1>7 DEF SaveReplaces, ghostVars
  <2>2. /\ disk' \in {tmp} \ {Absent} /\ tmp' = Absent /\ pen'["api"] = "none"
        /\ pen["dashboard"] = "none" <=> pen'["dashboard"] = "none"
        /\ pen' \in [Writer -> {"none", "tmp", "disk", "gone", "closed"}]
    BY <1>1, <2>1, ReplaceStep DEF Writer
  <2>3. ~LoopFree /\ LoopFree' /\ Editing' = Editing
    BY <2>1, <2>2 DEF Replace, LoopFree, Editing
  <2>4. FilesOK'
    BY <1>1, <1>2, <2>2, <2>3, FileStep DEF FilesOK
  <2>5. Undisturbed => disk' = reg
    BY <2>1, <2>2, <2>3 DEF WebhookInv, SaveInv, Owned, Replace
  <2>6. SaveInv'
    BY <1>2, <2>1, <2>2, <2>3 DEF WebhookInv, SaveInv, Undisturbed, Editing
  <2>7. Durable'
    BY <1>1, <1>2, <2>1, <2>5 DEF Durable, Undisturbed, FilesOK
  <2>8. QED
    BY <1>4, <1>5, <2>4, <2>6, <2>7, TypeParts DEF WebhookInv
<1>8. CASE SaveFails
  <2>1. Drop("api") /\ ~LoopFree /\ behind' = TRUE
    BY <1>8 DEF SaveFails
  <2>2. /\ disk' \in {disk, Torn} \ {Absent} /\ tmp' \in {tmp, Absent, Torn}
        /\ pen' = [pen EXCEPT !["api"] = "none"]
        /\ pen' \in [Writer -> {"none", "tmp", "disk", "gone", "closed"}]
        /\ pen["api"] # "disk" => disk' = disk
    BY <1>1, <2>1, DropStep
  <2>3. LoopFree' /\ Editing' = Editing
    BY <1>1, <2>2 DEF LoopFree, Editing, FilesOK
  <2>4. FilesOK'
    BY <1>1, <1>2, <2>2, <2>3, FileStep DEF FilesOK
  <2>5. "edit" \notin trouble => disk' = disk
    BY <2>1, <2>2 DEF WebhookInv, SaveInv, Undisturbed, Owned
  <2>6. SaveInv' /\ Durable'
    BY <1>2, <2>1, <2>3, <2>5 DEF WebhookInv, SaveInv, Durable
  <2>7. QED
    BY <1>4, <1>5, <2>4, <2>6, TypeParts DEF WebhookInv
<1>9. QED
  BY <1>6, <1>7, <1>8 DEF Saving

(* The process is started anew, whatever it was doing. *)
LEMMA RestartStep ==
  ASSUME WebhookInv, Restart
  PROVE  WebhookInv'
<1>1. FilesOK /\ RestOK /\ "api" \in Writer /\ "dashboard" \in Writer
  BY TypeParts DEF WebhookInv, Writer
<1>2. UNCHANGED <<used, emitted, trouble, page, edits, streak, due>> /\ Drop("api")
  BY DEF Restart, pageVars
<1>3. /\ disk' \in {disk, Torn} \ {Absent} /\ tmp' \in {tmp, Absent, Torn}
      /\ pen' = [pen EXCEPT !["api"] = "none"]
      /\ pen' \in [Writer -> {"none", "tmp", "disk", "gone", "closed"}]
      /\ pen["api"] # "disk" => disk' = disk
  BY <1>1, <1>2, DropStep
<1>4. LoopFree' /\ Editing' = Editing
  BY <1>1, <1>3 DEF LoopFree, Editing, FilesOK
<1>5. disk' \in Registry \cup {Empty, Torn}
  BY <1>1, <1>3 DEF FilesOK
<1>6. /\ reg' \in {Nobody, disk'} /\ reg' \in Registry /\ behind' \in BOOLEAN
      /\ ~behind' => reg' = disk' /\ disk' \in Registry /\ ~Editing
  <2>1. CASE reg' = Loaded(disk') /\ behind' = (Editing \/ disk' \in {Empty, Torn})
    BY <1>5, <2>1, LoadedType
  <2>2. CASE reg' = Nobody /\ behind' = TRUE
    BY <2>2, NobodyType
  <2>3. QED
    BY <2>1, <2>2 DEF Restart
<1>7. faulted' \in BOOLEAN
  BY <1>1, <1>6 DEF Restart, RestOK
<1>b. ~faulted' => ~faulted
  BY DEF Restart
<1>c. ~faulted' => ~behind'
  BY DEF Restart
<1>d. ~faulted' => LoopFree
  BY DEF Restart
<1>8. RestOK'
  <2>1. /\ job' \in [Delivery -> Settings \cup {Absent}]
        /\ attempt' \in [Delivery -> 0..MaxAttempts]
        /\ waiting' \in [Delivery -> BOOLEAN]
        /\ \A d \in Delivery : job'[d] = Absent /\ ~waiting'[d]
    BY BoundAssumption DEF Restart
  <2>2. behind' \in BOOLEAN /\ faulted' \in BOOLEAN
    BY <1>6, <1>7
  <2>3. \A d \in Delivery : /\ job'[d] # Absent => d[2] \in emitted'
                            /\ waiting'[d] => job'[d] # Absent /\ attempt'[d] < MaxAttempts
    BY <2>1
  <2>4. QED
    BY <1>1, <1>2, <2>1, <2>2, <2>3 DEF RestOK
<1>9. FilesOK'
  <2>1. {reg', disk', tmp', page'} \cap Registry
          \subseteq ({disk, tmp, page} \cap Registry) \cup {Nobody}
    BY <1>2, <1>3, <1>6, TextsApart
  <2>2. \A f \in {reg', disk', tmp', page'} \cap Registry, h \in Hook :
          f[h] # Absent => h \in used'
    BY <1>1, <1>2, <2>1, NobodyType DEF FilesOK
  <2>3. tmp' \in Registry \cup {Absent, Empty, Torn}
    BY <1>1, <1>3 DEF FilesOK
  <2>4. QED
    BY <1>1, <1>2, <1>3, <1>4, <1>5, <1>6, <2>2, <2>3 DEF FilesOK
<1>10. "edit" \notin trouble => disk' = disk
  BY <1>3 DEF WebhookInv, SaveInv, Undisturbed, Owned, LoopFree
<1>11. Durable' /\ SaveInv'
  BY <1>2, <1>4, <1>6, <1>10 DEF WebhookInv, Durable, SaveInv, Editing
<1>12. ~faulted' => reg' = reg
  <2>1. ASSUME ~faulted'
        PROVE  reg' = reg
    <3>1. LoopFree /\ ~behind'
      BY <1>c, <1>d, <2>1
    <3>4. behind => faulted
      BY DEF WebhookInv, Honest
    <3>5. ~faulted
      BY <1>b, <2>1
    <3>2. disk' = disk
      BY <1>3, <3>1 DEF LoopFree
    <3>3. QED
      BY <1>6, <3>1, <3>2, <3>4, <3>5 DEF WebhookInv, Durable
  <2>2. QED
    BY <2>1
<1>13. Honest' /\ ActiveForCause'
  <2>1. FreshHooks'
    BY <1>2 DEF WebhookInv, Honest, FreshHooks
  <2>2. ~faulted' => ~faulted
    BY <1>b
  <2>3. ~faulted' => \A h \in Hook : reg'[h] # Absent => reg'[h].failures = streak'[h]
    BY <1>2, <1>12, <2>2 DEF WebhookInv, Honest
  <2>4. ActiveForCause'
    BY <1>2, <1>12, <2>2 DEF WebhookInv, ActiveForCause
  <2>5. behind' => faulted'
    BY <1>c
  <2>6. QED
    BY <2>1, <2>3, <2>4, <2>5 DEF Honest
<1>14. QED
  BY <1>8, <1>9, <1>11, <1>13, TypeParts DEF WebhookInv

(* The dashboard changes registration h of the page it has read, and begins to *)
(* write it. *)
LEMMA DashboardStep ==
  ASSUME WebhookInv, NEW h \in Hook, NEW r \in Registration \cup {Absent},
         DashboardChanges(h, r), used \subseteq used', used' \subseteq Hook,
         r # Absent => h \in used'
  PROVE  WebhookInv'
<1>1. FilesOK /\ RestOK /\ "api" \in Writer /\ "dashboard" \in Writer
  BY TypeParts DEF WebhookInv, Writer
<1>2. page \in Registry /\ page # Absent
  BY <1>1 DEF FilesOK, DashboardChanges
<1>3. /\ page' \in Registry
      /\ \A k \in Hook : page'[k] # Absent => page[k] # Absent \/ k \in used'
  BY <1>2 DEF DashboardChanges, Registry
<1>4. \A k \in Hook : page'[k] # Absent => k \in used'
  BY <1>1, <1>2, <1>3 DEF FilesOK
<1>5. /\ UNCHANGED <<reg, emitted, job, attempt, waiting, trouble, edits, streak, due, disk>>
      /\ tmp' = Empty /\ pen' = [pen EXCEPT !["dashboard"] = "tmp"]
      /\ behind' = (behind \/ ~LoopFree) /\ faulted' = (faulted \/ ~LoopFree)
  BY DEF DashboardChanges, Open, deliveryVars
<1>6. LoopFree' = LoopFree /\ Editing'
      /\ pen' \in [Writer -> {"none", "tmp", "disk", "gone", "closed"}]
  BY <1>1, <1>5 DEF FilesOK, LoopFree, Editing
<1>7. FilesOK'
  <2>1. \A f \in {reg', disk', tmp', page'} \cap Registry :
          f = page' \/ f \in {reg, disk, tmp, page} \cap Registry
    BY <1>5, TextsApart
  <2>2. \A f \in {reg', disk', tmp', page'} \cap Registry, k \in Hook :
          f[k] # Absent => k \in used'
    BY <1>1, <1>4, <2>1 DEF FilesOK
  <2>3. QED
    BY <1>1, <1>3, <1>5, <1>6, <2>2, TextsApart DEF FilesOK
<1>8. RestOK'
  BY <1>1, <1>5 DEF RestOK, LoopFree
<1>9. "edit" \in trouble
  BY <1>2 DEF WebhookInv, SaveInv
<1>10. Durable' /\ SaveInv'
  <2>1. pen'["dashboard"] = "tmp"
    BY <1>1, <1>5 DEF FilesOK
  <2>2. QED
    BY <1>5, <1>6, <1>9, <2>1 DEF WebhookInv, Durable, SaveInv, Undisturbed
<1>11. FreshHooks' /\ (behind' => faulted')
  BY <1>5 DEF WebhookInv, Honest, FreshHooks
<1>12. Honest' /\ ActiveForCause'
  <2>1. ~faulted' => ~faulted
    BY <1>5
  <2>2. ~faulted' => \A k \in Hook : reg'[k] # Absent => reg'[k].failures = streak'[k]
    BY <1>5, <2>1 DEF WebhookInv, Honest
  <2>3. ActiveForCause'
    BY <1>5, <2>1 DEF WebhookInv, ActiveForCause
  <2>4. QED
    BY <1>11, <2>2, <2>3 DEF Honest
<1>13. QED
  BY <1>7, <1>8, <1>10, <1>12, TypeParts DEF WebhookInv

(* The dashboard reads the file, writes what it has, or gives up. *)
LEMMA PageStep ==
  ASSUME WebhookInv,
         DashboardReads \/ DashboardWrites \/ DashboardReplaces \/ DashboardGivesUp
  PROVE  WebhookInv'
<1>1. FilesOK /\ RestOK /\ "api" \in Writer /\ "dashboard" \in Writer
  BY TypeParts DEF WebhookInv, Writer
<1>2. UNCHANGED <<reg, used, emitted, job, attempt, waiting, trouble, streak, due>>
  BY DEF DashboardReads, DashboardWrites, DashboardReplaces, DashboardGivesUp, deliveryVars,
         pageVars, ghostVars
<1>b. (behind' = behind /\ faulted' = faulted) \/ (behind' = TRUE /\ faulted' = TRUE)
  BY DEF DashboardReads, DashboardWrites, DashboardReplaces, DashboardGivesUp, ghostVars
<1>c. behind => faulted
  BY DEF WebhookInv, Honest
<1>3. behind' \in {behind, TRUE} /\ faulted' \in {faulted, TRUE}
  BY <1>b
<1>d. ~faulted' => ~faulted
  BY <1>b
<1>e. ~faulted' => ~behind'
  BY <1>b, <1>c
<1>4. edits' \in 0..MaxEdits
  BY <1>1, BoundAssumption DEF DashboardReads, DashboardWrites, DashboardReplaces,
                               DashboardGivesUp, pageVars, RestOK
<1>5. RestOK'
  BY <1>1, <1>2, <1>3, <1>4 DEF RestOK
<1>6. Honest' /\ ActiveForCause'
  <2>1. UNCHANGED <<reg, used, streak, due>>
    BY <1>2
  <2>2. Honest /\ ActiveForCause
    BY DEF WebhookInv
  <2>3. QED
    BY <1>d, <1>e, <2>1, <2>2, CountsStay
<1>7. CASE DashboardReads
  <2>1. UNCHANGED <<disk, tmp, pen, behind>> /\ page' \in {Loaded(disk), Nobody}
        /\ "edit" \in trouble /\ page = Absent
    BY <1>7 DEF DashboardReads, fileVars, ghostVars
  <2>2. page' \in Registry /\ page' \in {disk, Nobody}
    BY <1>1, <2>1, LoadedType, NobodyType DEF FilesOK
  <2>3. FilesOK'
    <3>1. \A f \in {reg', disk', tmp', page'} \cap Registry :
            f = Nobody \/ f \in {reg, disk, tmp, page} \cap Registry
      BY <1>2, <2>1, <2>2
    <3>2. \A f \in {reg', disk', tmp', page'} \cap Registry, h \in Hook :
            f[h] # Absent => h \in used'
      BY <1>1, <1>2, <3>1, NobodyType DEF FilesOK
    <3>3. QED
      BY <1>1, <1>2, <2>1, <2>2, <3>2, TextsApart DEF FilesOK, Editing
  <2>4. Durable' /\ SaveInv'
    BY <1>2, <2>1 DEF WebhookInv, Durable, SaveInv, Undisturbed, Owned, LoopFree, Editing
  <2>5. QED
    BY <1>5, <1>6, <2>3, <2>4, TypeParts DEF WebhookInv
<1>8. CASE DashboardWrites
  <2>1. Write("dashboard", page) /\ UNCHANGED <<page, behind>>
    BY <1>8 DEF DashboardWrites, pageVars, ghostVars
  <2>2. Editing /\ page # Absent
    BY <1>1, <2>1 DEF Write, Editing, FilesOK
  <2>3. /\ disk' \in {disk, page, Torn} \ {Absent} /\ tmp' \in {tmp, page, Torn}
        /\ pen' = [pen EXCEPT !["dashboard"] = "closed"]
        /\ pen' \in [Writer -> {"none", "tmp", "disk", "gone", "closed"}]
        /\ pen["dashboard"] # "disk" => disk' = disk
    BY <1>1, <2>1, <2>2, WriteStep
  <2>4. FilesOK'
    BY <1>1, <1>2, <2>1, <2>2, <2>3, FileStep
  <2>5. LoopFree' = LoopFree /\ Editing'
    BY <1>1, <2>3 DEF LoopFree, Editing, FilesOK
  <2>6. "edit" \in trouble
    BY <2>2 DEF WebhookInv, SaveInv
  <2>7. LoopFree /\ ~behind => disk' = disk
    BY <2>3 DEF WebhookInv, SaveInv
  <2>8. Durable' /\ SaveInv'
    <3>1. pen'["dashboard"] = "closed"
      BY <1>1, <2>3 DEF FilesOK
    <3>2. QED
      BY <1>2, <2>1, <2>2, <2>5, <2>6, <2>7, <3>1 DEF WebhookInv, Durable, SaveInv, Undisturbed
  <2>9. QED
    BY <1>5, <1>6, <2>4, <2>8, TypeParts DEF WebhookInv
<1>9. CASE DashboardReplaces
  <2>1. Replace("dashboard") /\ page' = Absent /\ behind' = TRUE
    BY <1>9 DEF DashboardReplaces
  <2>2. /\ disk' \in {tmp} \ {Absent} /\ tmp' = Absent /\ pen'["dashboard"] = "none"
        /\ pen["api"] = "none" <=> pen'["api"] = "none"
        /\ pen' \in [Writer -> {"none", "tmp", "disk", "gone", "closed"}]
    BY <1>1, <2>1, ReplaceStep DEF Writer
  <2>3. Editing /\ ~Editing'
    BY <2>1, <2>2 DEF Replace, Editing
  <2>4. FilesOK'
    BY <1>1, <1>2, <2>1, <2>2, <2>3, FileStep
  <2>5. "edit" \in trouble
    BY <2>3 DEF WebhookInv, SaveInv
  <2>6. Durable' /\ SaveInv'
    BY <1>2, <2>1, <2>5 DEF Durable, SaveInv, Undisturbed
  <2>7. QED
    BY <1>5, <1>6, <2>4, <2>6, TypeParts DEF WebhookInv
<1>10. CASE DashboardGivesUp
  <2>1. Drop("dashboard") /\ page # Absent /\ page' = Absent /\ UNCHANGED behind
    BY <1>10 DEF DashboardGivesUp, ghostVars
  <2>2. /\ disk' \in {disk, Torn} \ {Absent} /\ tmp' \in {tmp, Absent, Torn}
        /\ pen' = [pen EXCEPT !["dashboard"] = "none"]
        /\ pen' \in [Writer -> {"none", "tmp", "disk", "gone", "closed"}]
        /\ pen["dashboard"] # "disk" => disk' = disk
    BY <1>1, <2>1, DropStep
  <2>3. LoopFree' = LoopFree /\ ~Editing'
    BY <1>1, <2>2 DEF LoopFree, Editing, FilesOK
  <2>4. FilesOK'
    BY <1>1, <1>2, <2>1, <2>2, <2>3, FileStep
  <2>5. "edit" \in trouble
    BY <2>1 DEF WebhookInv, SaveInv
  <2>6. LoopFree /\ ~behind => disk' = disk
    BY <2>2 DEF WebhookInv, SaveInv
  <2>7. pen'["dashboard"] = "none" /\ pen'["api"] = pen["api"]
    BY <1>1, <2>2 DEF FilesOK
  <2>8. ~LoopFree /\ ~Editing => tmp' = tmp
    BY <2>1 DEF Drop, Other, LoopFree, Editing
  <2>9. SaveInv'
    BY <1>2, <2>1, <2>3, <2>5, <2>7, <2>8 DEF WebhookInv, SaveInv, Undisturbed, Owned
  <2>10. Durable'
    BY <1>2, <2>1, <2>3, <2>5, <2>6 DEF WebhookInv, Durable
  <2>11. QED
    BY <1>5, <1>6, <2>4, <2>9, <2>10, TypeParts DEF WebhookInv
<1>11. QED
  BY <1>7, <1>8, <1>9, <1>10

LEMMA EditStep ==
  ASSUME WebhookInv, Edit
  PROVE  WebhookInv'
<1>1. used \subseteq Hook
  BY DEF WebhookInv, TypeOK
<1>2. ASSUME NEW h \in Hook, DashboardDeletes(h)
      PROVE  WebhookInv'
  BY <1>1, <1>2, DashboardStep DEF DashboardDeletes
<1>3. ASSUME NEW h \in Hook, NEW s \in Settings, DashboardRegisters(h, s)
      PROVE  WebhookInv'
  <2>1. [settings |-> s, active |-> TRUE, failures |-> 0] \in Registration
    BY DEF Registration
  <2>2. QED
    BY <1>1, <1>3, <2>1, DashboardStep DEF DashboardRegisters
<1>4. ASSUME NEW h \in Hook, NEW s \in Settings, NEW active \in BOOLEAN,
             DashboardUpdates(h, s, active)
      PROVE  WebhookInv'
  <2>1. page[h] \in Registration /\ h \in used
    BY <1>4 DEF DashboardUpdates, WebhookInv, TypeOK, Registry
  <2>2. [settings |-> s, active |-> active, failures |-> page[h].failures] \in Registration
    BY <2>1 DEF Registration
  <2>3. QED
    BY <1>1, <1>4, <2>1, <2>2, DashboardStep DEF DashboardUpdates
<1>5. QED
  BY <1>2, <1>3, <1>4, PageStep DEF Edit

LEMMA WebhookStep == WebhookInv /\ [Next]_vars => WebhookInv'
<1> SUFFICES ASSUME WebhookInv, [Next]_vars
             PROVE  WebhookInv'
  OBVIOUS
<1>t. TypeOK
  BY DEF WebhookInv
<1>1. ASSUME NEW h \in Hook, NEW s \in Settings, Register(h, s)
      PROVE  WebhookInv'
  <2> DEFINE r == [settings |-> s, active |-> TRUE, failures |-> 0]
  <2>1. r \in Registration
    BY DEF Registration
  <2>2. streak[h] = 0 /\ due[h] = "active"
    BY <1>1 DEF Register, WebhookInv, Honest, FreshHooks
  <2>3. streak' = [streak EXCEPT ![h] = 0] /\ due' = [due EXCEPT ![h] = "active"]
    BY <1>1, <1>t, <2>2 DEF Register, TypeOK
  <2>4. Agrees(r, 0, "active")
    BY DEF Agrees
  <2>5. QED
    <3>1. /\ Save([reg EXCEPT ![h] = r]) /\ used' = used \cup {h}
          /\ UNCHANGED <<emitted, job, attempt, waiting, pageVars>>
      BY <1>1 DEF Register, deliveryVars
    <3>2. h \in used' /\ used \subseteq used' /\ used' \subseteq Hook
      BY <1>t, <3>1 DEF TypeOK
    <3> HIDE DEF r
    <3>3. QED
      BY <1>t, <2>1, <2>3, <2>4, <3>1, <3>2, SavedStep DEF TypeOK
<1>2. ASSUME NEW h \in Hook, Deregister(h)
      PROVE  WebhookInv'
  <2>1. streak' = [streak EXCEPT ![h] = streak[h]] /\ due' = [due EXCEPT ![h] = due[h]]
    BY <1>2, <1>t DEF Deregister, TypeOK
  <2>2. streak[h] \in Nat /\ due[h] \in {"active", "off", "failing"} /\ h \in used
    BY <1>2, <1>t DEF Deregister, TypeOK, Registry
  <2>3. QED
    BY <1>2, <1>t, <2>1, <2>2, SavedStep DEF Deregister, TypeOK, deliveryVars
<1>3. ASSUME NEW h \in Hook, NEW s \in Settings, NEW word \in {"on", "off", "unsaid"},
             Update(h, s, word)
      PROVE  WebhookInv'
  <2> DEFINE r == [settings |-> s,
                   active   |-> IF word = "unsaid" THEN reg[h].active ELSE word = "on",
                   failures |-> reg[h].failures]
             w == CASE word = "on" -> "active" [] word = "off" -> "off" [] OTHER -> due[h]
  <2>1. reg[h] \in Registration /\ streak[h] \in Nat /\ due[h] \in {"active", "off", "failing"}
        /\ h \in used
    BY <1>3, <1>t DEF Update, TypeOK, Registry
  <2>2. r \in Registration
    BY <2>1 DEF Registration
  <2>3. w \in {"active", "off", "failing"}
    BY <2>1
  <2>4. streak' = [streak EXCEPT ![h] = streak[h]] /\ due' = [due EXCEPT ![h] = w]
    BY <1>3, <1>t DEF Update, TypeOK
  <2>5. ASSUME ~faulted
        PROVE  Agrees(r, streak[h], w)
    <3>1. Agrees(reg[h], streak[h], due[h])
      BY <1>3, <2>5 DEF Update, WebhookInv, Honest, ActiveForCause, Agrees
    <3>2. QED
      BY <3>1 DEF Agrees
  <2>6. Save([reg EXCEPT ![h] = r]) /\ UNCHANGED <<used, emitted, job, attempt, waiting, pageVars>>
    BY <1>3 DEF Update, deliveryVars
  <2> HIDE DEF r, w
  <2>7. QED
    BY <1>t, <2>1, <2>2, <2>3, <2>4, <2>5, <2>6, SavedStep DEF TypeOK
<1>4. ASSUME NEW e \in Event, Emit(e)
      PROVE  WebhookInv'
  <2>1. /\ job' \in [Delivery -> Settings \cup {Absent}]
        /\ attempt' \in [Delivery -> 0..MaxAttempts]
    <3>1. \A h \in Hook : reg[h] # Absent => reg[h].settings \in Settings
      BY <1>t DEF TypeOK, Registry, Registration
    <3>2. QED
      BY <1>4, <1>t, <3>1, BoundAssumption DEF Emit, TypeOK, Delivery
  <2>2. ASSUME NEW d \in Delivery
        PROVE  /\ job'[d] # Absent => d[2] \in emitted'
               /\ waiting'[d] => job'[d] # Absent /\ attempt'[d] < MaxAttempts
    <3>1. d[2] = e => job[d] = Absent /\ ~waiting[d]
      BY <1>4, <1>t DEF Emit, TypeOK
    <3>2. d[2] # e => job'[d] = job[d] /\ attempt'[d] = attempt[d]
      BY <1>4 DEF Emit
    <3>3. waiting' = waiting /\ emitted' = emitted \cup {e}
      BY <1>4 DEF Emit
    <3>4. QED
      BY <1>t, <3>1, <3>2, <3>3 DEF TypeOK
  <2>3. QED
    BY <1>4, <1>t, <2>1, <2>2, IdleStep DEF Emit, TypeOK
<1>5. ASSUME NEW d \in Delivery, Accepted(d) \/ Refused(d) \/ GivenUp(d)
      PROVE  WebhookInv'
  BY <1>5, FinishStep DEF Accepted, Refused, GivenUp
<1>6. ASSUME NEW d \in Delivery, Postpone(d)
      PROVE  WebhookInv'
  BY <1>6, <1>t, IdleStep DEF Postpone, Sending, TypeOK
<1>7. ASSUME NEW d \in Delivery, Resume(d)
      PROVE  WebhookInv'
  BY <1>7, <1>t, IdleStep, BoundAssumption DEF Resume, TypeOK
<1>8. ASSUME NEW d \in Delivery, Break(d)
      PROVE  WebhookInv'
  BY <1>8, <1>t, IdleStep, StopType DEF Break, TypeOK
<1>9. CASE Restart
  BY <1>9, RestartStep
<1>s. CASE Saving
  BY <1>s, SavingStep
<1>e. CASE Edit
  BY <1>e, EditStep
<1>10. CASE UNCHANGED vars
  BY <1>10, <1>t, IdleStep DEF vars, deliveryVars, ghostVars, TypeOK
<1>11. QED
  BY <1>1, <1>2, <1>3, <1>4, <1>5, <1>6, <1>7, <1>8, <1>9, <1>s, <1>e, <1>10
  DEF Next, Operate, Attempt, Delivering

(* The registry keeps its invariant. *)
THEOREM WebhookInvariant == Spec => []WebhookInv
  BY WebhookInit, WebhookStep, PTL DEF Spec

(* Registrations, deliveries, the file and the dashboard's page of it are what  *)
(* they should be, and only ids that were handed out occur in them.            *)
THEOREM WebhookTypes == Spec => []TypeOK
<1>1. WebhookInv => TypeOK
  BY DEF WebhookInv
<1>2. QED
  BY <1>1, WebhookInvariant, PTL

(* A webhook is switched off for MaxFailures failures in a row and for nothing *)
(* else, whatever deliveries, changes and restarts overlap                     *)
(* (_deliver_and_update re-reads the registration under the lock). *)
THEOREM SwitchedOffForCause == Spec => []ActiveForCause
<1>1. WebhookInv => ActiveForCause
  BY DEF WebhookInv
<1>2. QED
  BY <1>1, WebhookInvariant, PTL

(* webhooks.json holds what is in memory unless the last access to it failed or   *)
(* the dashboard was writing meanwhile or has written since (every change is saved *)
(* before the handler returns), and without the dashboard it is always whole (the  *)
(* text goes to a temporary file first). *)
THEOREM RegistryDurable == Spec => []Durable
<1>1. WebhookInv => Durable
  BY DEF WebhookInv
<1>2. QED
  BY <1>1, WebhookInvariant, PTL

(* What a late delivery may do to the registrations. *)
SettingsKept ==
  \A h \in Hook :
    /\ reg[h] = Absent <=> reg'[h] = Absent
    /\ reg[h] # Absent => reg'[h].settings = reg[h].settings

LEMMA FinishKeepsSettings ==
  ASSUME TypeOK, NEW d \in Delivery, NEW success \in BOOLEAN, Finish(d, success)
  PROVE  SettingsKept
<1> DEFINE h == d[1]
<1>1. h \in Hook /\ \A r \in Registration : r # Absent
  BY NoHookAssumption DEF Delivery
<1>2. CASE reg[h] = Absent
  BY <1>2 DEF Finish, SettingsKept
<1>3. CASE reg[h] # Absent
  <2>1. reg[h] \in Registration
    BY <1>1, <1>3 DEF TypeOK, Registry
  <2>2. /\ Counted(reg[h], success) \in Registration
        /\ Counted(reg[h], success).settings = reg[h].settings
    BY <2>1, CountedType DEF Counted
  <2>3. reg' = [reg EXCEPT ![h] = Counted(reg[h], success)]
    BY <1>3 DEF Finish, Save
  <2>4. QED
    BY <1>1, <1>3, <2>2, <2>3 DEF SettingsKept, TypeOK, Registry
<1>4. QED
  BY <1>2, <1>3

(* A delivery that ends late neither brings back a registration that was removed *)
(* while it waited nor undoes a change of its settings: _deliver_and_update      *)
(* counts on the registration it finds, not on the one it was started with. *)
THEOREM LateDeliveriesHarmless == Spec => LateDeliveriesKeepSettings
<1> DEFINE Ends(d) == job[d] # Absent /\ job'[d] = Absent /\ ~Restart
           Harmless == \A d \in Delivery : Ends(d) => SettingsKept
<1>1. TypeOK /\ [Next]_vars => Harmless
  <2> SUFFICES ASSUME TypeOK, [Next]_vars, NEW d \in Delivery, Ends(d)
               PROVE  SettingsKept
    OBVIOUS
  <2>1. CASE \E h \in Hook : Operate(h)
    BY <2>1 DEF Operate, Register, Deregister, Update, deliveryVars
  <2>2. ASSUME NEW e \in Event, Emit(e)
        PROVE  FALSE
    <3>1. \A h \in Hook : reg[h] # Absent => reg[h].settings # Absent
      BY NoHookAssumption DEF TypeOK, Registry, Registration
    <3>2. d[1] \in Hook
      BY DEF Delivery
    <3>3. QED
      BY <2>2, <3>1, <3>2 DEF Emit
  <2>3. ASSUME NEW c \in Delivery, Accepted(c) \/ Refused(c) \/ GivenUp(c)
        PROVE  SettingsKept
    BY <2>3, FinishKeepsSettings DEF Accepted, Refused, GivenUp
  <2>4. ASSUME NEW c \in Delivery, Postpone(c) \/ Resume(c) \/ Break(c)
        PROVE  SettingsKept
    BY <2>4 DEF Postpone, Resume, Break, SettingsKept
  <2>5. CASE Edit
    BY <2>5 DEF Edit, DashboardReads, DashboardGivesUp, DashboardDeletes, DashboardRegisters,
                DashboardUpdates, DashboardChanges, DashboardWrites, DashboardReplaces,
                deliveryVars
  <2>8. CASE Saving
    BY <2>8 DEF Saving, SaveWrites, SaveReplaces, SaveFails, deliveryVars
  <2>6. CASE UNCHANGED vars
    BY <2>6 DEF vars, deliveryVars
  <2>7. QED
    BY <2>1, <2>2, <2>3, <2>4, <2>5, <2>6, <2>8 DEF Next, Attempt, Delivering
<1>2. QED
  BY <1>1, WebhookTypes, PTL DEF Spec, LateDeliveriesKeepSettings, SettingsKept

=============================================================================
