--------------------------- MODULE WebhookManager ---------------------------
(***************************************************************************)
(* Outbound webhooks (src/webhooks/manager.py, src/webhooks/delivery.py).  *)
(* Registrations live in a dict of the API process and are written to      *)
(* data/webhooks.json as a whole whenever one of them changes.  emit()     *)
(* starts one delivery for each active registration that wants the event.  *)
(* A delivery makes several attempts, and while it waits the registration  *)
(* may be changed, switched off or removed, and other deliveries may end;  *)
(* when it ends it counts the outcome on the registration it then finds.   *)
(* The dashboard, another process, changes the same file: it reads it, and *)
(* writes it back with its change, whatever the API has written meanwhile; *)
(* the API reads the file only when it starts.                             *)
(*                                                                         *)
(* Either process writes data/webhooks.tmp, the same name for both, and    *)
(* then moves it over webhooks.json.  An open file is followed where it is *)
(* moved (POSIX), so that a text may reach webhooks.json itself.           *)
(*                                                                         *)
(* Handlers and deliveries run on one event loop, so what lies between two *)
(* awaits is one step, but for the writing of the file, which the other    *)
(* process may come between.  The url, the events, the secret and the      *)
(* client of a registration are one value, its settings.                   *)
(***************************************************************************)
EXTENDS Integers

CONSTANTS
  Hook,         \* ids that register() may hand out, each used once
  Event,        \* the events that are emitted, each once
  Settings,     \* what an operator may configure
  Wants,        \* the events a registration with given settings is to get
  Absent,       \* no registration, no delivery, no file
  Empty,        \* what is in a file that was just opened for writing
  Torn,         \* what is in one with a part of a text, or of two
  MaxFailures,  \* _MAX_CONSECUTIVE_FAILURES
  MaxAttempts,  \* deliver()'s max_attempts
  MaxEdits,     \* bounds the changes made in the dashboard
  EditEvents,   \* bounds the events in a behaviour in which the dashboard is used
  Troubles      \* what may go on together in one behaviour: sets of "write" and
                \* "read", when writing or reading webhooks.json may fail, and
                \* "edit", when the dashboard is used

Registration == [settings : Settings, active : BOOLEAN, failures : Nat]

ASSUME WantsAssumption == Wants \in [Settings -> SUBSET Event]

ASSUME NoHookAssumption ==
  /\ Absent \notin Settings \cup Registration
  /\ {Absent, Empty, Torn} \cap [Hook -> Registration \cup {Absent}] = {}
  /\ Absent \notin {Empty, Torn} /\ Empty # Torn

ASSUME BoundAssumption ==
  MaxFailures \in Nat \ {0} /\ MaxAttempts \in Nat \ {0} /\ MaxEdits \in Nat

ASSUME TroubleAssumption == Troubles \subseteq SUBSET {"write", "read", "edit"}

Delivery == Hook \X Event
Registry == [Hook -> Registration \cup {Absent}]
Nobody == [h \in Hook |-> Absent]

Writer == {"api", "dashboard"}

VARIABLES
  reg,       \* the dict of registrations
  disk,      \* data/webhooks.json
  tmp,       \* data/webhooks.tmp
  pen,       \* what each process that writes has: no file, an open one, which
             \* is "tmp", "disk" or "gone" by now, or one it has "closed"
  used,      \* the ids that have been handed out
  emitted,   \* the events that have been emitted
  job,       \* the settings each delivery was started with, all it uses of its
             \* copy of the registration
  attempt,   \* the attempts each delivery has made
  waiting,   \* whether the delivery sleeps before its next attempt
  trouble,   \* what goes on in this behaviour
  page,      \* the registrations the dashboard has read, or is about to write
  edits,     \* how often it has read them
  behind,    \* whether the API's last write or read of the file failed, or the
             \* dashboard has written it since or was about to (not program state)
  faulted,   \* whether that was ever so, or a write cut short (not program state)
  streak,    \* failed deliveries since the last good one (not program state)
  due        \* what the operator and the outcomes call for (not program state)

fileVars == <<disk, tmp, pen>>
deliveryVars == <<job, attempt, waiting>>
pageVars == <<trouble, page, edits>>
ghostVars == <<behind, faulted, streak, due>>
vars == <<reg, fileVars, used, emitted, deliveryVars, pageVars, ghostVars>>

(* The dashboard is in the middle of _save_webhooks. *)
Editing == pen["dashboard"] # "none"

TypeOK ==
  /\ reg \in Registry /\ disk \in Registry \cup {Empty, Torn}
  /\ tmp \in Registry \cup {Absent, Empty, Torn}
  /\ pen \in [Writer -> {"none", "tmp", "disk", "gone", "closed"}]
  /\ trouble \in Troubles
  /\ page \in Registry \cup {Absent}
  /\ Editing => page # Absent
  /\ used \subseteq Hook
  /\ \A f \in {reg, disk, tmp, page} \cap Registry, h \in Hook : f[h] # Absent => h \in used
  /\ edits \in 0..MaxEdits
  /\ emitted \subseteq Event
  /\ job \in [Delivery -> Settings \cup {Absent}]
  /\ \A d \in Delivery : job[d] # Absent => d[2] \in emitted
  /\ attempt \in [Delivery -> 0..MaxAttempts]
  /\ waiting \in [Delivery -> BOOLEAN]
  /\ \A d \in Delivery : waiting[d] => job[d] # Absent /\ attempt[d] < MaxAttempts
  /\ behind \in BOOLEAN /\ faulted \in BOOLEAN
  /\ streak \in [Hook -> Nat]
  /\ due \in [Hook -> {"active", "off", "failing"}]

----------------------------------------------------------------------------
(* The files. *)

(* A variation: webhooks.json itself is opened. *)
OpenInPlace(w) ==
  /\ disk' = Empty
  /\ pen' = [pen EXCEPT ![w] = "disk"]
  /\ UNCHANGED tmp

(* tmp.write_text opens the file, which empties it, *)
Open(w) ==
  /\ tmp' = Empty
  /\ pen' = [pen EXCEPT ![w] = "tmp"]
  /\ UNCHANGED disk

(* A text that is written into a file that another process has written leaves *)
(* the end of a longer one. *)
Over(old, text) == IF old = Empty THEN {text} ELSE {text, Torn}

(* and writes to the file it has opened, wherever that is now. *)
Write(w, text) ==
  /\ pen[w] \in {"tmp", "disk", "gone"}
  /\ tmp' \in IF pen[w] = "tmp" THEN Over(tmp, text) ELSE {tmp}
  /\ disk' \in IF pen[w] = "disk" THEN Over(disk, text) ELSE {disk}
  /\ pen' = [pen EXCEPT ![w] = "closed"]

(* What a file becomes that another process has open. *)
Moved(place) ==
  CASE place = "tmp" -> "disk" [] place = "disk" -> "gone" [] OTHER -> place

(* tmp.replace: whatever is in webhooks.tmp takes the place of webhooks.json. *)
Replace(w) ==
  /\ pen[w] = "closed" /\ tmp # Absent
  /\ disk' = tmp /\ tmp' = Absent
  /\ pen' = [v \in Writer |-> IF v = w THEN "none" ELSE Moved(pen[v])]

Other(w) == IF w = "api" THEN "dashboard" ELSE "api"

(* The writing ends early, perhaps with a part of the text in the file.  A    *)
(* temporary file that is left behind is emptied before it is used again, as  *)
(* if there were none. *)
Drop(w) ==
  /\ tmp' \in CASE pen[Other(w)] = "none" -> {Absent}
                [] pen[Other(w)] # "none" /\ pen[w] = "tmp" -> {tmp, Torn}
                [] OTHER -> {tmp}
  /\ disk' \in IF pen[w] = "disk" THEN {disk, Torn} ELSE {disk}
  /\ pen' = [pen EXCEPT ![w] = "none"]

(* What is read from a file: none that can be parsed is none. *)
Loaded(text) == IF text \in {Empty, Torn} THEN Nobody ELSE text

(* The event loop is not in the middle of _save, which awaits nothing. *)
LoopFree == pen["api"] = "none"

(* _save: the dict has become r, and the file is opened, or cannot be, which   *)
(* raises after the dict was changed. *)
Save(r) ==
  /\ LoopFree
  /\ reg' = r
  /\ \/ /\ Open("api")
        /\ behind' = Editing /\ faulted' = (faulted \/ Editing)
     \/ /\ "write" \in trouble
        /\ UNCHANGED fileVars
        /\ behind' = TRUE /\ faulted' = TRUE

SaveWrites ==
  /\ Write("api", reg)
  /\ UNCHANGED <<reg, used, emitted, deliveryVars, pageVars, ghostVars>>

SaveReplaces ==
  /\ Replace("api")
  /\ UNCHANGED <<reg, used, emitted, deliveryVars, pageVars, ghostVars>>

(* The disk is full, or the dashboard has moved the temporary file away. *)
SaveFails ==
  /\ ~LoopFree
  /\ "write" \in trouble \/ (pen["api"] = "closed" /\ tmp = Absent)
  /\ Drop("api")
  /\ behind' = TRUE /\ faulted' = TRUE
  /\ UNCHANGED <<reg, used, emitted, deliveryVars, pageVars, streak, due>>

----------------------------------------------------------------------------
Register(h, s) ==
  /\ h \notin used
  /\ used' = used \cup {h}
  /\ Save([reg EXCEPT ![h] = [settings |-> s, active |-> TRUE, failures |-> 0]])
  /\ UNCHANGED <<emitted, deliveryVars, pageVars, streak, due>>

Deregister(h) ==
  /\ reg[h] # Absent
  /\ Save([reg EXCEPT ![h] = Absent])
  /\ UNCHANGED <<used, emitted, deliveryVars, pageVars, streak, due>>

(* PATCH /webhooks/{id}: new settings, and perhaps a word on whether it is to *)
(* be active.  The failure count stays what it was. *)
Update(h, s, word) ==
  /\ reg[h] # Absent
  /\ Save([reg EXCEPT ![h] =
             [settings |-> s,
              active   |-> IF word = "unsaid" THEN reg[h].active ELSE word = "on",
              failures |-> reg[h].failures]])
  /\ due' = [due EXCEPT ![h] =
              CASE word = "on" -> "active" [] word = "off" -> "off" [] OTHER -> @]
  /\ UNCHANGED <<used, emitted, deliveryVars, pageVars, streak>>

(* emit() starts a delivery of e for every registration that wants it now. *)
Emit(e) ==
  /\ LoopFree
  /\ e \notin emitted /\ ("edit" \in trouble => e \in EditEvents)
  /\ emitted' = emitted \cup {e}
  /\ LET targets == {h \in Hook : /\ reg[h] # Absent
                                  /\ reg[h].active
                                  /\ e \in Wants[reg[h].settings]}
     IN  /\ job' = [d \in Delivery |->
                      IF d[2] = e /\ d[1] \in targets THEN reg[d[1]].settings ELSE job[d]]
         /\ attempt' = [d \in Delivery |->
                          IF d[2] = e /\ d[1] \in targets THEN 1 ELSE attempt[d]]
  /\ UNCHANGED <<reg, fileVars, used, waiting, pageVars, ghostVars>>

Stop(d) ==
  /\ job' = [job EXCEPT ![d] = Absent]
  /\ attempt' = [attempt EXCEPT ![d] = 0]
  /\ UNCHANGED waiting

(* A variation: success does not reset the count. *)
CountedWithoutReset(r, success) ==
  [settings |-> r.settings,
   active   |-> IF success THEN r.active ELSE r.failures + 1 < MaxFailures,
   failures |-> IF success THEN r.failures ELSE r.failures + 1]

(* The registration after one more delivery to it has ended. *)
Counted(r, success) ==
  [settings |-> r.settings,
   active   |-> IF success THEN r.active ELSE r.failures + 1 < MaxFailures,
   failures |-> IF success THEN 0 ELSE r.failures + 1]

(* The outcome of a delivery to h, as the properties remember it. *)
Note(h, success) ==
  /\ streak' = [streak EXCEPT ![h] = IF success THEN 0 ELSE @ + 1]
  /\ due' = [due EXCEPT ![h] =
               IF ~success /\ streak[h] + 1 >= MaxFailures THEN "failing" ELSE @]

(* A variation: the count goes to the copy the delivery was started with. *)
FinishOnOldCopy(d, success) ==
  LET h == d[1] IN
  /\ Stop(d)
  /\ Save([reg EXCEPT ![h] =
             Counted([settings |-> job[d], active |-> TRUE, failures |-> 0], success)])
  /\ Note(h, success)
  /\ UNCHANGED <<used, emitted, pageVars>>

(* _deliver_and_update after deliver() has returned. *)
Finish(d, success) ==
  LET h == d[1] IN
  /\ Stop(d)
  /\ \/ /\ reg[h] = Absent
        /\ UNCHANGED <<reg, fileVars, ghostVars>>
     \/ /\ reg[h] # Absent
        /\ Save([reg EXCEPT ![h] = Counted(reg[h], success)])
        /\ Note(h, success)
  /\ UNCHANGED <<used, emitted, pageVars>>

(* Delivery d is making an attempt, and the loop is free for its outcome. *)
Sending(d) == LoopFree /\ job[d] # Absent /\ ~waiting[d]

(* A status below 300. *)
Accepted(d) == Sending(d) /\ Finish(d, TRUE)

(* A status from 400 to 499 ends the delivery at once; so does the last *)
(* attempt that gets another status, a timeout or a network error. *)
Refused(d) == Sending(d) /\ Finish(d, FALSE)
GivenUp(d) == Sending(d) /\ attempt[d] = MaxAttempts /\ Finish(d, FALSE)

(* A variation: the number of attempts is not looked at. *)
PostponeAlways(d) ==
  /\ Sending(d)
  /\ waiting' = [waiting EXCEPT ![d] = TRUE]
  /\ UNCHANGED <<reg, fileVars, used, emitted, job, attempt, pageVars, ghostVars>>

(* Another status, a timeout or a network error with attempts left. *)
Postpone(d) ==
  /\ Sending(d)
  /\ attempt[d] < MaxAttempts
  /\ waiting' = [waiting EXCEPT ![d] = TRUE]
  /\ UNCHANGED <<reg, fileVars, used, emitted, job, attempt, pageVars, ghostVars>>

(* A variation: the attempt is not counted. *)
ResumeUncounted(d) ==
  /\ LoopFree /\ waiting[d]
  /\ waiting' = [waiting EXCEPT ![d] = FALSE]
  /\ UNCHANGED <<reg, fileVars, used, emitted, job, attempt, pageVars, ghostVars>>

Resume(d) ==
  /\ LoopFree /\ waiting[d]
  /\ waiting' = [waiting EXCEPT ![d] = FALSE]
  /\ attempt' = [attempt EXCEPT ![d] = @ + 1]
  /\ UNCHANGED <<reg, fileVars, used, emitted, job, pageVars, ghostVars>>

(* An exception deliver() does not catch, such as a malformed url: the task  *)
(* dies and nothing is counted. *)
Break(d) ==
  /\ Sending(d)
  /\ Stop(d)
  /\ UNCHANGED <<reg, fileVars, used, emitted, pageVars, ghostVars>>

(* The process dies, perhaps in the middle of _save, and starts again; a file *)
(* that cannot be read leaves it without registrations. *)
Restart ==
  /\ Drop("api")
  /\ \/ reg' = Loaded(disk') /\ behind' = (Editing \/ disk' \in {Empty, Torn})
     \/ "read" \in trouble /\ reg' = Nobody /\ behind' = TRUE
  /\ faulted' = (faulted \/ behind' \/ ~LoopFree)
  /\ job' = [d \in Delivery |-> Absent]
  /\ attempt' = [d \in Delivery |-> 0]
  /\ waiting' = [d \in Delivery |-> FALSE]
  /\ UNCHANGED <<used, emitted, pageVars, streak, due>>

----------------------------------------------------------------------------
(* The dashboard reads the file, or takes one it cannot read for an empty one. *)
DashboardReads ==
  /\ "edit" \in trouble
  /\ page = Absent /\ edits < MaxEdits
  /\ edits' = edits + 1
  /\ \/ page' = Loaded(disk)
     \/ "read" \in trouble /\ page' = Nobody
  /\ UNCHANGED <<trouble, reg, fileVars, used, emitted, deliveryVars, ghostVars>>

(* Registration h becomes r in what it has read, and _save_webhooks begins. *)
DashboardChanges(h, r) ==
  /\ page # Absent /\ ~Editing
  /\ page' = [page EXCEPT ![h] = r]
  /\ Open("dashboard")
  /\ behind' = (behind \/ ~LoopFree) /\ faulted' = (faulted \/ ~LoopFree)
  /\ UNCHANGED <<trouble, reg, emitted, deliveryVars, edits, streak, due>>

DashboardRegisters(h, s) ==
  /\ h \notin used
  /\ used' = used \cup {h}
  /\ DashboardChanges(h, [settings |-> s, active |-> TRUE, failures |-> 0])

DashboardUpdates(h, s, active) ==
  /\ page # Absent /\ page[h] # Absent
  /\ DashboardChanges(h, [settings |-> s, active |-> active, failures |-> page[h].failures])
  /\ UNCHANGED used

DashboardDeletes(h) ==
  /\ page # Absent /\ page[h] # Absent
  /\ DashboardChanges(h, Absent)
  /\ UNCHANGED used

DashboardWrites ==
  /\ Write("dashboard", page)
  /\ UNCHANGED <<reg, used, emitted, deliveryVars, pageVars, ghostVars>>

DashboardReplaces ==
  /\ Replace("dashboard")
  /\ page' = Absent
  /\ behind' = TRUE /\ faulted' = TRUE
  /\ UNCHANGED <<trouble, reg, used, emitted, deliveryVars, edits, streak, due>>

(* There is no such registration (any more), the request is not valid, the     *)
(* file cannot be written, the API has moved it away, or the process ends. *)
DashboardGivesUp ==
  /\ page # Absent
  /\ page' = Absent
  /\ Drop("dashboard")
  /\ UNCHANGED <<trouble, reg, used, emitted, deliveryVars, edits, ghostVars>>

----------------------------------------------------------------------------
Init ==
  /\ reg = Nobody
  /\ disk = Nobody /\ tmp = Absent /\ pen = [w \in Writer |-> "none"]
  /\ used = {}
  /\ emitted = {}
  /\ job = [d \in Delivery |-> Absent]
  /\ attempt = [d \in Delivery |-> 0]
  /\ waiting = [d \in Delivery |-> FALSE]
  /\ trouble \in Troubles
  /\ page = Absent /\ edits = 0
  /\ behind = FALSE
  /\ faulted = FALSE
  /\ streak = [h \in Hook |-> 0]
  /\ due = [h \in Hook |-> "active"]

(* What may come of the attempt that delivery d is making. *)
Attempt(d) == Accepted(d) \/ Refused(d) \/ GivenUp(d) \/ Postpone(d) \/ Break(d)

Operate(h) ==
  \/ Deregister(h)
  \/ \E s \in Settings : Register(h, s)
  \/ \E s \in Settings, word \in {"on", "off", "unsaid"} : Update(h, s, word)

Edit ==
  \/ DashboardReads \/ DashboardWrites \/ DashboardReplaces \/ DashboardGivesUp
  \/ \E h \in Hook :
       \/ DashboardDeletes(h)
       \/ \E s \in Settings : \/ DashboardRegisters(h, s)
                            \/ \E active \in BOOLEAN : DashboardUpdates(h, s, active)

Delivering == \E d \in Delivery : Attempt(d) \/ Resume(d)

Saving == SaveWrites \/ SaveReplaces \/ SaveFails

Next ==
  \/ Saving
  \/ \E h \in Hook : Operate(h)
  \/ \E e \in Event : Emit(e)
  \/ Delivering
  \/ Edit
  \/ Restart

Spec == Init /\ [][Next]_vars

(* Every attempt ends (it has a timeout), every sleep ends, and the event loop *)
(* runs what is ready in turn: whatever is saved in between, some delivery goes *)
(* on.  Nobody has to register, emit or restart anything. *)
Fairness == WF_vars(Saving) /\ SF_vars(Delivering)

FairSpec == Spec /\ Fairness

----------------------------------------------------------------------------
(* Unless the last write or read of it failed, or the dashboard was writing     *)
(* meanwhile or has written since, webhooks.json holds exactly the registrations *)
(* in memory: a restart at any moment loses nothing, deliveries' failure counts  *)
(* included, and a later write repairs an earlier failed one.  And unless the    *)
(* dashboard is used at all, it can be parsed: no kill and no failure in the     *)
(* middle of a write tears it.  (Two writes that overlap may, for they share one *)
(* temporary file.) *)
Durable ==
  /\ LoopFree /\ ~behind => disk = reg
  /\ "edit" \notin trouble => disk \in Registry

(* The manager switches a webhook off for MaxFailures failed deliveries in a   *)
(* row and for nothing else, however deliveries overlap with each other and    *)
(* with restarts, and it stays off as long as that run of failures goes on,    *)
(* unless an operator switches it on again, or the file was ever behind what is  *)
(* in memory, or a kill cut its writing short. *)
ActiveForCause ==
  ~faulted =>
    \A h \in Hook :
      reg[h] # Absent =>
        /\ due[h] = "active" => reg[h].active
        /\ due[h] = "failing" /\ streak[h] >= MaxFailures => ~reg[h].active

(* A delivery that ends late neither brings back a registration that has been *)
(* removed meanwhile nor undoes a change of its settings. *)
LateDeliveriesKeepSettings ==
  [][\A d \in Delivery :
       job[d] # Absent /\ job'[d] = Absent /\ ~Restart =>
         \A h \in Hook :
           /\ reg[h] = Absent <=> reg'[h] = Absent
           /\ reg[h] # Absent => reg'[h].settings = reg[h].settings]_vars

(* Every delivery that was started ends: with an outcome, with an exception or *)
(* with its process. *)
DeliveriesEnd == \A d \in Delivery : job[d] # Absent ~> job[d] = Absent

(* What docs/API.md:500-510 says of the API: PATCH {"active": false} switches *)
(* a webhook off.  It does not hold: a delivery that was under way and fails  *)
(* switches it on again. *)
StaysOff ==
  ~faulted => \A h \in Hook : reg[h] # Absent /\ due[h] = "off" => ~reg[h].active

=============================================================================
