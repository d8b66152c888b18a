------------------------- MODULE ConfigReloadProofs -------------------------
(***************************************************************************)
(* What holds of the configuration in memory for any files, contents and   *)
(* writers.                                                                *)
(***************************************************************************)
EXTENDS ConfigReload, TLAPS

(* From the moment the files are loaded, not only once the watcher runs.  The *)
(* watcher has nothing noted before it runs, and no cached copy of a client's *)
(* file has a section that the schema does not know. *)
ReloadInv ==
  /\ TypeOK
  /\ phase # "down" => \A f \in File : f \in dirty \/ f \in missed \/ InSync(f)
  /\ phase # "up" => dirty = {}
  /\ mem["client"] # Absent => mem["client"].flag = "unset"

----------------------------------------------------------------------------
(* The five kinds of file are different. *)
LEMMA FilesDiffer ==
  /\ "client" \in File /\ "features" \in File /\ "alert_types" \in File
  /\ Strict \subseteq File
  /\ Lenient = {"features", "alert_types"}
  /\ \A f \in Strict : f # "client" /\ f # "features" /\ f # "alert_types"
  /\ \A f \in File : f \in Strict \/ f = "client" \/ f = "features" \/ f = "alert_types"
BY FileAssumption DEF File, Lenient

(* What validation makes of a client's file can be cached, and has no flag. *)
LEMMA ValidatedView ==
  ASSUME NEW c \in ClientFile
  PROVE  /\ Validated(c) \in ClientView
         /\ Validated(c).flag = "unset"
         /\ Validated(c) # Absent
<1>1. Validated(c) \in ClientView
  BY DEF Validated, ClientView, Flag
<1>2. QED
  BY <1>1, ContentAssumption DEF Validated

(* What the lenient files count as. *)
LEMMA LenientTypes ==
  ASSUME TypeOK
  PROVE  LoadedFlags \in Switch /\ LoadedRules \in Rules \cup {NoRules}
<1>1. disk["features"] \in {Bad} \cup Switch /\ disk["alert_types"] \in {Bad} \cup Rules
  BY FilesDiffer DEF TypeOK, Contents
<1>2. QED
  BY <1>1, ContentAssumption DEF LoadedFlags, LoadedRules

(* What the callback makes of memory. *)
LEMMA WithLenientOf ==
  ASSUME TypeOK, NEW m, DOMAIN m = File,
         \A f \in File : m[f] \in Loadable(f)
  PROVE  /\ DOMAIN WithLenient(m) = File
         /\ \A f \in File : WithLenient(m)[f] \in Loadable(f)
         /\ \A f \in File \ Lenient : WithLenient(m)[f] = m[f]
         /\ WithLenient(m)["features"] = LoadedFlags
         /\ WithLenient(m)["alert_types"] = LoadedRules
<1>1. /\ DOMAIN WithLenient(m) = File
      /\ \A f \in File \ Lenient : WithLenient(m)[f] = m[f]
      /\ WithLenient(m)["features"] = LoadedFlags
      /\ WithLenient(m)["alert_types"] = LoadedRules
  BY FilesDiffer DEF WithLenient
<1>2. \A f \in Lenient : WithLenient(m)[f] \in Loadable(f)
  BY <1>1, FilesDiffer, LenientTypes DEF Loadable
<1>3. QED
  BY <1>1, <1>2

(* Memory agrees with a lenient file that was just read. *)
LEMMA LenientInSync ==
  ASSUME UNCHANGED disk,
         mem'["features"] = LoadedFlags, mem'["alert_types"] = LoadedRules
  PROVE  InSync("features")' /\ InSync("alert_types")'
BY DEF InSync, LoadedFlags, LoadedRules

(* Agreement depends on the content of the file and on the copy, only. *)
LEMMA SameSync ==
  ASSUME NEW f \in File, InSync(f), disk'[f] = disk[f], mem'[f] = mem[f]
  PROVE  InSync(f)'
<1>1. CASE f = "client"
  BY <1>1 DEF InSync
<1>2. CASE f = "features"
  BY <1>2 DEF InSync, LoadedFlags
<1>3. CASE f = "alert_types"
  BY <1>3 DEF InSync, LoadedRules
<1>4. CASE f \in Strict
  BY <1>4, FilesDiffer DEF InSync
<1>5. QED
  BY <1>1, <1>2, <1>3, <1>4, FilesDiffer

----------------------------------------------------------------------------
(* A file is written and memory follows, or not. *)
LEMMA WriteKeeps ==
  ASSUME ReloadInv, NEW f \in File, NEW v \in Contents(f), Write(f, v),
         DOMAIN mem' = File, mem'[f] \in Loadable(f),
         \A g \in File \ {f} : mem'[g] = mem[g],
         f = "client" => mem'[f] = mem[f] \/ mem'[f] = Absent,
         UNCHANGED <<phase, env>>
  PROVE  ReloadInv'
<1>1. /\ DOMAIN disk' = File /\ disk'[f] = v
      /\ \A g \in File \ {f} : disk'[g] = disk[g]
  BY DEF Write, ReloadInv, TypeOK
<1>2. TypeOK'
  BY <1>1 DEF ReloadInv, TypeOK, Write
<1>3. ASSUME NEW g \in File, phase' # "down"
      PROVE  g \in dirty' \/ g \in missed' \/ InSync(g)'
  <2>1. CASE g = f
    BY <1>3, <2>1 DEF Write, ReloadInv, TypeOK
  <2>2. CASE g # f
    BY <1>1, <1>3, <2>2, SameSync DEF Write, ReloadInv
  <2>3. QED
    BY <2>1, <2>2
<1>4. phase' # "up" => dirty' = {}
  BY DEF Write, ReloadInv
<1>5. mem'["client"] # Absent => mem'["client"].flag = "unset"
  BY FilesDiffer DEF ReloadInv
<1>6. QED
  BY <1>2, <1>3, <1>4, <1>5 DEF ReloadInv

(* Memory follows some files, and nothing is written; what is forgotten of the *)
(* notes is in agreement. *)
LEMMA ReadKeeps ==
  ASSUME ReloadInv, UNCHANGED <<disk, phase, env>>,
         DOMAIN mem' = File, \A f \in File : mem'[f] \in Loadable(f),
         dirty' \subseteq dirty, missed' \subseteq missed,
         \A f \in File : \/ InSync(f)'
                         \/ /\ mem'[f] = mem[f]
                            /\ f \in dirty => f \in dirty'
                            /\ f \in missed => f \in missed',
         mem'["client"] # Absent => mem'["client"].flag = "unset"
  PROVE  ReloadInv'
<1>1. TypeOK'
  BY DEF ReloadInv, TypeOK
<1>2. ASSUME NEW f \in File, phase' # "down"
      PROVE  f \in dirty' \/ f \in missed' \/ InSync(f)'
  BY <1>2, SameSync DEF ReloadInv
<1>3. phase' # "up" => dirty' = {}
  BY DEF ReloadInv
<1>4. QED
  BY <1>1, <1>2, <1>3 DEF ReloadInv

(* Somebody else writes a file. *)
LEMMA EditKeeps ==
  ASSUME ReloadInv, NEW f \in File, NEW v \in Contents(f), Edit(f, v)
  PROVE  ReloadInv'
BY WriteKeeps DEF Edit, ReloadInv, TypeOK

(* A client's configuration is used for the first time. *)
LEMMA GetClientKeeps ==
  ASSUME ReloadInv, GetClient
  PROVE  ReloadInv'
<1>1. disk["client"] \in ClientFile
  BY FilesDiffer DEF ReloadInv, TypeOK, Contents, GetClient
<1>2. /\ DOMAIN mem' = File
      /\ mem'["client"] = Validated(disk["client"])
      /\ \A f \in File \ {"client"} : mem'[f] = mem[f]
  BY FilesDiffer DEF ReloadInv, TypeOK, GetClient
<1>3. \A f \in File : mem'[f] \in Loadable(f)
  BY <1>1, <1>2, ValidatedView, FilesDiffer DEF ReloadInv, TypeOK, Loadable
<1>4. InSync("client")'
  BY <1>1, <1>2, ContentAssumption DEF InSync, GetClient, Validated
<1>5. QED
  BY <1>1, <1>2, <1>3, <1>4, ValidatedView, ReadKeeps DEF GetClient

(* The routes that write a file. *)
LEMMA UpdatesKeep ==
  ASSUME ReloadInv,
         \/ \E c \in ClientFile : UpdateClient(c)
         \/ \E flag \in Switch : UpdateClientFlags(flag)
         \/ \E r \in Rules : UpdateRule(r)
  PROVE  ReloadInv'
<1>1. ASSUME NEW c \in ClientFile, UpdateClient(c)
      PROVE  ReloadInv'
  <2>1. c \in Contents("client") /\ Absent \in Loadable("client")
    BY DEF Contents, Loadable
  <2>2. /\ DOMAIN mem' = File /\ mem'["client"] = Absent
        /\ \A g \in File \ {"client"} : mem'[g] = mem[g]
    BY <1>1, FilesDiffer DEF UpdateClient, ReloadInv, TypeOK
  <2>3. QED
    BY <1>1, <2>1, <2>2, FilesDiffer, WriteKeeps DEF UpdateClient
<1>2. ASSUME NEW flag \in Switch, UpdateClientFlags(flag)
      PROVE  ReloadInv'
  <2>1. [disk["client"] EXCEPT !.flag = flag] \in Contents("client")
    BY <1>2 DEF UpdateClientFlags, Contents
  <2>2. QED
    BY <1>2, <2>1, FilesDiffer, WriteKeeps DEF UpdateClientFlags, ReloadInv, TypeOK
<1>3. ASSUME NEW r \in Rules, UpdateRule(r)
      PROVE  ReloadInv'
  <2>1. r \in Contents("alert_types") /\ r \in Loadable("alert_types")
    BY DEF Contents, Loadable
  <2>2. /\ DOMAIN mem' = File /\ mem'["alert_types"] = r
        /\ \A g \in File \ {"alert_types"} : mem'[g] = mem[g]
    BY <1>3, FilesDiffer DEF UpdateRule, ReloadInv, TypeOK
  <2>3. QED
    BY <1>3, <2>1, <2>2, FilesDiffer, WriteKeeps DEF UpdateRule
<1>4. QED
  BY <1>1, <1>2, <1>3

(* The cached clients are dropped and the lenient files read. *)
LEMMA TriggerReloadKeeps ==
  ASSUME ReloadInv, TriggerReload
  PROVE  ReloadInv'
<1> DEFINE m == [mem EXCEPT !["client"] = Absent]
<1>1. /\ DOMAIN m = File /\ m["client"] = Absent
      /\ \A f \in File \ {"client"} : m[f] = mem[f]
  BY FilesDiffer DEF ReloadInv, TypeOK
<1>2. \A f \in File : m[f] \in Loadable(f)
  BY <1>1 DEF ReloadInv, TypeOK, Loadable
<1> HIDE DEF m
<1>3. /\ mem' = WithLenient(m) /\ UNCHANGED <<disk, dirty, phase, env>>
      /\ missed' = missed \ ({"client"} \cup Lenient)
  BY DEF TriggerReload, m
<1>4. /\ DOMAIN mem' = File /\ \A f \in File : mem'[f] \in Loadable(f)
      /\ mem'["client"] = Absent
      /\ \A f \in Strict : mem'[f] = mem[f]
      /\ mem'["features"] = LoadedFlags /\ mem'["alert_types"] = LoadedRules
  BY <1>1, <1>2, <1>3, WithLenientOf, FilesDiffer DEF ReloadInv
<1>5. InSync("client")' /\ InSync("features")' /\ InSync("alert_types")'
  BY <1>3, <1>4, LenientInSync DEF InSync
<1>6. QED
  BY <1>3, <1>4, <1>5, FilesDiffer, ReadKeeps

(* The watcher finds that f has changed. *)
LEMMA PollKeeps ==
  ASSUME ReloadInv, NEW f \in File, Poll(f)
  PROVE  ReloadInv'
<1>1. UNCHANGED <<disk, phase, env>> /\ dirty' = dirty \ {f}
  BY DEF Poll
<1>2. CASE f \in Strict /\ disk[f] = Bad /\ UNCHANGED <<mem, missed>>
  <2>1. InSync(f)'
    BY <1>1, <1>2, FilesDiffer DEF InSync
  <2>2. QED
    BY <1>1, <1>2, <2>1, ReadKeeps DEF ReloadInv, TypeOK
<1>3. ASSUME NEW v \in Loadable(f), f \notin Lenient,
             mem' = WithLenient([mem EXCEPT ![f] = v]),
             missed' = missed \ ({f} \cup Lenient),
             f = "client" => v = Absent,
             f # "client" => v = disk[f]
      PROVE  ReloadInv'
  <2> DEFINE m == [mem EXCEPT ![f] = v]
  <2>1. /\ DOMAIN m = File /\ m[f] = v
        /\ \A g \in File \ {f} : m[g] = mem[g]
    BY DEF ReloadInv, TypeOK
  <2>2. \A g \in File : m[g] \in Loadable(g)
    BY <1>3, <2>1 DEF ReloadInv, TypeOK
  <2> HIDE DEF m
  <2>3. mem' = WithLenient(m)
    BY <1>3 DEF m
  <2>4. /\ DOMAIN mem' = File /\ \A g \in File : mem'[g] \in Loadable(g)
        /\ mem'[f] = v
        /\ \A g \in File \ ({f} \cup Lenient) : mem'[g] = mem[g]
        /\ mem'["features"] = LoadedFlags /\ mem'["alert_types"] = LoadedRules
    <3>1. /\ DOMAIN WithLenient(m) = File
          /\ \A g \in File : WithLenient(m)[g] \in Loadable(g)
          /\ \A g \in File \ Lenient : WithLenient(m)[g] = m[g]
          /\ WithLenient(m)["features"] = LoadedFlags
          /\ WithLenient(m)["alert_types"] = LoadedRules
      BY <2>1, <2>2, WithLenientOf DEF ReloadInv
    <3>2. QED
      BY <1>3, <2>1, <2>3, <3>1
  <2>5. InSync("features")' /\ InSync("alert_types")'
    BY <1>1, <2>4, LenientInSync
  <2>6. InSync(f)'
    BY <1>1, <1>3, <2>4, FilesDiffer DEF InSync
  <2>7. mem'["client"] # Absent => mem'["client"].flag = "unset"
    BY <1>3, <2>4, FilesDiffer DEF ReloadInv
  <2>8. QED
    BY <1>1, <1>3, <2>4, <2>5, <2>6, <2>7, FilesDiffer, ReadKeeps
<1>4. CASE f \in Lenient /\ mem' = WithLenient(mem) /\ missed' = missed \ Lenient
  <2>1. /\ DOMAIN mem' = File /\ \A g \in File : mem'[g] \in Loadable(g)
        /\ \A g \in File \ Lenient : mem'[g] = mem[g]
        /\ mem'["features"] = LoadedFlags /\ mem'["alert_types"] = LoadedRules
    BY <1>4, WithLenientOf DEF ReloadInv, TypeOK
  <2>2. InSync("features")' /\ InSync("alert_types")'
    BY <1>1, <2>1, LenientInSync
  <2>3. mem'["client"] # Absent => mem'["client"].flag = "unset"
    BY <2>1, FilesDiffer DEF ReloadInv
  <2>4. QED
    BY <1>1, <1>4, <2>1, <2>2, <2>3, FilesDiffer, ReadKeeps
<1>5. f \in Strict /\ disk[f] # Bad => disk[f] \in Loadable(f)
  BY FilesDiffer DEF ReloadInv, TypeOK, Contents, Loadable
<1>6. f = "client" => Absent \in Loadable(f)
  BY DEF Loadable
<1>7. QED
  BY <1>2, <1>3, <1>4, <1>5, <1>6, FilesDiffer DEF Poll

(* The process starts, looks at the files for the first time, and ends. *)
LEMMA ProcessKeeps ==
  ASSUME ReloadInv, Start \/ Watch \/ Stop
  PROVE  ReloadInv'
<1>1. CASE Start
  <2> DEFINE m == [f \in File |-> IF f = "client" THEN Absent ELSE disk[f]]
  <2>1. \A f \in File \ Lenient : m[f] \in Loadable(f)
    BY <1>1, FilesDiffer DEF Start, ReloadInv, TypeOK, Contents, Loadable
  <2>2. /\ DOMAIN WithLenient(m) = File
        /\ \A f \in File \ Lenient : WithLenient(m)[f] = m[f]
        /\ WithLenient(m)["features"] = LoadedFlags
        /\ WithLenient(m)["alert_types"] = LoadedRules
    BY FilesDiffer DEF WithLenient
  <2> HIDE DEF m
  <2>3. mem' = WithLenient(m) /\ UNCHANGED <<disk, dirty, env, missed>> /\ phase' = "starting"
    BY <1>1 DEF Start, m
  <2>4. \A f \in File : mem'[f] \in Loadable(f)
    BY <2>1, <2>2, <2>3, FilesDiffer, LenientTypes DEF ReloadInv, Loadable
  <2>5. TypeOK'
    BY <2>2, <2>3, <2>4 DEF ReloadInv, TypeOK
  <2>6. InSync("features")' /\ InSync("alert_types")'
    BY <2>2, <2>3, LenientInSync
  <2>7. mem'["client"] = Absent /\ \A f \in Strict : mem'[f] = disk[f]
    BY <2>2, <2>3, FilesDiffer DEF m
  <2>8. \A f \in File : InSync(f)'
    BY <2>3, <2>6, <2>7, FilesDiffer DEF InSync
  <2>9. QED
    BY <1>1, <2>3, <2>5, <2>7, <2>8 DEF ReloadInv, Start
<1>2. CASE Watch
  <2>1. \A f \in File : InSync(f) => InSync(f)'
    BY <1>2, SameSync DEF Watch
  <2>2. QED
    BY <1>2, <2>1 DEF Watch, ReloadInv, TypeOK
<1>3. CASE Stop
  BY <1>3 DEF Stop, ReloadInv, TypeOK
<1>4. QED
  BY <1>1, <1>2, <1>3

(* Memory begins with what the files have. *)
LEMMA InitInSync ==
  ASSUME Init
  PROVE  ReloadInv
<1>1. PICK c \in ClientFile, s \in Switch, r \in Rules, strict \in [Strict -> Setting] :
        disk = [f \in File |-> CASE f = "client" -> c
                                 [] f = "features" -> s
                                 [] f = "alert_types" -> r
                                 [] OTHER -> strict[f]]
  BY DEF Init
<1>2. /\ DOMAIN disk = File /\ disk["client"] = c
      /\ disk["features"] = s /\ disk["alert_types"] = r
      /\ \A f \in Strict : disk[f] = strict[f]
  BY <1>1, FilesDiffer
<1>3. /\ s # Bad /\ r # Bad
      /\ \A f \in Strict : strict[f] \in Setting /\ strict[f] # Bad
  BY <1>1, ContentAssumption
<1>4. LoadedFlags = s /\ LoadedRules = r
  BY <1>2, <1>3 DEF LoadedFlags, LoadedRules
<1> DEFINE m == [f \in File |-> IF f = "client" THEN Absent ELSE disk[f]]
<1>5. /\ DOMAIN WithLenient(m) = File
      /\ \A f \in File \ Lenient : WithLenient(m)[f] = m[f]
      /\ WithLenient(m)["features"] = LoadedFlags
      /\ WithLenient(m)["alert_types"] = LoadedRules
  BY FilesDiffer DEF WithLenient
<1>6. mem = WithLenient(m)
  BY DEF Init
<1>7. /\ DOMAIN mem = File /\ mem["client"] = Absent
      /\ mem["features"] = s /\ mem["alert_types"] = r
      /\ \A f \in Strict : mem[f] = disk[f]
  BY <1>4, <1>5, <1>6, FilesDiffer
<1>8. \A f \in File : disk[f] \in Contents(f)
  BY <1>2, <1>3, FilesDiffer DEF Contents
<1>9. \A f \in File : mem[f] \in Loadable(f)
  BY <1>2, <1>3, <1>7, FilesDiffer DEF Loadable
<1>10. TypeOK
  BY <1>2, <1>7, <1>8, <1>9 DEF Init, TypeOK
<1>11. \A f \in File : InSync(f)
  BY <1>2, <1>4, <1>7, FilesDiffer DEF InSync
<1>12. QED
  BY <1>7, <1>10, <1>11 DEF Init, ReloadInv

(* The invariant: from the moment the files were loaded, what memory no longer *)
(* agrees with is noted or was missed (config_manager.py, hot_reload.py). *)
THEOREM ReloadInvariant == Spec => []ReloadInv
<1>1. Init => ReloadInv
  BY InitInSync
<1>2. ReloadInv /\ [Next]_vars => ReloadInv'
  <2>1. CASE Next
    BY <2>1, EditKeeps, GetClientKeeps, UpdatesKeep, TriggerReloadKeeps, PollKeeps,
       ProcessKeeps DEF Next
  <2>2. CASE UNCHANGED vars
    BY <2>2, SameSync DEF vars, ReloadInv, TypeOK
  <2>3. QED
    BY <2>1, <2>2
<1>3. QED
  BY <1>1, <1>2, PTL DEF Spec

(* Types, for any files and contents. *)
THEOREM ReloadTypes == Spec => []TypeOK
<1>1. ReloadInv => TypeOK
  BY DEF ReloadInv
<1>2. QED
  BY <1>1, ReloadInvariant, PTL

(* A running process never has stale configuration that nothing is going to    *)
(* notice, but for files written between the load and the watcher's first look *)
(* (hot_reload.py:104-158, config_manager.py). *)
THEOREM NothingStaleUnnoticed == Spec => []StaleIsNoticed
<1>1. ReloadInv => StaleIsNoticed
  BY DEF ReloadInv, StaleIsNoticed
<1>2. QED
  BY <1>1, ReloadInvariant, PTL

(* is_enabled and get answer alike for every environment and every client's   *)
(* file, because no client's override survives validation (feature_flags.py). *)
THEOREM FlagsAgree == Spec => []FlagAnswersAgree
<1>1. ReloadInv => FlagAnswersAgree
  BY DEF ReloadInv, FlagAnswersAgree, IsEnabled, GetFlag, ClientFlag, Validated
<1>2. QED
  BY <1>1, ReloadInvariant, PTL

=============================================================================
