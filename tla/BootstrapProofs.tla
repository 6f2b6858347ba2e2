--------------------------- MODULE BootstrapProofs ---------------------------
(***************************************************************************)
(* Theorems about Bootstrap, for every set of doors, URLs and names and    *)
(* any number of edits.                                                    *)
(***************************************************************************)
EXTENDS Bootstrap, TLAPS

\* A UUID that FreshUuid stands for is one nobody refers to.
LEMMA FreshUuidIsFresh ==
    ASSUME \E u \in Uuids : ~InUse(u)
    PROVE  FreshUuid \in Uuids /\ ~InUse(FreshUuid)
  BY DEF FreshUuid

\* A block of the right type stays one when a URL, or its name and grace, change.
LEMMA BlockFields ==
    ASSUME NEW b \in Block
    PROVE  /\ b.name \in Names /\ b.grace \in Graces \cup {None}
           /\ b.url \in [Types -> Uuids \cup {None}]
           /\ \A f \in [Types -> Uuids \cup {None}] : [b EXCEPT !.url = f] \in Block
  BY DEF Block

\* What the scripts write are config files again.
LEMMA BlocksType ==
    ASSUME BootstrapAssumption
    PROVE  /\ Example \in File
           /\ [d \in Doors |-> None] \in File
           /\ \A answer : DoorBlocks(answer) \in File
  <1>1. Types = {"unauthorized", "held_open"} BY DEF Types
  <1>2. NoUrls \in [Types -> Uuids \cup {None}] BY DEF NoUrls
  <1>3. [t \in Types |-> Placeholder] \in [Types -> Uuids \cup {None}]
    BY DEF BootstrapAssumption
  <1>4. \A d \in Doors : UnifiName[d] \in Names BY DEF BootstrapAssumption
  <1>5. \A d \in Doors : [name |-> UnifiName[d], grace |-> None, url |-> NoUrls] \in Block
    BY <1>2, <1>4 DEF Block
  <1>6. \A d \in Doors :
           [name |-> UnifiName[d], grace |-> None, url |-> [t \in Types |-> Placeholder]] \in Block
    BY <1>3, <1>4 DEF Block
  <1> QED BY <1>5, <1>6 DEF File, Example, DoorBlocks

\* Patching the URLs of a run into a config file gives a config file.
LEMMA PatchedType ==
    ASSUME TypeOK, NEW config \in File
    PROVE  Patched(config) \in File
  <1> SUFFICES ASSUME NEW d \in Doors, config[d] # None
               PROVE  [config[d] EXCEPT !.url =
                          [t \in Types |-> IF script.urls[<<d, t>>] = None
                                           THEN config[d].url[t] ELSE script.urls[<<d, t>>]]]
                        \in Block
    BY DEF Patched, File
  <1>1. config[d] \in Block BY DEF File
  <1>2. \A t \in Types : <<d, t>> \in Pairs BY DEF Pairs
  <1>3. script.urls \in [Pairs -> Uuids \cup {None}] BY DEF TypeOK
  <1>4. [t \in Types |-> IF script.urls[<<d, t>>] = None
                         THEN config[d].url[t] ELSE script.urls[<<d, t>>]]
          \in [Types -> Uuids \cup {None}]
    BY <1>1, <1>2, <1>3, BlockFields
  <1> QED BY <1>1, <1>4, BlockFields
-----------------------------------------------------------------------------
(* Type correctness.                                                        *)

\* The fields of the script record.
LEMMA ScriptFields ==
    ASSUME TypeOK
    PROVE  /\ script.write \in BOOLEAN /\ script.dry \in BOOLEAN
           /\ script.config \in File
           /\ script.known \in SUBSET Uuids
           /\ script.todo \in SUBSET Pairs
           /\ script.urls \in [Pairs -> Uuids \cup {None}]
  BY DEF TypeOK

\* A script that has not started has well-typed local variables.
LEMMA IdleType ==
    /\ Idle.at \in {"idle", "listing doors", "listing alarms", "upserting"}
    /\ Idle.write = FALSE /\ Idle.dry = FALSE
    /\ Idle.config \in File
    /\ Idle.known = {} /\ Idle.todo = {}
    /\ Idle.urls \in [Pairs -> Uuids \cup {None}]
  BY DEF Idle, File

\* The initial states are well typed.
LEMMA InitType == BootstrapAssumption /\ Init => TypeOK
  <1> SUFFICES ASSUME BootstrapAssumption, Init PROVE TypeOK OBVIOUS
  <1>1. file \in File BY BlocksType DEF Init
  <1>2. alarms \in [Uuids -> Alarm \cup {None}] BY DEF Init
  <1>3. script = Idle BY DEF Init
  <1>4. edits \in 0 .. MaxEdits BY DEF Init, BootstrapAssumption
  <1> QED BY <1>1, <1>2, <1>3, <1>4, IdleType DEF Init, TypeOK, Idle

\* The alarm a script makes for a pair that is its turn.
LEMMA TurnFacts ==
    ASSUME TypeOK, NEW p, Turn(p)
    PROVE  /\ p \in Pairs /\ p[1] \in Doors /\ p[2] \in Types
           /\ script.config[p[1]] \in Block
           /\ Url(script.config, p) \in Uuids \cup {None}
           /\ AlarmFor(p) \in Alarm
  <1>1. p \in Pairs /\ script.config[p[1]] # None BY DEF Turn, TypeOK
  <1>2. p[1] \in Doors /\ p[2] \in Types BY <1>1 DEF Pairs
  <1>3. script.config[p[1]] \in Block BY <1>1, <1>2, ScriptFields DEF File
  <1>4. Url(script.config, p) \in Uuids \cup {None} BY <1>1, <1>2, <1>3 DEF Url, Block
  <1>5. AlarmFor(p) \in Alarm BY <1>1, <1>3 DEF AlarmFor, Alarm, Block
  <1> QED BY <1>1, <1>2, <1>3, <1>4, <1>5

\* Settling a pair keeps the type of the script's variables.
LEMMA SettledType ==
    ASSUME TypeOK, NEW p \in Pairs, NEW u \in Uuids, Settled(p, u),
           UNCHANGED <<file, edits, pasted, rerun>>,
           alarms' \in [Uuids -> Alarm \cup {None}]
    PROVE  TypeOK'
  BY DEF TypeOK, Settled

\* The steps of the scripts keep the types.
LEMMA ScriptsType ==
    ASSUME BootstrapAssumption, TypeOK, Scripts
    PROVE  TypeOK'
  <1>1. ASSUME NEW write \in BOOLEAN, NEW env \in SUBSET EnvVars, StartDoors(write, env)
        PROVE  TypeOK'
    BY <1>1, IdleType DEF StartDoors, TypeOK, Idle
  <1>2. ASSUME NEW answer, RenderDoors(answer)
        PROVE  TypeOK'
    <2>1. file' \in File BY <1>2, BlocksType DEF RenderDoors, TypeOK
    <2> QED BY <1>2, <2>1, IdleType DEF RenderDoors, TypeOK, Idle
  <1>3. ASSUME NEW write \in BOOLEAN, NEW dry \in BOOLEAN, NEW env \in SUBSET EnvVars,
               StartAlarms(write, dry, env)
        PROVE  TypeOK'
    BY <1>3, IdleType DEF StartAlarms, TypeOK, Idle
  <1>4. CASE ListAlarms
    <2>1. Live \in SUBSET Uuids BY DEF Live
    <2>2. PairsOf(script.config) \in SUBSET Pairs BY DEF PairsOf
    <2>3. \A p \in PairsOf(script.config) : script.config[p[1]] # None BY DEF PairsOf
    <2> QED BY <1>4, <2>1, <2>2, <2>3 DEF ListAlarms, TypeOK
  <1>5. ASSUME NEW p \in Pairs, UpdateAlarm(p) PROVE TypeOK'
    <2> DEFINE u == Url(script.config, p)
    <2>1. Turn(p) /\ u \in script.known /\ Settled(p, u)
          /\ UNCHANGED <<file, edits, pasted, rerun>>
      BY <1>5 DEF UpdateAlarm
    <2>2. u \in Uuids BY <2>1, ScriptFields
    <2>3. AlarmFor(p) \in Alarm BY <2>1, TurnFacts
    <2>4. alarms' = alarms \/ alarms' = [alarms EXCEPT ![u] = AlarmFor(p)]
      BY <1>5 DEF UpdateAlarm
    <2>5. alarms' \in [Uuids -> Alarm \cup {None}] BY <2>3, <2>4 DEF TypeOK
    <2> HIDE DEF u
    <2> QED BY <2>1, <2>2, <2>5, SettledType
  <1>6. ASSUME NEW p \in Pairs, CreateAlarm(p) PROVE TypeOK'
    <2>1. Turn(p) /\ FreshUuid \in Uuids /\ Settled(p, FreshUuid)
          /\ UNCHANGED <<file, edits, pasted, rerun>>
      BY <1>6, FreshUuidIsFresh DEF CreateAlarm
    <2>2. AlarmFor(p) \in Alarm BY <2>1, TurnFacts
    <2>3. alarms' = alarms \/ alarms' = [alarms EXCEPT ![FreshUuid] = AlarmFor(p)]
      BY <1>6 DEF CreateAlarm
    <2>4. alarms' \in [Uuids -> Alarm \cup {None}] BY <2>2, <2>3 DEF TypeOK
    <2> QED BY <2>1, <2>4, SettledType
  <1>7. CASE FinishAlarms
    <2>1. file \in File /\ Patched(file) \in File BY PatchedType DEF TypeOK
    <2>2. file' \in File BY <1>7, <2>1 DEF FinishAlarms, FinalConfig
    <2> QED BY <1>7, <2>2, IdleType DEF FinishAlarms, TypeOK, Idle
  <1>8. CASE Abort
    BY <1>8, IdleType DEF Abort, TypeOK, Idle
  <1> QED BY <1>1, <1>2, <1>3, <1>4, <1>5, <1>6, <1>7, <1>8 DEF Scripts

\* A field of a door's block changes, and nothing else of the file.
LEMMA FileChange ==
    ASSUME TypeOK, NEW d \in Doors, NEW b \in Block \cup {None},
           file' = [file EXCEPT ![d] = b]
    PROVE  file' \in File
  BY DEF TypeOK, File

\* One URL of one block changes.
LEMMA UrlChange ==
    ASSUME TypeOK, NEW p \in Pairs, NEW u \in Uuids, file[p[1]] # None,
           file' = [file EXCEPT ![p[1]].url[p[2]] = u]
    PROVE  file' \in File
  <1>1. p[1] \in Doors /\ p[2] \in Types BY DEF Pairs
  <1>2. file[p[1]] \in Block BY <1>1 DEF TypeOK, File
  <1>3. file' = [file EXCEPT ![p[1]] =
                    [file[p[1]] EXCEPT !.url = [file[p[1]].url EXCEPT ![p[2]] = u]]]
    BY Zenon
  <1>4. [file[p[1]] EXCEPT !.url = [file[p[1]].url EXCEPT ![p[2]] = u]] \in Block
    BY <1>1, <1>2 DEF Block
  <1> QED BY <1>1, <1>3, <1>4, FileChange DEF TypeOK, File

\* One more edit is within the bound.
LEMMA EditType ==
    ASSUME BootstrapAssumption, TypeOK, Edit, file' \in File,
           alarms' \in [Uuids -> Alarm \cup {None}], pasted' \in BOOLEAN
    PROVE  TypeOK'
  <1>1. MaxEdits \in Nat /\ edits \in 0 .. MaxEdits BY DEF TypeOK, BootstrapAssumption
  <1>2. edits' = edits + 1 /\ edits < MaxEdits BY DEF Edit
  <1>3. edits' \in 0 .. MaxEdits BY <1>1, <1>2
  <1> QED BY <1>3 DEF TypeOK, Edit

\* The operator's steps keep the types.
LEMMA OperatorType ==
    ASSUME BootstrapAssumption, TypeOK, Operator
    PROVE  TypeOK'
  <1>0. alarms \in [Uuids -> Alarm \cup {None}] /\ pasted \in BOOLEAN BY DEF TypeOK
  <1>1. ASSUME NEW d \in Doors, EditDoor(d) PROVE TypeOK'
    <2>1. [name |-> UnifiName[d], grace |-> None, url |-> NoUrls] \in Block
      BY DEF BootstrapAssumption, Block, NoUrls
    <2>2. file' \in File BY <1>1, <2>1 DEF EditDoor, TypeOK, File
    <2> QED BY <1>0, <1>1, <2>2, EditType DEF EditDoor
  <1>2. ASSUME NEW d \in Doors, NEW n \in Names, NEW g \in Graces \cup {None},
               EditText(d, n, g)
        PROVE  TypeOK'
    <2>1. file[d] \in Block BY <1>2 DEF EditText, TypeOK, File
    <2>2. file' = [file EXCEPT ![d] = [file[d] EXCEPT !.name = n, !.grace = g]]
      BY <1>2 DEF EditText, TypeOK, File
    <2>3. [file[d] EXCEPT !.name = n, !.grace = g] \in Block BY <2>1 DEF Block
    <2>4. file' \in File BY <2>2, <2>3, FileChange
    <2> QED BY <1>0, <1>2, <2>4, EditType DEF EditText
  <1>3. ASSUME NEW p \in Pairs, NEW u \in Uuids, EditUrl(p, u) PROVE TypeOK'
    <2>1. file' \in File BY <1>3, UrlChange DEF EditUrl
    <2>2. pasted' \in BOOLEAN BY <1>0, <1>3 DEF EditUrl
    <2> QED BY <1>0, <1>3, <2>1, <2>2, EditType DEF EditUrl
  <1>4. ASSUME NEW p \in Pairs, MakeAlarm(p) PROVE TypeOK'
    <2>1. FreshUuid \in Uuids BY <1>4, FreshUuidIsFresh DEF MakeAlarm
    <2>2. file' \in File BY <1>4, <2>1, UrlChange DEF MakeAlarm
    <2>3. file[p[1]] \in Block BY <1>4 DEF MakeAlarm, TypeOK, File, Pairs
    <2>4. [pair |-> p, name |-> file[p[1]].name] \in Alarm BY <2>3 DEF Alarm, Block
    <2>5. alarms' \in [Uuids -> Alarm \cup {None}]
      BY <1>0, <1>4, <2>1, <2>4 DEF MakeAlarm
    <2> QED BY <1>0, <1>4, <2>2, <2>5, EditType DEF MakeAlarm
  <1>5. ASSUME NEW u \in Uuids, DeleteAlarm(u) PROVE TypeOK'
    <2>1. alarms' \in [Uuids -> Alarm \cup {None}] BY <1>0, <1>5 DEF DeleteAlarm
    <2>2. file' \in File BY <1>5 DEF DeleteAlarm, TypeOK
    <2> QED BY <1>0, <1>5, <2>1, <2>2, EditType DEF DeleteAlarm
  <1> QED BY <1>1, <1>2, <1>3, <1>4, <1>5 DEF Operator

\* Every step keeps the types.
LEMMA NextType == BootstrapAssumption /\ TypeOK /\ [Next]_vars => TypeOK'
  <1>1. ASSUME TypeOK, UNCHANGED vars PROVE TypeOK'
    BY <1>1 DEF TypeOK, vars
  <1> QED BY <1>1, ScriptsType, OperatorType DEF Next

\* The config file, the alarms and the scripts' variables keep their types.
THEOREM TypeCorrect == Spec => []TypeOK
  <1>1. Init => TypeOK BY InitType, BootstrapAssumption
  <1>2. TypeOK /\ [Next]_vars => TypeOK' BY NextType, BootstrapAssumption
  <1> QED BY <1>1, <1>2, PTL DEF Spec

-----------------------------------------------------------------------------
(* A URL triggers its own alarm.  The invariant is about the URLs of the    *)
(* file, of the config a script has loaded, and of those it has settled and *)
(* not written yet: each of the three is copied into another.               *)

\* What is referred to is a URL or nothing.
LEMMA NoneIsNotLive == BootstrapAssumption => None \notin Live
  BY DEF BootstrapAssumption, Live

\* A step that leaves the alarms alone, and makes no pair refer to an alarm it did not
\* refer to.
LEMMA NoNewReferences ==
    ASSUME UrlsTriggerTheirOwnAlarm, alarms' = alarms, pasted => pasted',
           \A p \in Pairs : References(p)' \cap Live \subseteq References(p)
    PROVE  UrlsTriggerTheirOwnAlarm'
  <1>1. Live' = Live BY DEF Live
  <1> QED BY <1>1 DEF UrlsTriggerTheirOwnAlarm

\* A step that gives p the alarm of a UUID that only p refers to.
LEMMA NewAlarm ==
    ASSUME TypeOK, UrlsTriggerTheirOwnAlarm, pasted' = pasted,
           NEW p \in Pairs, NEW u \in Uuids, NEW a \in Alarm, a.pair = p,
           alarms' = [alarms EXCEPT ![u] = a],
           ~pasted => \A q \in Pairs \ {p} : u \notin References(q)',
           \A q \in Pairs : References(q)' \subseteq References(q) \cup {u}
    PROVE  UrlsTriggerTheirOwnAlarm'
  <1> SUFFICES ASSUME ~pasted, NEW q \in Pairs, NEW v \in References(q)' \cap Live'
               PROVE  alarms'[v].pair = q
    BY DEF UrlsTriggerTheirOwnAlarm
  <1>1. v \in Uuids BY DEF Live
  <1>2. CASE v = u
    <2>1. q = p BY <1>2
    <2>2. alarms'[v] = a BY <1>2 DEF TypeOK
    <2> QED BY <2>1, <2>2
  <1>3. CASE v # u
    <2>1. alarms'[v] = alarms[v] BY <1>1, <1>3 DEF TypeOK
    <2>2. v \in Live BY <1>1, <2>1 DEF Live
    <2>3. v \in References(q) BY <1>3
    <2> QED BY <2>1, <2>2, <2>3 DEF UrlsTriggerTheirOwnAlarm
  <1> QED BY <1>2, <1>3

\* The URLs of a pair that a script has settled, in terms of those of before.
LEMMA SettledReferences ==
    ASSUME TypeOK, NEW p \in Pairs, NEW u, Settled(p, u), file' = file
    PROVE  /\ \A q \in Pairs \ {p} : References(q)' = References(q)
           /\ References(p)' \subseteq References(p) \cup {u}
  <1>1. script'.config = script.config /\ script'.urls = [script.urls EXCEPT ![p] = u]
    BY DEF Settled, TypeOK
  <1>2. \A q \in Pairs \ {p} : script'.urls[q] = script.urls[q] BY <1>1, ScriptFields
  <1>3. script'.urls[p] = u BY <1>1, ScriptFields
  <1> QED BY <1>1, <1>2, <1>3 DEF References, Url

\* A script that ends, or has not started, refers to nothing.
LEMMA IdleReferences ==
    ASSUME NEW p \in Pairs
    PROVE  Url(Idle.config, p) = None /\ Idle.urls[p] = None
  BY DEF Idle, Url, Pairs

\* What a script writes: its own URLs, and for the rest what the file has already.
LEMMA PatchedUrls ==
    ASSUME TypeOK, NEW p \in Pairs
    PROVE  Url(Patched(file), p) \in {Url(file, p), script.urls[p], None}
  <1>1. p[1] \in Doors /\ p[2] \in Types /\ p = <<p[1], p[2]>> BY DEF Pairs
  <1>2. CASE file[p[1]] = None BY <1>1, <1>2 DEF Url, Patched
  <1>3. CASE file[p[1]] # None
    <2>1. file[p[1]] \in Block BY <1>1, <1>3 DEF TypeOK, File
    <2>2. Patched(file)[p[1]].url =
             [t \in Types |-> IF script.urls[<<p[1], t>>] = None
                              THEN file[p[1]].url[t] ELSE script.urls[<<p[1], t>>]]
      BY <1>1, <1>3, <2>1 DEF Patched, Block
    <2>3. Patched(file)[p[1]].url[p[2]] \in {file[p[1]].url[p[2]], script.urls[p]}
      BY <1>1, <2>2
    <2> QED BY <1>3, <2>3 DEF Url
  <1> QED BY <1>2, <1>3

\* The steps of the scripts keep the invariant.
LEMMA ScriptsUrls ==
    ASSUME BootstrapAssumption, TypeOK, UrlsTriggerTheirOwnAlarm, Scripts
    PROVE  UrlsTriggerTheirOwnAlarm'
  <1>0. None \notin Live BY NoneIsNotLive
  <1>1. ASSUME NEW write \in BOOLEAN, NEW env \in SUBSET EnvVars, StartDoors(write, env)
        PROVE  UrlsTriggerTheirOwnAlarm'
    <2>1. script'.config = Idle.config /\ script'.urls = Idle.urls
      BY <1>1 DEF StartDoors, Idle
    <2>2. \A p \in Pairs : References(p)' \subseteq {Url(file, p), None}
      BY <1>1, <2>1, IdleReferences DEF StartDoors, References, Url
    <2> QED BY <1>0, <1>1, <2>2, NoNewReferences DEF StartDoors, References
  <1>2. ASSUME NEW answer, RenderDoors(answer)
        PROVE  UrlsTriggerTheirOwnAlarm'
    <2>1. script' = Idle /\ (file' = file \/ file' = DoorBlocks(answer))
      BY <1>2 DEF RenderDoors
    <2>2. \A p \in Pairs : Url(DoorBlocks(answer), p) = None
      BY DEF Url, DoorBlocks, NoUrls, Pairs
    <2>3. \A p \in Pairs : References(p)' \subseteq {Url(file, p), None}
      BY <2>1, <2>2, IdleReferences DEF References, Url
    <2> QED BY <1>0, <1>2, <2>3, NoNewReferences DEF RenderDoors, References
  <1>3. ASSUME NEW write \in BOOLEAN, NEW dry \in BOOLEAN, NEW env \in SUBSET EnvVars,
               StartAlarms(write, dry, env)
        PROVE  UrlsTriggerTheirOwnAlarm'
    <2>1. script'.config = file /\ script'.urls = Idle.urls
      BY <1>3 DEF StartAlarms, Idle
    <2>2. \A p \in Pairs : References(p)' \subseteq {Url(file, p), None}
      BY <1>3, <2>1, IdleReferences DEF StartAlarms, References, Url
    <2> QED BY <1>0, <1>3, <2>2, NoNewReferences DEF StartAlarms, References
  <1>4. CASE ListAlarms
    <2>1. script'.config = script.config /\ script'.urls = script.urls
      BY <1>4 DEF ListAlarms, TypeOK
    <2>2. \A p \in Pairs : References(p)' = References(p)
      BY <1>4, <2>1 DEF ListAlarms, References, Url
    <2> QED BY <1>4, <2>2, NoNewReferences DEF ListAlarms
  <1>5. ASSUME NEW p \in Pairs, UpdateAlarm(p) PROVE UrlsTriggerTheirOwnAlarm'
    <2> DEFINE u == Url(script.config, p)
    <2>1. Turn(p) /\ u \in Uuids /\ Settled(p, u) /\ UNCHANGED <<file, edits, pasted, rerun>>
      BY <1>5, ScriptFields DEF UpdateAlarm
    <2>2. u \in References(p) BY DEF References
    <2>3. \A q \in Pairs : References(q)' \subseteq References(q)
      BY <2>1, <2>2, SettledReferences
    <2>4. CASE alarms' = alarms BY <2>1, <2>3, <2>4, NoNewReferences
    <2>5. CASE u \in Live /\ alarms' = [alarms EXCEPT ![u] = AlarmFor(p)]
      <3>1. AlarmFor(p) \in Alarm /\ AlarmFor(p).pair = p BY <2>1, TurnFacts DEF AlarmFor
      <3>2. ~pasted => \A q \in Pairs \ {p} : u \notin References(q)'
        BY <2>2, <2>3, <2>5 DEF UrlsTriggerTheirOwnAlarm
      <3> HIDE DEF u
      <3> QED BY <2>1, <2>3, <2>5, <3>1, <3>2, NewAlarm
    <2> QED BY <1>5, <2>4, <2>5 DEF UpdateAlarm
  <1>6. ASSUME NEW p \in Pairs, CreateAlarm(p) PROVE UrlsTriggerTheirOwnAlarm'
    <2>1. Turn(p) /\ Settled(p, FreshUuid) /\ UNCHANGED <<file, edits, pasted, rerun>>
      BY <1>6 DEF CreateAlarm
    <2>2. FreshUuid \in Uuids /\ ~InUse(FreshUuid) BY <1>6, FreshUuidIsFresh DEF CreateAlarm
    <2>3. \A q \in Pairs : FreshUuid \notin References(q) BY <2>2 DEF InUse, References
    <2>4. /\ \A q \in Pairs \ {p} : References(q)' = References(q)
          /\ References(p)' \subseteq References(p) \cup {FreshUuid}
      BY <2>1, SettledReferences
    <2>5. CASE alarms' = alarms
      <3>1. FreshUuid \notin Live BY <2>2 DEF InUse
      <3> QED BY <2>1, <2>4, <2>5, <3>1, NoNewReferences
    <2>6. CASE alarms' = [alarms EXCEPT ![FreshUuid] = AlarmFor(p)]
      <3>1. AlarmFor(p) \in Alarm /\ AlarmFor(p).pair = p BY <2>1, TurnFacts DEF AlarmFor
      <3>2. \A q \in Pairs \ {p} : FreshUuid \notin References(q)' BY <2>3, <2>4
      <3>3. \A q \in Pairs : References(q)' \subseteq References(q) \cup {FreshUuid}
        BY <2>4
      <3> QED BY <2>1, <2>2, <2>6, <3>1, <3>2, <3>3, NewAlarm
    <2> QED BY <1>6, <2>5, <2>6 DEF CreateAlarm
  <1>7. CASE FinishAlarms
    <2>1. script' = Idle /\ (file' = file \/ file' = Patched(file))
      BY <1>7 DEF FinishAlarms, FinalConfig
    <2>2. \A p \in Pairs : References(p)' \subseteq References(p) \cup {None}
      BY <2>1, PatchedUrls, IdleReferences DEF References, Url
    <2> QED BY <1>0, <1>7, <2>2, NoNewReferences DEF FinishAlarms
  <1>8. CASE Abort
    <2>1. \A p \in Pairs : References(p)' \subseteq {Url(file, p), None}
      BY <1>8, IdleReferences DEF Abort, References, Url
    <2> QED BY <1>0, <1>8, <2>1, NoNewReferences DEF Abort, References
  <1> QED BY <1>1, <1>2, <1>3, <1>4, <1>5, <1>6, <1>7, <1>8 DEF Scripts

\* The URLs of a pair whose URL in the file is replaced.
LEMMA UrlReferences ==
    ASSUME TypeOK, NEW p \in Pairs, NEW u \in Uuids, file[p[1]] # None, script' = script,
           file' = [file EXCEPT ![p[1]].url[p[2]] = u]
    PROVE  /\ \A q \in Pairs \ {p} : References(q)' = References(q)
           /\ References(p)' \subseteq References(p) \cup {u}
  <1>1. p[1] \in Doors /\ p[2] \in Types BY DEF Pairs
  <1>2. file[p[1]] \in Block BY <1>1 DEF TypeOK, File
  <1> DEFINE b == [file[p[1]] EXCEPT !.url = [file[p[1]].url EXCEPT ![p[2]] = u]]
  <1>3. file' = [file EXCEPT ![p[1]] = b]
    BY Zenon
  <1>4. b \in Block /\ b.url = [file[p[1]].url EXCEPT ![p[2]] = u]
    BY <1>1, <1>2 DEF Block
  <1>5. b.url[p[2]] = u /\ \A t \in Types \ {p[2]} : b.url[t] = file[p[1]].url[t]
    BY <1>1, <1>2, <1>4 DEF Block
  <1> HIDE DEF b
  <1>6. Url(file', p) = u
    <2>1. b # None BY <1>4, BlockAssumption
    <2>2. file'[p[1]] = b BY <1>1, <1>3 DEF TypeOK, File
    <2> QED BY <1>1, <1>5, <2>1, <2>2 DEF Url
  <1>7. ASSUME NEW q \in Pairs \ {p} PROVE Url(file', q) = Url(file, q)
    <2>1. q[1] \in Doors /\ q[2] \in Types /\ q = <<q[1], q[2]>> /\ p = <<p[1], p[2]>>
      BY DEF Pairs
    <2>2. CASE q[1] # p[1] BY <1>3, <2>1, <2>2 DEF Url, TypeOK, File
    <2>3. CASE q[1] = p[1]
      <3>1. q[2] # p[2] BY <2>1, <2>3
      <3>2. file'[q[1]] = b BY <1>1, <1>3, <2>3 DEF TypeOK, File
      <3>3. b # None BY <1>4, BlockAssumption
      <3> QED BY <1>5, <2>1, <2>3, <3>1, <3>2, <3>3 DEF Url
    <2> QED BY <2>2, <2>3
  <1>8. script'.config = script.config /\ script'.urls = script.urls OBVIOUS
  <1>9. \A q \in Pairs : Url(script.config, q)' = Url(script.config, q)
    BY <1>8 DEF Url
  <1>10. \A q \in Pairs : References(q)' =
            {Url(file', q), Url(script.config, q), script.urls[q]}
    BY <1>8, <1>9 DEF References, Url
  <1> QED BY <1>6, <1>7, <1>10 DEF References

\* The operator's steps keep the invariant.
LEMMA OperatorUrls ==
    ASSUME BootstrapAssumption, TypeOK, UrlsTriggerTheirOwnAlarm, Operator
    PROVE  UrlsTriggerTheirOwnAlarm'
  <1>0. None \notin Live BY NoneIsNotLive
  <1>1. ASSUME NEW d \in Doors, EditDoor(d) PROVE UrlsTriggerTheirOwnAlarm'
    <2>1. \A p \in Pairs : Url(file', p) \in {Url(file, p), None}
      BY <1>1 DEF EditDoor, Url, NoUrls, Pairs, TypeOK, File
    <2>2. \A p \in Pairs : References(p)' \subseteq References(p) \cup {None}
      BY <1>1, <2>1 DEF EditDoor, Edit, References, Url
    <2> QED BY <1>0, <1>1, <2>2, NoNewReferences DEF EditDoor
  <1>2. ASSUME NEW d \in Doors, NEW n \in Names, NEW g \in Graces \cup {None},
               EditText(d, n, g)
        PROVE  UrlsTriggerTheirOwnAlarm'
    <2>1. file[d] \in Block BY <1>2 DEF EditText, TypeOK, File
    <2>2. file' = [file EXCEPT ![d] = [file[d] EXCEPT !.name = n, !.grace = g]]
      BY <1>2 DEF EditText, TypeOK, File
    <2>3. [file[d] EXCEPT !.name = n, !.grace = g].url = file[d].url
      BY <2>1 DEF Block
    <2>4. [file[d] EXCEPT !.name = n, !.grace = g] # None /\ file[d] # None
      <3>1. [file[d] EXCEPT !.name = n, !.grace = g] \in Block BY <2>1 DEF Block
      <3> QED BY <2>1, <3>1, BlockAssumption
    <2>5. ASSUME NEW p \in Pairs PROVE Url(file', p) = Url(file, p)
      <3> DEFINE b == [file[d] EXCEPT !.name = n, !.grace = g]
      <3>1. file \in [Doors -> Block \cup {None}] /\ p[1] \in Doors
        BY DEF TypeOK, File, Pairs
      <3>2. file' = [file EXCEPT ![d] = b] /\ b.url = file[d].url /\ b # None
        BY <2>2, <2>3, <2>4
      <3> HIDE DEF b
      <3>3. CASE p[1] = d BY <2>4, <3>1, <3>2, <3>3 DEF Url
      <3>4. CASE p[1] # d BY <3>1, <3>2, <3>4 DEF Url
      <3> QED BY <3>3, <3>4
    <2>6. \A p \in Pairs : References(p)' = References(p)
      BY <1>2, <2>5 DEF EditText, Edit, References, Url
    <2> QED BY <1>2, <2>6, NoNewReferences DEF EditText
  <1>3. ASSUME NEW p \in Pairs, NEW u \in Uuids, EditUrl(p, u)
        PROVE  UrlsTriggerTheirOwnAlarm'
    <2>1. /\ \A q \in Pairs \ {p} : References(q)' = References(q)
          /\ References(p)' \subseteq References(p) \cup {u}
      BY <1>3, UrlReferences DEF EditUrl, Edit
    <2>2. ~pasted' => ~pasted /\ (u \in Live => alarms[u].pair = p)
      BY <1>3 DEF EditUrl
    <2>3. alarms' = alarms /\ Live' = Live BY <1>3 DEF EditUrl, Live
    <2> QED BY <2>1, <2>2, <2>3 DEF UrlsTriggerTheirOwnAlarm
  <1>4. ASSUME NEW p \in Pairs, MakeAlarm(p) PROVE UrlsTriggerTheirOwnAlarm'
    <2>1. FreshUuid \in Uuids /\ ~InUse(FreshUuid) BY <1>4, FreshUuidIsFresh DEF MakeAlarm
    <2>2. /\ \A q \in Pairs \ {p} : References(q)' = References(q)
          /\ References(p)' \subseteq References(p) \cup {FreshUuid}
      BY <1>4, <2>1, UrlReferences DEF MakeAlarm, Edit
    <2>3. \A q \in Pairs : FreshUuid \notin References(q) BY <2>1 DEF InUse, References
    <2>4. file[p[1]] \in Block BY <1>4 DEF MakeAlarm, TypeOK, File, Pairs
    <2> DEFINE a == [pair |-> p, name |-> file[p[1]].name]
    <2>5. a \in Alarm /\ a.pair = p BY <2>4 DEF Alarm, Block
    <2>6. alarms' = [alarms EXCEPT ![FreshUuid] = a] /\ pasted' = pasted
      BY <1>4 DEF MakeAlarm
    <2> HIDE DEF a
    <2>7. \A q \in Pairs \ {p} : FreshUuid \notin References(q)' BY <2>2, <2>3
    <2>8. \A q \in Pairs : References(q)' \subseteq References(q) \cup {FreshUuid}
      BY <2>2
    <2> QED BY <2>1, <2>5, <2>6, <2>7, <2>8, NewAlarm
  <1>5. ASSUME NEW u \in Uuids, DeleteAlarm(u) PROVE UrlsTriggerTheirOwnAlarm'
    <2>1. Live' \subseteq Live /\ \A v \in Live' : alarms'[v] = alarms[v]
      BY <1>5 DEF DeleteAlarm, Live, TypeOK
    <2>2. \A q \in Pairs : References(q)' = References(q)
      BY <1>5 DEF DeleteAlarm, Edit, References, Url
    <2> QED BY <1>5, <2>1, <2>2 DEF DeleteAlarm, UrlsTriggerTheirOwnAlarm
  <1> QED BY <1>1, <1>2, <1>3, <1>4, <1>5 DEF Operator

\* At first no alarm exists, so no URL triggers a wrong one.
LEMMA InitUrls == Init => UrlsTriggerTheirOwnAlarm
  BY DEF Init, UrlsTriggerTheirOwnAlarm, Live

\* Whatever is interrupted, deleted, copied or shared, a URL that the watcher may be
\* given triggers the alarm of its own door and type, or none, as long as nobody gives
\* a door the URL of another one's alarm.
THEOREM UrlsAreRight == Spec => []UrlsTriggerTheirOwnAlarm
  <1> DEFINE BootInv == TypeOK /\ UrlsTriggerTheirOwnAlarm
  <1>1. Init => BootInv BY InitType, InitUrls, BootstrapAssumption
  <1>2. BootInv /\ [Next]_vars => BootInv'
    <2> SUFFICES ASSUME BootInv, [Next]_vars PROVE BootInv' OBVIOUS
    <2>1. TypeOK' BY NextType, BootstrapAssumption
    <2>2. CASE UNCHANGED vars
      <3>1. \A p \in Pairs : References(p)' = References(p)
        BY <2>2 DEF vars, References, Url
      <3> QED BY <2>1, <2>2, <3>1, NoNewReferences DEF vars
    <2> QED BY <2>1, <2>2, ScriptsUrls, OperatorUrls, BootstrapAssumption DEF Next
  <1>3. BootInv => UrlsTriggerTheirOwnAlarm OBVIOUS
  <1> QED BY <1>1, <1>2, <1>3, PTL DEF Spec

-----------------------------------------------------------------------------
(* What a script may write.                                                 *)

\* Only bootstrap_protect_alarms.py has a dry run.
DryIsAlarms == script.at = "listing doors" => ~script.dry

\* So a script that lists doors never has dry set.
LEMMA DryIsAlarmsInvariant == Spec => [](TypeOK /\ DryIsAlarms)
  <1> DEFINE DryInv == TypeOK /\ DryIsAlarms
  <1>1. Init => DryInv
    BY InitType, BootstrapAssumption DEF Init, DryIsAlarms, Idle
  <1>2. DryInv /\ [Next]_vars => DryInv'
    <2> SUFFICES ASSUME DryInv, [Next]_vars PROVE DryIsAlarms'
      BY NextType, BootstrapAssumption
    <2>1. CASE Operator
      BY <2>1 DEF Operator, EditDoor, EditText, EditUrl, MakeAlarm, DeleteAlarm, Edit, DryIsAlarms
    <2>2. ASSUME NEW p \in Pairs, UpdateAlarm(p) \/ CreateAlarm(p) PROVE DryIsAlarms'
      <3>1. script.at = "upserting" /\ \E u : Settled(p, u)
        BY <2>2 DEF UpdateAlarm, CreateAlarm, Turn
      <3>2. script'.at = "upserting" BY <3>1 DEF Settled, TypeOK
      <3> QED BY <3>2 DEF DryIsAlarms
    <2>3. CASE Scripts
      <3>1. ASSUME NEW write \in BOOLEAN, NEW env, StartDoors(write, env) PROVE DryIsAlarms'
        BY <3>1 DEF StartDoors, Idle, DryIsAlarms
      <3>2. ASSUME NEW write \in BOOLEAN, NEW dry \in BOOLEAN, NEW env,
                   StartAlarms(write, dry, env)
            PROVE  DryIsAlarms'
        BY <3>2 DEF StartAlarms, Idle, DryIsAlarms
      <3>3. CASE ListAlarms BY <3>3 DEF ListAlarms, TypeOK, DryIsAlarms
      <3>4. ASSUME script' = Idle PROVE DryIsAlarms' BY <3>4 DEF Idle, DryIsAlarms
      <3> QED BY <2>2, <2>3, <3>1, <3>2, <3>3, <3>4
              DEF Scripts, RenderDoors, FinishAlarms, Abort
    <2>4. CASE UNCHANGED vars BY <2>4 DEF vars, DryIsAlarms
    <2> QED BY <2>1, <2>3, <2>4 DEF Next
  <1> QED BY <1>1, <1>2, PTL DEF Spec

\* A dry run changes neither Protect nor the file, whatever happens meanwhile.
THEOREM DryRunsAreHarmless == Spec => DryRunsTouchNothing
  <1>1. TypeOK /\ DryIsAlarms /\ [Next]_vars
          => [script.dry /\ edits' = edits => UNCHANGED <<file, alarms>>]_vars
    <2> SUFFICES ASSUME TypeOK, DryIsAlarms, Next, script.dry, edits' = edits
                 PROVE  UNCHANGED <<file, alarms>>
      OBVIOUS
    <2>1. ~Operator
      <3>1. edits \in 0 .. MaxEdits BY DEF TypeOK
      <3>2. edits \in Int BY <3>1
      <3>3. edits' # edits + 1 BY <3>2
      <3> QED BY <3>3 DEF Operator, EditDoor, EditText, EditUrl, MakeAlarm, DeleteAlarm, Edit
    <2> QED BY <2>1 DEF Next, Scripts, StartDoors, RenderDoors, StartAlarms, ListAlarms,
                        UpdateAlarm, CreateAlarm, FinishAlarms, Abort, DryIsAlarms
  <1> QED BY <1>1, DryIsAlarmsInvariant, PTL DEF Spec, DryRunsTouchNothing

\* Patching keeps the doors, their names and their grace periods, and gives a URL to
\* every pair that has one.
LEMMA PatchedKeeps ==
    ASSUME TypeOK, NEW d \in Doors
    PROVE  /\ Patched(file)[d] = None <=> file[d] = None
           /\ file[d] # None =>
                /\ Patched(file)[d].name = file[d].name
                /\ Patched(file)[d].grace = file[d].grace
                /\ \A t \in Types : Patched(file)[d].url[t] =
                     IF script.urls[<<d, t>>] = None THEN file[d].url[t]
                     ELSE script.urls[<<d, t>>]
  <1>1. CASE file[d] = None BY <1>1 DEF Patched
  <1>2. CASE file[d] # None
    <2>1. file[d] \in Block BY <1>2 DEF TypeOK, File
    <2> DEFINE f == [t \in Types |-> IF script.urls[<<d, t>>] = None
                                     THEN file[d].url[t] ELSE script.urls[<<d, t>>]]
               b == [file[d] EXCEPT !.url = f]
    <2>2. Patched(file)[d] = b BY <1>2 DEF Patched
    <2>3. b.name = file[d].name /\ b.grace = file[d].grace /\ b.url = f BY <2>1 DEF Block
    <2>4. Patched(file)[d] # None
      <3>1. f \in [Types -> Uuids \cup {None}]
        BY <2>1, BlockFields, ScriptFields DEF Pairs
      <3>2. b \in Block BY <2>1, <3>1, BlockFields
      <3> QED BY <2>2, <3>2, BlockAssumption
    <2> QED BY <1>2, <2>2, <2>3, <2>4
  <1> QED BY <1>1, <1>2

\* bootstrap_protect_alarms.py writes URLs and nothing else, and a file that every
\* program accepts stays one, however it was edited while the script ran.
THEOREM UrlsAreAllThatIsWritten == Spec => OnlyUrlsAreWritten
  <1>1. TypeOK /\ [Next]_vars =>
          [FinishAlarms =>
             /\ \A d \in Doors :
                   /\ file'[d] = None <=> file[d] = None
                   /\ file[d] # None =>
                        file'[d].name = file[d].name /\ file'[d].grace = file[d].grace
             /\ Accepted(file) => Accepted(file')]_vars
    <2> SUFFICES ASSUME TypeOK, FinishAlarms
                 PROVE  /\ \A d \in Doors :
                             /\ file'[d] = None <=> file[d] = None
                             /\ file[d] # None => file'[d].name = file[d].name
                                                  /\ file'[d].grace = file[d].grace
                        /\ Accepted(file) => Accepted(file')
      OBVIOUS
    <2>1. file' = file \/ file' = Patched(file) BY DEF FinishAlarms, FinalConfig
    <2>2. CASE file' = file BY <2>2 DEF Accepted, PairsOf, Url
    <2>3. CASE file' = Patched(file)
      <3>1. \A p \in Pairs : p[1] \in Doors /\ p[2] \in Types /\ p = <<p[1], p[2]>>
        BY DEF Pairs
      <3>2. PairsOf(file') = PairsOf(file) BY <2>3, <3>1, PatchedKeeps DEF PairsOf
      <3>3. ASSUME NEW p \in PairsOf(file), Url(file, p) # None
            PROVE  Url(file', p) # None
        <4>1. p \in Pairs /\ file[p[1]] # None BY DEF PairsOf
        <4>2. file'[p[1]] # None
              /\ file'[p[1]].url[p[2]] = IF script.urls[<<p[1], p[2]>>] = None
                                         THEN file[p[1]].url[p[2]]
                                         ELSE script.urls[<<p[1], p[2]>>]
          BY <2>3, <3>1, <4>1, PatchedKeeps
        <4> QED BY <3>3, <4>1, <4>2 DEF Url
      <3>4. \A d \in Doors : file[d] # None => file'[d].grace = file[d].grace
        BY <2>3, PatchedKeeps
      <3>5. \A d \in Doors : file'[d] = None <=> file[d] = None BY <2>3, PatchedKeeps
      <3>6. Accepted(file) => Accepted(file') BY <3>2, <3>3, <3>4, <3>5 DEF Accepted
      <3> QED BY <2>3, <3>6, PatchedKeeps
    <2> QED BY <2>1, <2>2, <2>3
  <1> QED BY <1>1, TypeCorrect, PTL DEF Spec, OnlyUrlsAreWritten

-----------------------------------------------------------------------------
(* Running the script again.                                                *)

\* While a first run is undisturbed, what it has settled are alarms that exist.
FirstRun ==
    rerun = "first" =>
      /\ script.at \in {"listing alarms", "upserting"}
      /\ script.write /\ ~script.dry /\ script.config = file
      /\ \A p \in Pairs : script.urls[p] \in Live \cup {None}
      /\ script.at = "upserting" =>
           \A p \in PairsOf(file) \ script.todo : script.urls[p] # None

\* From then on every URL of the file is that of an alarm, and a run finds it.
LaterRuns ==
    rerun = "repetition" =>
      /\ \A p \in PairsOf(file) : Url(file, p) \in Live
      /\ script.at \in {"listing alarms", "upserting"} =>
           /\ script.config = file
           /\ \A p \in Pairs : script.urls[p] \in {None, Url(file, p)}
      /\ script.at = "upserting" => script.known = Live

RunInv == TypeOK /\ FirstRun /\ LaterRuns

\* A PATCH of an alarm, and a POST of one, as sets of UUIDs.
LEMMA LiveAfterPatch ==
    ASSUME TypeOK, NEW u \in Live, NEW a \in Alarm, alarms' = [alarms EXCEPT ![u] = a]
    PROVE  Live' = Live
  BY BlockAssumption DEF Live, TypeOK

\* A POST adds the UUID of the alarm it creates to the live ones, and no other.
LEMMA LiveAfterPost ==
    ASSUME TypeOK, NEW u \in Uuids, NEW a \in Alarm, alarms' = [alarms EXCEPT ![u] = a]
    PROVE  Live' = Live \cup {u}
  BY BlockAssumption DEF Live, TypeOK

\* A run that has settled on the URLs the file has writes the file it has read.
LEMMA PatchedSame ==
    ASSUME TypeOK, \A p \in Pairs : script.urls[p] \in {None, Url(file, p)}
    PROVE  Patched(file) = file
  <1>1. file \in [Doors -> Block \cup {None}] BY DEF TypeOK, File
  <1>2. ASSUME NEW d \in Doors, file[d] # None
        PROVE  [file[d] EXCEPT !.url =
                  [t \in Types |-> IF script.urls[<<d, t>>] = None
                                   THEN file[d].url[t] ELSE script.urls[<<d, t>>]]] = file[d]
    <2>1. file[d] \in Block BY <1>1, <1>2
    <2>2. \A t \in Types : <<d, t>> \in Pairs /\ Url(file, <<d, t>>) = file[d].url[t]
      BY <1>2 DEF Pairs, Url
    <2>3. [t \in Types |-> IF script.urls[<<d, t>>] = None
                           THEN file[d].url[t] ELSE script.urls[<<d, t>>]] = file[d].url
      <3>1. file[d].url \in [Types -> Uuids \cup {None}] BY <2>1, BlockFields
      <3>2. \A t \in Types : (IF script.urls[<<d, t>>] = None
                              THEN file[d].url[t] ELSE script.urls[<<d, t>>]) = file[d].url[t]
        BY <2>2
      <3> QED BY <3>1, <3>2
    <2>4. [file[d] EXCEPT !.url = file[d].url] = file[d] BY <2>1 DEF Block
    <2> QED BY <2>3, <2>4
  <1>3. \A d \in Doors : Patched(file)[d] = file[d] BY <1>2 DEF Patched
  <1>4. Patched(file) = [d \in Doors |-> Patched(file)[d]] BY DEF Patched
  <1> QED BY <1>1, <1>3, <1>4

\* An upsert keeps the invariant, and creates nothing in a repetition.
LEMMA UpsertRun ==
    ASSUME RunInv, NEW p \in Pairs, UpdateAlarm(p) \/ CreateAlarm(p)
    PROVE  FirstRun' /\ LaterRuns' /\ (rerun = "repetition" => Live' = Live)
  <1> DEFINE u == Url(script.config, p)
  <1>0. TypeOK BY DEF RunInv
  <1>1. Turn(p) /\ UNCHANGED <<file, edits, pasted, rerun>> BY DEF UpdateAlarm, CreateAlarm
  <1>2. AlarmFor(p) \in Alarm BY <1>0, <1>1, TurnFacts
  <1>3. script.at = "upserting" /\ p \in PairsOf(script.config)
    BY <1>0, <1>1 DEF Turn, TypeOK, PairsOf
  <1>4. PICK v \in Uuids :
          /\ Settled(p, v)
          /\ \/ UpdateAlarm(p) /\ v = u /\ v \in script.known
             \/ CreateAlarm(p) /\ v = FreshUuid
    BY <1>0, ScriptFields, FreshUuidIsFresh DEF UpdateAlarm, CreateAlarm
  <1>5. /\ script'.at = script.at /\ script'.write = script.write
        /\ script'.dry = script.dry /\ script'.config = script.config
        /\ script'.known = script.known /\ script'.todo = script.todo \ {p}
        /\ script'.urls = [script.urls EXCEPT ![p] = v]
    BY <1>0, <1>4 DEF Settled, TypeOK
  <1>6. \A q \in Pairs : script'.urls[q] = IF q = p THEN v ELSE script.urls[q]
    BY <1>0, <1>5, ScriptFields
  <1>7. Live \subseteq Live' /\ (~script.dry => v \in Live')
    <2>1. CASE UpdateAlarm(p) /\ v = u
      <3>1. \/ alarms' = alarms /\ script.dry
            \/ u \in Live /\ alarms' = [alarms EXCEPT ![u] = AlarmFor(p)]
        BY <2>1 DEF UpdateAlarm
      <3> HIDE DEF u
      <3>2. CASE alarms' = alarms /\ script.dry BY <3>2 DEF Live
      <3>3. CASE u \in Live /\ alarms' = [alarms EXCEPT ![u] = AlarmFor(p)]
        BY <1>0, <1>2, <2>1, <3>3, LiveAfterPatch
      <3> QED BY <3>1, <3>2, <3>3
    <2>2. CASE CreateAlarm(p) /\ v = FreshUuid
      <3>1. alarms' = IF script.dry THEN alarms ELSE [alarms EXCEPT ![v] = AlarmFor(p)]
        BY <2>2 DEF CreateAlarm
      <3>2. CASE script.dry BY <3>1, <3>2 DEF Live
      <3>3. CASE ~script.dry BY <1>0, <1>2, <3>1, <3>3, LiveAfterPost
      <3> QED BY <3>2, <3>3
    <2> QED BY <1>4, <2>1, <2>2
  <1>8. FirstRun'
    <2> SUFFICES ASSUME rerun' = "first"
                 PROVE  /\ script'.at \in {"listing alarms", "upserting"}
                        /\ script'.write /\ ~script'.dry /\ script'.config = file'
                        /\ \A q \in Pairs : script'.urls[q] \in Live' \cup {None}
                        /\ script'.at = "upserting" =>
                             \A q \in PairsOf(file') \ script'.todo : script'.urls[q] # None
      BY DEF FirstRun
    <2>1. rerun = "first" /\ file' = file BY <1>1
    <2>2. /\ script.write /\ ~script.dry /\ script.config = file
          /\ \A q \in Pairs : script.urls[q] \in Live \cup {None}
          /\ \A q \in PairsOf(file) \ script.todo : script.urls[q] # None
      BY <1>3, <2>1 DEF RunInv, FirstRun
    <2>3. v # None BY BootstrapAssumption DEF BootstrapAssumption
    <2>4. PairsOf(file') = PairsOf(file) /\ PairsOf(file) \subseteq Pairs BY <2>1 DEF PairsOf
    <2>5. \A q \in Pairs : script'.urls[q] \in Live' \cup {None} BY <1>6, <1>7, <2>2
    <2> QED BY <1>3, <1>5, <1>6, <2>1, <2>2, <2>3, <2>4, <2>5
  <1>9. LaterRuns' /\ (rerun = "repetition" => Live' = Live)
    <2> SUFFICES ASSUME rerun = "repetition"
                 PROVE  Live' = Live /\ LaterRuns'
      BY <1>1 DEF LaterRuns
    <2>1. /\ \A q \in PairsOf(file) : Url(file, q) \in Live
          /\ script.config = file /\ script.known = Live
          /\ \A q \in Pairs : script.urls[q] \in {None, Url(file, q)}
      BY <1>3 DEF RunInv, LaterRuns
    <2>2. u \in script.known BY <1>3, <2>1
    <2>3. UpdateAlarm(p) /\ v = u BY <1>4, <2>2 DEF CreateAlarm
    <2>4. Live' = Live
      <3>1. \/ alarms' = alarms
            \/ u \in Live /\ alarms' = [alarms EXCEPT ![u] = AlarmFor(p)]
        BY <2>3 DEF UpdateAlarm
      <3> HIDE DEF u
      <3>2. CASE alarms' = alarms BY <3>2 DEF Live
      <3>3. CASE u \in Live /\ alarms' = [alarms EXCEPT ![u] = AlarmFor(p)]
        BY <1>0, <1>2, <3>3, LiveAfterPatch
      <3> QED BY <3>1, <3>2, <3>3
    <2>5. file' = file /\ PairsOf(file') = PairsOf(file)
          /\ \A q \in Pairs : Url(file', q) = Url(file, q)
      BY <1>1 DEF PairsOf, Url
    <2>6. PairsOf(file) \subseteq Pairs BY DEF PairsOf
    <2>7. \A q \in Pairs : script'.urls[q] \in {None, Url(file', q)}
      BY <1>6, <2>1, <2>3, <2>5
    <2> HIDE DEF u
    <2> QED BY <1>5, <2>1, <2>4, <2>5, <2>6, <2>7 DEF LaterRuns
  <1> QED BY <1>8, <1>9

\* The invariant about repeated runs holds at first, when no run is known.
LEMMA InitRun == Init => RunInv
  BY InitType, BootstrapAssumption DEF Init, RunInv, FirstRun, LaterRuns

\* Every step keeps the invariant, and one that stays in a repetition changes nothing.
LEMMA NextRun ==
    ASSUME RunInv, Next
    PROVE  /\ FirstRun' /\ LaterRuns'
           /\ rerun = "repetition" /\ rerun' = "repetition" => Live' = Live /\ file' = file
  <1> DEFINE Goal == /\ FirstRun' /\ LaterRuns'
                     /\ rerun = "repetition" /\ rerun' = "repetition"
                          => Live' = Live /\ file' = file
  <1>0. TypeOK /\ FirstRun /\ LaterRuns BY DEF RunInv
  <1>1. CASE Operator
    <2>1. rerun' = "unknown"
      BY <1>1 DEF Operator, EditDoor, EditText, EditUrl, MakeAlarm, DeleteAlarm, Edit
    <2> QED BY <2>1 DEF FirstRun, LaterRuns
  <1>2. ASSUME NEW write \in BOOLEAN, NEW env, StartDoors(write, env) PROVE Goal
    <2>1. /\ script.at = "idle" /\ script'.at = "listing doors"
          /\ UNCHANGED <<file, alarms, rerun>>
      BY <1>2 DEF StartDoors, Idle
    <2>2. Live' = Live /\ PairsOf(file') = PairsOf(file)
          /\ \A q \in Pairs : Url(file', q) = Url(file, q)
      BY <2>1 DEF Live, PairsOf, Url
    <2>3. FirstRun' BY <1>0, <2>1 DEF FirstRun
    <2>4. LaterRuns' BY <1>0, <2>1, <2>2 DEF LaterRuns, PairsOf
    <2> QED BY <2>1, <2>2, <2>3, <2>4
  <1>3. ASSUME NEW answer, RenderDoors(answer) PROVE Goal
    <2>1. script.at = "listing doors" /\ script' = Idle /\ alarms' = alarms
      BY <1>3 DEF RenderDoors
    <2>2. rerun # "first" BY <1>0, <2>1 DEF FirstRun
    <2>3. CASE rerun' = "unknown" BY <2>3 DEF FirstRun, LaterRuns
    <2>4. CASE rerun' = rerun /\ file' = file
      <3>1. FirstRun' BY <2>2, <2>4 DEF FirstRun
      <3>2. Live' = Live /\ PairsOf(file') = PairsOf(file)
            /\ \A q \in Pairs : Url(file', q) = Url(file, q)
        BY <2>1, <2>4 DEF Live, PairsOf, Url
      <3>3. LaterRuns' BY <1>0, <2>1, <2>4, <3>2 DEF LaterRuns, Idle, PairsOf
      <3> QED BY <2>4, <3>1, <3>2, <3>3
    <2> QED BY <1>3, <2>3, <2>4 DEF RenderDoors
  <1>4. ASSUME NEW write \in BOOLEAN, NEW dry \in BOOLEAN, NEW env,
               StartAlarms(write, dry, env)
        PROVE  Goal
    <2>1. /\ script.at = "idle" /\ script'.at = "listing alarms" /\ script'.config = file
          /\ script'.write = write /\ script'.dry = dry /\ script'.urls = Idle.urls
          /\ UNCHANGED <<file, alarms>>
          /\ rerun' = IF rerun # "repetition" /\ write /\ ~dry THEN "first" ELSE rerun
      BY <1>4 DEF StartAlarms, Idle
    <2>2. rerun # "first" BY <1>0, <2>1 DEF FirstRun
    <2>3. Live' = Live /\ PairsOf(file') = PairsOf(file)
          /\ \A q \in Pairs : Url(file', q) = Url(file, q)
      BY <2>1 DEF Live, PairsOf, Url
    <2>4. \A q \in Pairs : script'.urls[q] = None BY <2>1 DEF Idle
    <2>5. FirstRun' BY <2>1, <2>2, <2>4 DEF FirstRun
    <2>6. LaterRuns' BY <1>0, <2>1, <2>3, <2>4 DEF LaterRuns, PairsOf
    <2> QED BY <2>1, <2>3, <2>5, <2>6
  <1>5. CASE ListAlarms
    <2>1. /\ script.at = "listing alarms" /\ script'.at = "upserting" /\ script'.known = Live
          /\ script'.todo = PairsOf(script.config) /\ script'.config = script.config
          /\ script'.write = script.write /\ script'.dry = script.dry
          /\ script'.urls = script.urls
          /\ UNCHANGED <<file, alarms, rerun>>
      BY <1>0, <1>5 DEF ListAlarms, TypeOK
    <2>2. Live' = Live /\ PairsOf(file') = PairsOf(file)
          /\ \A q \in Pairs : Url(file', q) = Url(file, q)
      BY <2>1 DEF Live, PairsOf, Url
    <2>3. FirstRun' BY <1>0, <2>1, <2>2 DEF FirstRun
    <2>4. LaterRuns'
      BY <1>0, <2>1, <2>2 DEF LaterRuns, PairsOf
    <2> QED BY <2>1, <2>2, <2>3, <2>4
  <1>6. ASSUME NEW p \in Pairs, UpdateAlarm(p) \/ CreateAlarm(p) PROVE Goal
    <2>1. file' = file BY <1>6 DEF UpdateAlarm, CreateAlarm
    <2> QED BY <1>6, <2>1, UpsertRun
  <1>7. CASE FinishAlarms
    <2>1. /\ script.at = "upserting" /\ script.todo = {} /\ script' = Idle
          /\ alarms' = alarms
          /\ file' = IF script.write /\ ~script.dry THEN Patched(file) ELSE file
          /\ rerun' = IF rerun = "first" /\ script.write /\ ~script.dry
                      THEN "repetition" ELSE rerun
      BY <1>7 DEF FinishAlarms, FinalConfig
    <2>2. Live' = Live BY <2>1 DEF Live
    <2>3. FirstRun' BY <1>0, <2>1 DEF FirstRun
    <2>4. CASE rerun = "first"
      <3>1. /\ script.write /\ ~script.dry
            /\ \A q \in PairsOf(file) : script.urls[q] \in Live
        BY <1>0, <2>1, <2>4 DEF FirstRun, PairsOf
      <3>2. ASSUME NEW q \in PairsOf(file') PROVE Url(file', q) \in Live
        <4>1. q \in Pairs /\ q[1] \in Doors /\ q[2] \in Types /\ q = <<q[1], q[2]>>
              /\ file'[q[1]] # None
          BY DEF PairsOf, Pairs
        <4>2. file[q[1]] # None BY <1>0, <2>1, <3>1, <4>1, PatchedKeeps
        <4>3. q \in PairsOf(file) BY <4>1, <4>2 DEF PairsOf
        <4>4. script.urls[q] \in Live /\ script.urls[q] # None
          BY <3>1, <4>3, NoneIsNotLive, BootstrapAssumption
        <4>5. file'[q[1]].url[q[2]] = script.urls[q]
          BY <1>0, <2>1, <3>1, <4>1, <4>2, <4>4, PatchedKeeps
        <4> QED BY <4>1, <4>4, <4>5 DEF Url
      <3>3. LaterRuns' BY <2>1, <2>2, <3>2 DEF LaterRuns, Idle
      <3> QED BY <2>3, <2>4, <3>3
    <2>5. CASE rerun = "repetition"
      <3>1. \A q \in Pairs : script.urls[q] \in {None, Url(file, q)}
        BY <1>0, <2>1, <2>5 DEF LaterRuns
      <3>2. file' = file BY <1>0, <2>1, <3>1, PatchedSame
      <3>3. PairsOf(file') = PairsOf(file) /\ \A q \in Pairs : Url(file', q) = Url(file, q)
        BY <3>2 DEF PairsOf, Url
      <3>4. LaterRuns' BY <1>0, <2>1, <2>2, <2>5, <3>3 DEF LaterRuns, Idle, PairsOf
      <3> QED BY <2>2, <2>3, <3>2, <3>4
    <2>6. CASE rerun = "unknown" BY <2>1, <2>3, <2>6 DEF LaterRuns
    <2> QED BY <1>0, <2>4, <2>5, <2>6 DEF TypeOK
  <1>8. CASE Abort
    <2>1. script' = Idle /\ UNCHANGED <<file, alarms>>
          /\ rerun' = IF rerun = "first" THEN "unknown" ELSE rerun
      BY <1>8 DEF Abort
    <2>2. Live' = Live /\ PairsOf(file') = PairsOf(file)
          /\ \A q \in Pairs : Url(file', q) = Url(file, q)
      BY <2>1 DEF Live, PairsOf, Url
    <2>3. FirstRun' BY <2>1 DEF FirstRun
    <2>4. LaterRuns' BY <1>0, <2>1, <2>2 DEF LaterRuns, Idle, PairsOf
    <2> QED BY <2>1, <2>2, <2>3, <2>4
  <1>9. Goal
    BY <1>1, <1>2, <1>3, <1>4, <1>5, <1>6, <1>7, <1>8 DEF Next, Scripts
  <1> QED BY <1>9

\* Idempotence: once a run with --write has been completed undisturbed, no later run
\* creates an alarm or changes the file until the operator does something.
THEOREM RerunsAreIdempotent == Spec => RerunsCreateNothing
  <1>1. Init => RunInv BY InitRun
  <1>2. RunInv /\ [Next]_vars => RunInv'
    <2> SUFFICES ASSUME RunInv, [Next]_vars PROVE RunInv' OBVIOUS
    <2>1. TypeOK' BY NextType, BootstrapAssumption DEF RunInv
    <2>2. CASE UNCHANGED vars
      <3>1. Live' = Live /\ PairsOf(file') = PairsOf(file)
            /\ \A q \in Pairs : Url(file', q) = Url(file, q)
        BY <2>2 DEF vars, Live, PairsOf, Url
      <3> QED BY <2>1, <2>2, <3>1 DEF vars, RunInv, FirstRun, LaterRuns, PairsOf
    <2> QED BY <2>1, <2>2, NextRun DEF RunInv
  <1>3. RunInv /\ [Next]_vars =>
          [rerun = "repetition" /\ rerun' = "repetition" => Live' = Live /\ file' = file]_vars
    BY NextRun
  <1> QED BY <1>1, <1>2, <1>3, PTL DEF Spec, RerunsCreateNothing

-----------------------------------------------------------------------------
(* The names of a completed run.                                            *)

\* A pair that has had no turn has no URL of this run, and one that has had it keeps its
\* alarm as it was made, or loses it, or shares it with the pair that remade it.
SettledOnce ==
    /\ script.at # "upserting" => \A p \in Pairs : script.urls[p] = None
    /\ \A p \in script.todo : script.urls[p] = None

SettledKeepName ==
    script.at = "upserting" /\ ~script.dry =>
      \A p \in PairsOf(script.config) \ script.todo :
        script.urls[p] \in Live /\ (\A q \in Pairs \ {p} : script.urls[q] # script.urls[p])
          => alarms[script.urls[p]] = AlarmFor(p)

NameInv == TypeOK /\ SettledOnce /\ SettledKeepName

\* Steps that leave the script alone name no live alarm of an UUID in use anew.
LEMMA OthersKeepNames ==
    ASSUME NameInv, UNCHANGED script,
           \A u \in Uuids : InUse(u) => alarms'[u] \in {alarms[u], None}
    PROVE  SettledOnce' /\ SettledKeepName'
  <1>1. SettledOnce' BY DEF NameInv, SettledOnce
  <1>2. SettledKeepName'
    <2> SUFFICES ASSUME script.at = "upserting", ~script.dry,
                        NEW p \in PairsOf(script.config) \ script.todo,
                        script.urls[p] \in Live',
                        \A q \in Pairs \ {p} : script.urls[q] # script.urls[p]
                 PROVE  alarms'[script.urls[p]] = AlarmFor(p)
      BY DEF SettledKeepName, AlarmFor, PairsOf
    <2> DEFINE u == script.urls[p]
    <2>1. u \in Uuids /\ alarms'[u] # None /\ p \in Pairs BY DEF Live, PairsOf
    <2>2. InUse(u) BY <2>1 DEF InUse
    <2>3. alarms'[u] = alarms[u] BY <2>1, <2>2
    <2>4. u \in Live BY <2>1, <2>3 DEF Live
    <2> QED BY <2>3, <2>4 DEF NameInv, SettledKeepName
  <1> QED BY <1>1, <1>2

\* A turn names its own alarm, and leaves that of every other pair alone unless they
\* share it from then on.
LEMMA TurnKeepsNames ==
    ASSUME NameInv, NEW p \in Pairs, UpdateAlarm(p) \/ CreateAlarm(p)
    PROVE  SettledOnce' /\ SettledKeepName'
  <1> DEFINE u == Url(script.config, p)
  <1>0. TypeOK BY DEF NameInv
  <1>1. Turn(p) BY DEF UpdateAlarm, CreateAlarm
  <1>2. script.at = "upserting" /\ p \in script.todo BY <1>1 DEF Turn
  <1>3. PICK v \in Uuids :
          /\ Settled(p, v)
          /\ ~script.dry => alarms' = [alarms EXCEPT ![v] = AlarmFor(p)]
    BY <1>0, ScriptFields, FreshUuidIsFresh DEF UpdateAlarm, CreateAlarm
  <1>4. /\ script'.at = script.at /\ script'.dry = script.dry
        /\ script'.config = script.config /\ script'.todo = script.todo \ {p}
        /\ script'.urls = [script.urls EXCEPT ![p] = v]
    BY <1>0, <1>3 DEF Settled, TypeOK
  <1>5. /\ script.urls \in [Pairs -> Uuids \cup {None}] /\ script.todo \subseteq Pairs
        /\ alarms \in [Uuids -> Alarm \cup {None}]
    BY <1>0, ScriptFields DEF TypeOK
  <1>6. SettledOnce' BY <1>2, <1>4, <1>5 DEF NameInv, SettledOnce
  <1>7. SettledKeepName'
    <2>1. \A q : AlarmFor(q)' = AlarmFor(q) BY <1>4 DEF AlarmFor
    <2>2. PairsOf(script'.config) = PairsOf(script.config) BY <1>4 DEF PairsOf
    <2> SUFFICES ASSUME ~script.dry,
                        NEW q \in PairsOf(script.config) \ (script.todo \ {p}),
                        script'.urls[q] \in Live',
                        \A r \in Pairs \ {q} : script'.urls[r] # script'.urls[q]
                 PROVE  alarms'[script'.urls[q]] = AlarmFor(q)
      BY <1>4, <2>1, <2>2 DEF SettledKeepName
    <2>3. q \in Pairs BY DEF PairsOf
    <2>4. CASE q = p BY <1>3, <1>4, <1>5, <2>4
    <2>5. CASE q # p
      <3>1. script'.urls[q] = script.urls[q] /\ script'.urls[p] = v
        BY <1>4, <1>5, <2>3, <2>5
      <3>2. script.urls[q] # v /\ script.urls[q] \in Uuids
        BY <2>3, <2>5, <3>1 DEF Live
      <3>3. alarms'[script.urls[q]] = alarms[script.urls[q]] BY <1>3, <1>5, <3>2
      <3>4. script.urls[q] \in Live BY <3>1, <3>2, <3>3 DEF Live
      <3>5. \A r \in Pairs \ {q} : script.urls[r] # script.urls[q]
        <4> SUFFICES ASSUME NEW r \in Pairs \ {q} PROVE script.urls[r] # script.urls[q]
          OBVIOUS
        <4>1. CASE r = p
          <5>1. script.urls[p] = None BY <1>2 DEF NameInv, SettledOnce
          <5> QED BY <3>2, <4>1, <5>1, BootstrapAssumption
        <4>2. CASE r # p BY <1>4, <1>5, <3>1, <4>2
        <4> QED BY <4>1, <4>2
      <3> QED BY <1>2, <2>5, <3>1, <3>3, <3>4, <3>5 DEF NameInv, SettledKeepName
    <2> QED BY <2>4, <2>5
  <1> QED BY <1>6, <1>7

\* Every step keeps the names.
LEMMA NextKeepsNames == NameInv /\ [Next]_vars => NameInv'
  <1> SUFFICES ASSUME NameInv, [Next]_vars PROVE NameInv' OBVIOUS
  <1>0. TypeOK /\ TypeOK' BY NextType, BootstrapAssumption DEF NameInv
  <1> SUFFICES SettledOnce' /\ SettledKeepName' BY <1>0 DEF NameInv
  <1>1. ASSUME script' = Idle PROVE SettledOnce' /\ SettledKeepName'
    BY <1>1 DEF Idle, SettledOnce, SettledKeepName
  <1>2. ASSUME script'.at # "upserting", script'.urls = Idle.urls, script'.todo = {}
        PROVE  SettledOnce' /\ SettledKeepName'
    BY <1>2 DEF Idle, SettledOnce, SettledKeepName
  <1>3. CASE \E write \in BOOLEAN, env \in SUBSET EnvVars : StartDoors(write, env)
    BY <1>2, <1>3 DEF StartDoors, Idle
  <1>4. CASE \E write, dry \in BOOLEAN, env \in SUBSET EnvVars : StartAlarms(write, dry, env)
    BY <1>2, <1>4 DEF StartAlarms, Idle
  <1>5. CASE (\E answer : RenderDoors(answer)) \/ FinishAlarms \/ Abort
    BY <1>1, <1>5 DEF RenderDoors, FinishAlarms, Abort
  <1>6. CASE ListAlarms
    <2>1. /\ script.at = "listing alarms" /\ script'.at = "upserting"
          /\ script'.todo = PairsOf(script.config) /\ script'.config = script.config
          /\ script'.urls = script.urls
      BY <1>0, <1>6 DEF ListAlarms, TypeOK
    <2>2. \A p \in Pairs : script'.urls[p] = None BY <2>1 DEF NameInv, SettledOnce
    <2>3. SettledOnce' BY <2>1, <2>2 DEF SettledOnce, PairsOf
    <2>4. SettledKeepName' BY <2>1 DEF SettledKeepName, PairsOf
    <2> QED BY <2>3, <2>4
  <1>7. CASE \E p \in Pairs : UpdateAlarm(p) \/ CreateAlarm(p) BY <1>7, TurnKeepsNames
  <1>8. CASE Operator
    <2>1. UNCHANGED script
      BY <1>8 DEF Operator, EditDoor, EditText, EditUrl, MakeAlarm, DeleteAlarm, Edit
    <2>2. ASSUME NEW w \in Uuids, InUse(w) PROVE alarms'[w] \in {alarms[w], None}
      <3>1. alarms \in [Uuids -> Alarm \cup {None}] BY <1>0 DEF TypeOK
      <3>2. CASE UNCHANGED alarms BY <3>2
      <3>3. CASE \E p \in Pairs : MakeAlarm(p)
        <4>1. FreshUuid # w BY <2>2, <3>3, FreshUuidIsFresh DEF MakeAlarm
        <4> QED BY <3>1, <3>3, <4>1 DEF MakeAlarm
      <3>4. CASE \E u \in Uuids : DeleteAlarm(u) BY <3>1, <3>4 DEF DeleteAlarm
      <3> QED BY <1>8, <3>2, <3>3, <3>4 DEF Operator, EditDoor, EditText, EditUrl
    <2> QED BY <2>1, <2>2, OthersKeepNames
  <1>9. CASE UNCHANGED vars BY <1>9, OthersKeepNames DEF vars
  <1> QED BY <1>3, <1>4, <1>5, <1>6, <1>7, <1>8, <1>9 DEF Next, Scripts

\* A run of bootstrap_protect_alarms.py that completes has named its alarms after the
\* doors of the config it loaded, whatever the operator did meanwhile.
THEOREM CompletedRunsHaveNamed == Spec => CompletedRunsName
  <1>1. Init => NameInv
    BY InitType, BootstrapAssumption DEF Init, Idle, NameInv, SettledOnce, SettledKeepName
  <1>2. NameInv /\ [Next]_vars =>
          [FinishAlarms /\ ~script.dry =>
             \A p \in PairsOf(script.config) :
                script.urls[p] \in Live
                  /\ (\A q \in Pairs \ {p} : script.urls[q] # script.urls[p])
                  => alarms[script.urls[p]]
                       = [pair |-> p, name |-> script.config[p[1]].name]]_vars
    BY DEF NameInv, SettledKeepName, FinishAlarms, AlarmFor
  <1> QED BY <1>1, <1>2, NextKeepsNames, PTL DEF Spec, CompletedRunsName
=============================================================================
