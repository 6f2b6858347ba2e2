------------------------------ MODULE Bootstrap ------------------------------
(***************************************************************************)
(* Setting the watcher up: the config file, the validation every program   *)
(* applies to it (config.py), the alarms Protect holds, and the two        *)
(* scripts that relate them, scripts/bootstrap_doors.py and                *)
(* scripts/bootstrap_protect_alarms.py.                                    *)
(*                                                                         *)
(* A script suspends in each of its requests, may fail in any of them, and *)
(* may be killed; the operator edits the file and works in Protect at any  *)
(* moment.  What a script does between two requests is one step.           *)
(*                                                                         *)
(* A webhook URL is represented by its last segment, the UUID, which is    *)
(* all that bootstrap_protect_alarms.py looks at: the rest is the same for *)
(* every alarm of a host.  None is a URL that is absent.                   *)
(***************************************************************************)
EXTENDS Integers, FiniteSets

CONSTANTS
    Doors,       \* ids of the doors
    ConfigIndex, \* ConfigIndex[d]: place of d's block in the file, if it has one
    Uuids,       \* what a URL may end in
    Placeholder, \* what the example file has there
    Names,       \* names of doors
    UnifiName,   \* UnifiName[d]: the name Access knows d by
    Graces,      \* what an operator may write as a door's grace_seconds
    MaxEdits,    \* bound: how often the operator changes something
    None

Types == {"unauthorized", "held_open"}
Pairs == Doors \X Types

ASSUME BootstrapAssumption ==
    /\ Doors # {}
    /\ ConfigIndex \in [Doors -> Nat]
    /\ \A d, e \in Doors : ConfigIndex[d] = ConfigIndex[e] => d = e
    /\ Placeholder \in Uuids
    /\ UnifiName \in [Doors -> Names]
    /\ Graces \subseteq Int
    /\ MaxEdits \in Nat
    /\ None \notin Uuids
    /\ None \notin Pairs

VARIABLES
    file,    \* the config file: file[d] is the [[door]] block of d, or None
    alarms,  \* Protect's alarms: alarms[u] is the one UUID u triggers, or None
    script,  \* the script that runs, with its local variables
    edits,   \* edits so far
    pasted,  \* whether an operator gave a door the URL of another one's alarm
    rerun    \* what a run of bootstrap_protect_alarms that starts now would be

vars == <<file, alarms, script, edits, pasted, rerun>>

NoUrls == [t \in Types |-> None]

\* DoorConfig, as far as the scripts and the validation look at it.
Block == [name : Names, grace : Graces \cup {None}, url : [Types -> Uuids \cup {None}]]

\* An alarm is what make_payload says: the door and the type its text is about.
Alarm == [pair : Pairs, name : Names]

ASSUME BlockAssumption == None \notin Block /\ None \notin Alarm

File == [Doors -> Block \cup {None}]

Idle == [at |-> "idle", write |-> FALSE, dry |-> FALSE,
         config |-> [d \in Doors |-> None], known |-> {},
         todo |-> {}, urls |-> [p \in Pairs |-> None]]

\* The type of every variable.
TypeOK ==
    /\ file \in File
    /\ alarms \in [Uuids -> Alarm \cup {None}]
    /\ script \in [at : {"idle", "listing doors", "listing alarms", "upserting"},
                   write : BOOLEAN, dry : BOOLEAN, config : File,
                   known : SUBSET Uuids, todo : SUBSET Pairs,
                   urls : [Pairs -> Uuids \cup {None}]]
    /\ \A p \in script.todo : script.config[p[1]] # None
    /\ edits \in 0 .. MaxEdits
    /\ pasted \in BOOLEAN
    /\ rerun \in {"unknown", "first", "repetition"}

-----------------------------------------------------------------------------
(* config.py.                                                               *)

\* A definition named Faulty... is a variant of the one that follows it with a
\* plausible bug.  Nothing uses it: it is put in the place of the right one to see
\* that the property it should break is able to fail.

Url(config, p) == IF config[p[1]] = None THEN None ELSE config[p[1]].url[p[2]]

PairsOf(config) == {p \in Pairs : config[p[1]] # None}

\* What AppConfig's validators accept: both URLs on every door, no negative value.
Accepted(config) ==
    /\ \A p \in PairsOf(config) : Url(config, p) # None
    /\ \A d \in Doors : config[d] # None => config[d].grace \in Nat \cup {None}

\* The environment variables: those of [protect.bootstrap], and the others.  A
\* variable that is not set is an error, except in that section, which is dropped.
EnvVars == {"required", "bootstrap"}

Loads(config, env) == "required" \in env /\ Accepted(config)

-----------------------------------------------------------------------------

\* deploy/config.example.toml: doors with the same placeholder in every URL.
Example == [d \in Doors |-> [name |-> UnifiName[d], grace |-> None,
                             url |-> [t \in Types |-> Placeholder]]]

Init ==
    /\ file \in {[d \in Doors |-> None], Example}
    /\ alarms = [u \in Uuids |-> None]
    /\ script = Idle
    /\ edits = 0
    /\ pasted = FALSE
    /\ rerun = "unknown"

Live == {u \in Uuids : alarms[u] # None}

\* uuid4 yields an id nobody has used.  One that nobody refers to any more is as good
\* as that, and which one it is does not matter.
InUse(u) ==
    \/ u \in Live \cup {Placeholder}
    \/ \E p \in Pairs : u \in {Url(file, p), Url(script.config, p), script.urls[p]}

FreshUuid == CHOOSE u \in Uuids : ~InUse(u)

-----------------------------------------------------------------------------
(* bootstrap_doors.py.                                                      *)

StartDoors(write, env) ==
    /\ script.at = "idle"
    /\ Loads(file, env)
    /\ script' = [Idle EXCEPT !.at = "listing doors", !.write = write]
    /\ UNCHANGED <<file, alarms, edits, pasted, rerun>>

\* build_door_blocks for the doors that filter_doors_with_dps keeps: an id and a name.
\* Access answers with doors whose position is known, doors without, and not others.
DoorBlocks(answer) ==
    [d \in Doors |-> IF answer[d] = "position"
                     THEN [name |-> UnifiName[d], grace |-> None, url |-> NoUrls]
                     ELSE None]

\* render, once Access has answered: the doors are printed, or replace the file's.
RenderDoors(answer) ==
    /\ script.at = "listing doors"
    /\ file' = IF script.write THEN DoorBlocks(answer) ELSE file
    /\ rerun' = IF script.write THEN "unknown" ELSE rerun
    /\ script' = Idle
    /\ UNCHANGED <<alarms, edits, pasted>>

-----------------------------------------------------------------------------
(* bootstrap_protect_alarms.py.                                             *)

StartAlarms(write, dry, env) ==
    /\ script.at = "idle"
    /\ Loads(file, env)
    /\ "bootstrap" \in env
    /\ script' = [Idle EXCEPT !.at = "listing alarms", !.write = write, !.dry = dry,
                              !.config = file]
    /\ rerun' = IF rerun # "repetition" /\ write /\ ~dry THEN "first" ELSE rerun
    /\ UNCHANGED <<file, alarms, edits, pasted>>

\* login, list_users, every receiver resolved, and the alarms of this moment by UUID.
ListAlarms ==
    /\ script.at = "listing alarms"
    /\ script' = [script EXCEPT !.at = "upserting", !.known = Live,
                                !.todo = PairsOf(script.config)]
    /\ UNCHANGED <<file, alarms, edits, pasted, rerun>>

FaultyAlarmFor(p) == [pair |-> p, name |-> UnifiName[p[1]]]

\* alarm_name and alarm_body are made of the name the config gives to the door.
AlarmFor(p) == [pair |-> p, name |-> script.config[p[1]].name]

\* Doors come in the order of the file, and "unauthorized" before "held_open".
Turn(p) ==
    /\ script.at = "upserting"
    /\ p \in script.todo
    /\ \A q \in script.todo \ {p} :
          \/ ConfigIndex[p[1]] < ConfigIndex[q[1]]
          \/ p[1] = q[1] /\ p[2] = "unauthorized"

\* The UUID of p's alarm is settled; p is done.
Settled(p, u) == script' = [script EXCEPT !.todo = @ \ {p}, !.urls[p] = u]

\* The URL names an alarm that was listed: a PATCH, which fails if it is gone.
UpdateAlarm(p) ==
    LET u == Url(script.config, p)
    IN  /\ Turn(p)
        /\ u \in script.known
        /\ Settled(p, u)
        /\ \/ /\ script.dry
              /\ UNCHANGED alarms
           \/ /\ ~script.dry
              /\ u \in Live
              /\ alarms' = [alarms EXCEPT ![u] = AlarmFor(p)]
        /\ UNCHANGED <<file, edits, pasted, rerun>>

FaultyCreateAlarm(p) ==
    /\ Turn(p)
    /\ Url(script.config, p) \notin script.known
    /\ \E u \in Uuids : ~InUse(u)
    /\ Settled(p, FreshUuid)
    /\ alarms' = [alarms EXCEPT ![FreshUuid] = AlarmFor(p)]
    /\ UNCHANGED <<file, edits, pasted, rerun>>

FaultyCreateUnderItsUrl(p) ==
    LET u == Url(script.config, p)
    IN  /\ Turn(p)
        /\ u \notin script.known
        /\ Settled(p, u)
        /\ alarms' = IF script.dry THEN alarms ELSE [alarms EXCEPT ![u] = AlarmFor(p)]
        /\ UNCHANGED <<file, edits, pasted, rerun>>

\* It names none: a POST with a UUID of its own.
CreateAlarm(p) ==
    /\ Turn(p)
    /\ Url(script.config, p) \notin script.known
    /\ \E u \in Uuids : ~InUse(u)
    /\ Settled(p, FreshUuid)
    /\ alarms' = IF script.dry THEN alarms ELSE [alarms EXCEPT ![FreshUuid] = AlarmFor(p)]
    /\ UNCHANGED <<file, edits, pasted, rerun>>

FaultyPatched(config) ==
    [d \in Doors |->
        [name |-> IF config[d] = None THEN None ELSE config[d].name,
         grace |-> IF config[d] = None THEN None ELSE config[d].grace,
         url |-> [t \in Types |-> script.urls[<<d, t>>]]]]

\* The blocks of a config with the URLs of this run; a door it did not process, and
\* one that is not there, stay as they are.
Patched(config) ==
    [d \in Doors |->
        IF config[d] = None THEN None
        ELSE [config[d] EXCEPT !.url =
                 [t \in Types |-> IF script.urls[<<d, t>>] = None
                                  THEN config[d].url[t] ELSE script.urls[<<d, t>>]]]]

FaultyFinalConfig == Patched(script.config)

FaultyUnsavedType ==
    [d \in Doors |-> IF file[d] = None THEN None
                     ELSE [Patched(file)[d] EXCEPT !.url["held_open"] = file[d].url["held_open"]]]

\* update_config_urls reads the file again: it changes URLs, whatever the file has
\* become since the script loaded it.
FinalConfig == Patched(file)

\* Every pair is done.  Without --write the URLs are not kept.
FinishAlarms ==
    /\ script.at = "upserting"
    /\ script.todo = {}
    /\ file' = IF script.write /\ ~script.dry THEN FinalConfig ELSE file
    /\ rerun' = IF rerun = "first" /\ script.write /\ ~script.dry THEN "repetition" ELSE rerun
    /\ script' = Idle
    /\ UNCHANGED <<alarms, edits, pasted>>

\* A request fails, the answer to it is lost, or the script is killed.
Abort ==
    /\ script.at # "idle"
    /\ script' = Idle
    /\ rerun' = IF rerun = "first" THEN "unknown" ELSE rerun
    /\ UNCHANGED <<file, alarms, edits, pasted>>

-----------------------------------------------------------------------------
(* The operator.                                                            *)

Edit ==
    /\ edits < MaxEdits
    /\ edits' = edits + 1
    /\ rerun' = "unknown"
    /\ UNCHANGED script

\* A block is added by hand, without URLs, or taken away.
EditDoor(d) ==
    /\ Edit
    /\ file' = [file EXCEPT ![d] =
                  IF @ = None THEN [name |-> UnifiName[d], grace |-> None, url |-> NoUrls]
                  ELSE None]
    /\ UNCHANGED <<alarms, pasted>>

\* name and grace_seconds are edited: both are the operator's to choose.
EditText(d, n, g) ==
    /\ Edit
    /\ file[d] # None
    /\ file' = [file EXCEPT ![d].name = n, ![d].grace = g]
    /\ UNCHANGED <<alarms, pasted>>

\* A URL is copied from the example, from another door, from an alarm, or from a log.
EditUrl(p, u) ==
    /\ Edit
    /\ file[p[1]] # None
    /\ u = Placeholder \/ InUse(u)
    /\ file' = [file EXCEPT ![p[1]].url[p[2]] = u]
    /\ pasted' = (pasted \/ (u \in Live /\ alarms[u].pair # p))
    /\ UNCHANGED <<alarms>>

\* An alarm is created by hand in Protect, and its URL copied into the file.
MakeAlarm(p) ==
    /\ Edit
    /\ file[p[1]] # None
    /\ \E u \in Uuids : ~InUse(u)
    /\ alarms' = [alarms EXCEPT ![FreshUuid] = [pair |-> p, name |-> file[p[1]].name]]
    /\ file' = [file EXCEPT ![p[1]].url[p[2]] = FreshUuid]
    /\ UNCHANGED pasted

\* An alarm is deleted in Protect.
DeleteAlarm(u) ==
    /\ Edit
    /\ u \in Live
    /\ alarms' = [alarms EXCEPT ![u] = None]
    /\ UNCHANGED <<file, pasted>>

Scripts ==
    \/ \E write \in BOOLEAN, env \in SUBSET EnvVars : StartDoors(write, env)
    \/ \E answer \in [Doors -> {"position", "no position", "absent"}] : RenderDoors(answer)
    \/ \E write, dry \in BOOLEAN, env \in SUBSET EnvVars : StartAlarms(write, dry, env)
    \/ ListAlarms
    \/ \E p \in Pairs : UpdateAlarm(p) \/ CreateAlarm(p)
    \/ FinishAlarms
    \/ Abort

Operator ==
    \/ \E d \in Doors : EditDoor(d)
    \/ \E d \in Doors, n \in Names, g \in Graces \cup {None} : EditText(d, n, g)
    \/ \E p \in Pairs, u \in Uuids : EditUrl(p, u)
    \/ \E p \in Pairs : MakeAlarm(p)
    \/ \E u \in Uuids : DeleteAlarm(u)

Next == Scripts \/ Operator

Spec == Init /\ [][Next]_vars
-----------------------------------------------------------------------------
(* Properties.                                                              *)

References(p) == {Url(file, p), Url(script.config, p), script.urls[p]}

\* What a URL of the file, or one a script is about to write there, triggers is the
\* alarm of that door and that type, or nothing: whatever runs were cut short, alarms
\* deleted and placeholders shared, unless somebody pasted another door's URL.
UrlsTriggerTheirOwnAlarm ==
    ~pasted => \A p \in Pairs : \A u \in References(p) \cap Live : alarms[u].pair = p

\* "Idempotent": after a run with --write that was completed undisturbed, further runs,
\* with any flags and cut short or not, create no alarm and leave the file as it is.
RerunsCreateNothing ==
    [][rerun = "repetition" /\ rerun' = "repetition" => Live' = Live /\ file' = file]_vars

\* A run that completes has given every alarm of its config, pasted URLs apart, the
\* name its door had when the config was loaded.
CompletedRunsName ==
    [][FinishAlarms /\ ~script.dry =>
         \A p \in PairsOf(script.config) :
            script.urls[p] \in Live /\ (\A q \in Pairs \ {p} : script.urls[q] # script.urls[p])
              => alarms[script.urls[p]] = [pair |-> p, name |-> script.config[p[1]].name]]_vars

\* A dry run changes neither Protect nor the file.
DryRunsTouchNothing ==
    [][script.dry /\ edits' = edits => UNCHANGED <<file, alarms>>]_vars

\* bootstrap_protect_alarms.py changes nothing of the file but URLs, also when it has
\* been edited since the script loaded it, and never makes it unacceptable.
OnlyUrlsAreWritten ==
    [][FinishAlarms =>
         /\ \A d \in Doors :
               /\ file'[d] = None <=> file[d] = None
               /\ file[d] # None => file'[d].name = file[d].name /\ file'[d].grace = file[d].grace
         /\ Accepted(file) => Accepted(file')]_vars

-----------------------------------------------------------------------------
(* What the documentation says and the code does not do.                    *)

\* README.md: "Two scripts turn an empty config into a fully-populated one."  The first
\* one writes blocks without URLs, which the second refuses to load.
DoorListIsAccepted ==
    [][script.at = "listing doors" /\ edits' = edits /\ Accepted(file) => Accepted(file')]_vars
=============================================================================
