------------------------------ MODULE Settings ------------------------------
(***************************************************************************)
(* The settings of the firmware that must survive a reboot                 *)
(* (src/firmware/storage.rs): the target temperature, the feature flags    *)
(* and the collection flag, their copies in RAM, the two records they are  *)
(* kept in, and the HTTP requests that change them                         *)
(* (src/firmware/network/http.rs).                                         *)
(*                                                                         *)
(* Both records lie in one flash sector, and the driver's Storage::write   *)
(* rewrites the sector: the record that is not being written is erased and *)
(* programmed again with the other.  A handler runs to its end without     *)
(* another task in between; a power cut may fall inside the rewriting.     *)
(***************************************************************************)
EXTENDS Integers

CONSTANTS
  Targets,        \* target temperatures POST /temperature accepts
  DefaultTarget,  \* the target of a device with no record
  Absent          \* a record without its magic number

ASSUME SettingsAssumption ==
  /\ DefaultTarget \in Targets
  /\ Absent \notin Targets

Flags == [http : BOOLEAN, prometheus : BOOLEAN, collecting : BOOLEAN]
DefaultFlags == [http |-> TRUE, prometheus |-> TRUE, collecting |-> FALSE]

ASSUME AbsentIsNoRecord == Absent \notin Flags

VARIABLES
  target,      \* TARGET_TEMP_CENTI
  features,    \* FEATURE_HTTP_ENABLED, FEATURE_PROMETHEUS_ENABLED
  collecting,  \* COLLECTION_ENABLED, which the control loop obeys
  persisted,   \* COLLECTION_ENABLED_PERSISTED
  sector,      \* the target record and the flags record in flash
  image,       \* the sector being rewritten
  handling,    \* the request being handled
  reply,       \* the status of the last answer
  saved        \* history: the records that hold what was last asked for

ram  == <<target, features, collecting, persisted>>
settingsVars == <<ram, sector, image, handling, reply, saved>>

Records == [target : Targets \cup {Absent}, flags : Flags \cup {Absent}]
Field(request) == IF request = "temperature" THEN "target" ELSE "flags"

Blank   == [target |-> Absent, flags |-> Absent]

-----------------------------------------------------------------------------
(***************************************************************************)
(* init_persistent_target and flags_init: what a record says, or the       *)
(* defaults.  main then enables collection if the flag says so.            *)
(***************************************************************************)
BootTarget(s) == IF s.target = Absent THEN DefaultTarget ELSE s.target
BootFlags(s)  == IF s.flags = Absent THEN DefaultFlags ELSE s.flags

Boot(s) ==
  /\ sector' = s
  /\ target' = BootTarget(s)
  /\ features' = [http |-> BootFlags(s).http, prometheus |-> BootFlags(s).prometheus]
  /\ persisted' = BootFlags(s).collecting
  /\ collecting' = BootFlags(s).collecting
  /\ image' = Blank
  /\ handling' = "ready"
  /\ reply' = "none"

SettingsInit ==
  /\ sector = Blank
  /\ target = DefaultTarget
  /\ features = [http |-> TRUE, prometheus |-> TRUE]
  /\ persisted = FALSE
  /\ collecting = FALSE
  /\ image = Blank
  /\ handling = "ready"
  /\ reply = "none"
  /\ saved = {}

-----------------------------------------------------------------------------
(***************************************************************************)
(* Storage::write of one record: the sector is read, the record merged in, *)
(* the sector erased.                                                      *)
(***************************************************************************)
MergeAlone(field, value) == [Blank EXCEPT ![field] = value]  \* mutant
Merge(field, value) == [sector EXCEPT ![field] = value]

Rewrite(request, value) ==
  /\ image' = Merge(Field(request), value)
  /\ sector' = Blank
  /\ handling' = request
  /\ UNCHANGED <<reply, saved>>

\* The answer to a request whose record was not written.
Failure(request) == IF request = "collection" THEN "200" ELSE "500"

\* The write fails before anything is erased.
Refused(request) ==
  /\ reply' = Failure(request)
  /\ saved' = saved \ {Field(request)}
  /\ UNCHANGED <<sector, image, handling>>

Store(request, value) == Rewrite(request, value) \/ Refused(request)

\* POST /temperature: the new target is in force before it is stored.
PostTemperature(t) ==
  /\ handling = "ready"
  /\ target' = t
  /\ Store("temperature", t)
  /\ UNCHANGED <<features, collecting, persisted>>

\* The flags record holds the features and the persisted collection state.
FlagsRecord(h, p, c) == [http |-> h, prometheus |-> p, collecting |-> c]

\* POST /config: set_features_persistent.
PostConfig(h, p) ==
  /\ handling = "ready"
  /\ features' = [http |-> h, prometheus |-> p]
  /\ Store("config", FlagsRecord(h, p, persisted))
  /\ UNCHANGED <<target, collecting, persisted>>

(***************************************************************************)
(* POST /collection: both collection flags, then the record.  A failure is *)
(* logged and the answer is 200 all the same.                              *)
(***************************************************************************)
SetLiveOnly(on) == collecting' = on /\ UNCHANGED persisted  \* mutant
SetCollection(on) == collecting' = on /\ persisted' = on

PostCollection(on) ==
  /\ handling = "ready"
  /\ SetCollection(on)
  /\ Store("collection", FlagsRecord(features.http, features.prometheus, on))
  /\ UNCHANGED <<target, features>>

\* The sector is programmed again and the request answered.
Program ==
  /\ handling # "ready"
  /\ sector' = image
  /\ saved' = saved \cup {Field(handling)}
  /\ reply' = "200"
  /\ handling' = "ready"
  /\ UNCHANGED <<ram, image>>

(***************************************************************************)
(* Programming stops short: the records are programmed in the order of     *)
(* their offsets, the target first.                                        *)
(***************************************************************************)
Partial == {Blank, [image EXCEPT !.flags = Absent], image}

\* The driver reports an error, which set_collection's caller ignores.
ProgramFailed ==
  /\ handling # "ready"
  /\ sector' \in Partial
  /\ saved' = {}
  /\ reply' = Failure(handling)
  /\ handling' = "ready"
  /\ UNCHANGED <<ram, image>>

PowerCycle ==
  /\ handling = "ready"
  /\ Boot(sector)
  /\ UNCHANGED saved

PowerCut ==
  /\ handling # "ready"
  /\ \E s \in Partial : Boot(s)
  /\ saved' = {}

SettingsNext ==
  \/ \E t \in Targets : PostTemperature(t)
  \/ \E h, p \in BOOLEAN : PostConfig(h, p)
  \/ \E on \in BOOLEAN : PostCollection(on)
  \/ Program
  \/ ProgramFailed
  \/ PowerCycle
  \/ PowerCut

SettingsSpec == SettingsInit /\ [][SettingsNext]_settingsVars

-----------------------------------------------------------------------------
\* Every variable holds a value of its type; RAM never holds an absent record.
TypeOK ==
  /\ target \in Targets
  /\ features \in [http : BOOLEAN, prometheus : BOOLEAN]
  /\ collecting \in BOOLEAN
  /\ persisted \in BOOLEAN
  /\ sector \in Records
  /\ image \in Records
  /\ handling \in {"ready", "temperature", "config", "collection"}
  /\ reply \in {"none", "200", "500"}
  /\ saved \subseteq {"target", "flags"}

(***************************************************************************)
(* What was stored with success stays stored, whichever of the other       *)
(* settings is written next to it afterwards: a power cycle now would      *)
(* bring back what is in RAM.                                              *)
(***************************************************************************)
SavedSettingsReturn ==
  handling = "ready" =>
    /\ "target" \in saved => BootTarget(sector) = target
    /\ "flags" \in saved =>
         BootFlags(sector) = [http |-> features.http,
                              prometheus |-> features.prometheus,
                              collecting |-> persisted]

(***************************************************************************)
(* The collection flag the control loop obeys and the copy that goes to    *)
(* flash with every change of the features are never different: a POST     *)
(* /config cannot undo a POST /collection at the next boot.                *)
(***************************************************************************)
CollectionFlagsAgree == collecting = persisted

(***************************************************************************)
(* What RAM holds is a setting that could have been stored, and of the     *)
(* collection flag there is one value (storage.rs 390-484, http.rs         *)
(* 580-596).                                                               *)
(***************************************************************************)
FlagsInv == TypeOK /\ CollectionFlagsAgree
=============================================================================
