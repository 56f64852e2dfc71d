---------------------------- MODULE ConfigValues -----------------------------
(***************************************************************************)
(* The values an import is configured with, on their way from a request    *)
(* through fillDefaultValues and validateConfig to the CONFIG of the       *)
(* container, and through configToWrite and configToRead to the collection *)
(* and back: to the user, and to the container when it is restored.        *)
(* Requests about one instance follow one another here; what may come      *)
(* between their calls is the matter of ImportDeploy.                      *)
(***************************************************************************)
EXTENDS Naturals, SequencesExt

CONSTANTS
    ConfigNames,    \* names of configurations
    Values,         \* JSON values
    KindOf,         \* what kind of value each of them is
    AsPairs,        \* each with every object in a list replaced by the list of its
                    \* keys and values; what is no list stays as it is
    Null,           \* the JSON value null, Go's nil
    ImportTypes,    \* the configurations an import type may have: sequences of TypeConfs
    MaxConfigs,     \* bound: configurations in a request
    MaxWrites,      \* bound: requests that are accepted
    NoDocument

Kinds == {"null", "text", "whole", "fraction", "boolean", "list", "structure"}
Types == {"String", "Integer", "Float", "List", "Structure", "Boolean", "other"}

TypeConfs == [name : ConfigNames, type : Types, default : Values]

ASSUME ValuesAssumption ==
    /\ KindOf \in [Values -> Kinds]
    /\ Null \in Values
    /\ \A v \in Values : KindOf[v] = "null" <=> v = Null
ASSUME PairsAssumption ==
    /\ AsPairs \in [Values -> Values]
    /\ \A v \in Values : KindOf[v] # "list" => AsPairs[v] = v
    /\ \A v \in Values : KindOf[AsPairs[v]] = KindOf[v]
ASSUME TypesAssumption == ImportTypes \subseteq Seq(TypeConfs)
ASSUME WritesAssumption == MaxConfigs \in Nat /\ MaxWrites \in Nat
ASSUME NoDocumentAssumption ==
    NoDocument \notin Seq([name : ConfigNames, value : Values, valueString : Values])

VARIABLES
    type,           \* the import type's configurations, in the import repository
    document,       \* the configurations as they are stored, or NoDocument
    config,         \* the CONFIG of the container: a map from names to values
    answer,         \* the configurations in the last answer, as the user sees them
    writes,         \* how many requests were accepted
    \* history, read by no action:
    distinct,       \* whether the last accepted request named no configuration twice
    checked,        \* the import type that request was checked against
    accepted,       \* the CONFIG that request gave the container
    read            \* the two, when the answer was read by a GET: [config, type], or NoDocument

valueVars == <<type, document, config, answer, writes, distinct, checked, accepted, read>>

Requests == SeqOf([name : ConfigNames, value : Values], MaxConfigs)

-----------------------------------------------------------------------------

(***************************************************************************)
(* Checking and completing a request                                       *)
(***************************************************************************)

\* The first configuration with a name, 0 if there is none.
IndexOf(configs, name) == SelectInSeq(configs, LAMBDA c : c.name = name)

\* What the types accept of what the JSON decoder makes.  "other" is also a type whose
\* configuration has no name.
KindsOf(t) ==
    CASE t = "String"    -> {"null", "text"}
      [] t = "Integer"   -> {"null", "whole"}
      [] t = "Float"     -> {"null", "whole", "fraction"}
      [] t = "List"      -> {"null", "list"}
      [] t = "Structure" -> Kinds
      [] t = "Boolean"   -> {"null", "boolean"}
      [] t = "other"     -> {}

ValidateConfig(typeConf, value) == KindOf[value] \in KindsOf(typeConf.type)

\* One turn of the loop: the default of a configuration that is missing is appended.
FillOne(configs, typeConf) ==
    IF IndexOf(configs, typeConf.name) = 0
    THEN Append(configs, [name |-> typeConf.name, value |-> typeConf.default])
    ELSE configs

\* The loop: what there is after the turn k.
FillDefaultValues(configs, typeConfs) ==
    LET turn[k \in 0..Len(typeConfs)] ==
            IF k = 0 THEN configs ELSE FillOne(turn[k - 1], typeConfs[k])
    IN  turn[Len(typeConfs)]

\* A bug: the defaults of the import type are not validated.
AcceptedGiven(configs, typeConfs) ==
    \A k \in DOMAIN typeConfs :
        LET idx == IndexOf(configs, typeConfs[k].name)
        IN  idx > 0 => ValidateConfig(typeConfs[k], configs[idx].value)

\* None of the turns returns "config value of wrong type".
Accepted(configs, typeConfs) ==
    LET filled == FillDefaultValues(configs, typeConfs)
    IN  \A k \in DOMAIN typeConfs :
            ValidateConfig(typeConfs[k], filled[IndexOf(filled, typeConfs[k].name)].value)

\* getEnv: a later configuration of the same name overwrites an earlier one.
Config(configs) ==
    [n \in {configs[k].name : k \in DOMAIN configs} |->
        configs[SelectLastInSeq(configs, LAMBDA c : c.name = n)].value]

-----------------------------------------------------------------------------

(***************************************************************************)
(* Storing and reading                                                     *)
(***************************************************************************)

\* A bug: the string does not get into the document.
ConfigToWriteLossy(c) ==
    [name |-> c.name, valueString |-> Null,
     value |-> IF KindOf[c.value] = "structure" THEN Null ELSE c.value]

\* A structure is stored as a string of its own (Null stands for a nil ValueString).  All
\* else is left to the driver, the objects in a list among it, which become documents.
ConfigToWrite(c) ==
    IF KindOf[c.value] = "structure"
    THEN [name |-> c.name, value |-> Null, valueString |-> c.value]
    ELSE [name |-> c.name, value |-> c.value, valueString |-> Null]

\* What the driver decodes is named by what it was encoded from: it makes primitive.D of
\* the documents in a list, which it would encode as the same documents again.
ConfigToRead(c) ==
    [name |-> c.name, value |-> IF c.valueString = Null THEN c.value ELSE c.valueString]

Write(configs) == [k \in DOMAIN configs |-> ConfigToWrite(configs[k])]
Read(stored) == [k \in DOMAIN stored |-> ConfigToRead(stored[k])]

\* In JSON a primitive.D is a list of its keys and values: what getEnv and the API make of
\* configurations that come from the database.
Marshalled(configs) ==
    [k \in DOMAIN configs |-> [name |-> configs[k].name, value |-> AsPairs[configs[k].value]]]

\* ValueString is not part of the JSON document.
Encoded(stored) == [k \in DOMAIN stored |-> [name |-> stored[k].name, value |-> stored[k].value]]

-----------------------------------------------------------------------------

ValuesInit ==
    /\ type \in ImportTypes
    /\ document = NoDocument
    /\ config = <<>>
    /\ answer = <<>>
    /\ writes = 0
    /\ distinct = TRUE
    /\ checked = <<>>
    /\ accepted = <<>>
    /\ read = NoDocument

\* What CreateInstance and SetInstance have in common.
Store(configs) ==
    LET filled == FillDefaultValues(configs, type)
    IN  /\ writes < MaxWrites
        /\ Accepted(configs, type)
        /\ config' = Config(filled)
        /\ document' = Write(filled)
        /\ writes' = writes + 1
        /\ distinct' = \A j, k \in DOMAIN configs : configs[j].name = configs[k].name => j = k
        /\ checked' = type
        /\ accepted' = config'
        /\ UNCHANGED type

\* POST answers with the slice in which Mongo.CreateInstance has replaced structures by
\* what it stores: the user sees null for them.
PostConfigs ==
    /\ document = NoDocument
    /\ \E configs \in Requests : Store(configs)
    /\ answer' = Encoded(document')
    /\ UNCHANGED read

PutConfigs ==
    /\ document # NoDocument
    /\ \E configs \in Requests : Store(configs)
    /\ UNCHANGED <<answer, read>>

\* A user sends the configurations back that were the last answer.
PutBack ==
    /\ document # NoDocument
    /\ Store(answer)
    /\ UNCHANGED <<answer, read>>

\* A bug: the loop with configToRead is missing in GetInstance.
GetConfigsRaw ==
    /\ document # NoDocument
    /\ answer' = Encoded(document)
    /\ read' = [config |-> accepted, type |-> checked]
    /\ UNCHANGED <<type, document, config, writes, distinct, checked, accepted>>

GetConfigs ==
    /\ document # NoDocument
    /\ answer' = Marshalled(Read(document))
    /\ read' = [config |-> accepted, type |-> checked]
    /\ UNCHANGED <<type, document, config, writes, distinct, checked, accepted>>

\* The restoration of a missing container, with what the document says.
RestoreConfigs ==
    /\ document # NoDocument
    /\ config' = Config(Marshalled(Read(document)))
    /\ document' = Write(Read(document))
    /\ UNCHANGED <<type, answer, writes, distinct, checked, accepted, read>>

\* The import type is changed in the import repository.
EditType ==
    /\ type' \in ImportTypes
    /\ UNCHANGED <<document, config, answer, writes, distinct, checked, accepted, read>>

ValuesNext ==
    PostConfigs \/ PutConfigs \/ PutBack \/ GetConfigs \/ RestoreConfigs \/ EditType

ValuesSpec == ValuesInit /\ [][ValuesNext]_valueVars

-----------------------------------------------------------------------------

\* An import whose request names nothing twice starts with a CONFIG that has everything
\* its import type asks for, of the type it asks for: by the request or by default, at
\* first and after the document was written and read again (controller/instances.go:267).
ConfigComplete ==
    document # NoDocument /\ distinct =>
        \A k \in DOMAIN checked :
            /\ checked[k].name \in DOMAIN config
            /\ ValidateConfig(checked[k], config[checked[k].name])

\* What a CONFIG is after a way through the database.
AsRead(c) == [n \in DOMAIN c |-> AsPairs[c[n]]]

\* However often it is restored, and whatever has become of the import type meanwhile, a
\* container has the CONFIG that the last accepted request asked for, but for objects in
\* lists, which have become lists of keys and values, once; structures are what they were
\* though they go through a string, and the document stays as it is
\* (controller/instances.go:233, mongo/instances.go:195, 247).
RestoredAsAccepted ==
    [][RestoreConfigs => config' = AsRead(accepted) /\ UNCHANGED document]_valueVars

\* Who reads an instance and sends it back, to change its name, say, gives the container
\* what the last accepted request asked for when it was read, defaults and structures
\* included, again but for objects in lists, and unless the import type asks for something
\* else now.
PutBackKeeps ==
    [][PutBack /\ read # NoDocument /\ read.type = type => config' = AsRead(read.config)]_valueVars

\* README.md, STARTUP_ENSURE_DEPLOYED: the restoration recreates a missing instance, so
\* that its container has the CONFIG of the one that was lost.
RestoredAlike == [][RestoreConfigs => config' = config]_valueVars
=============================================================================
