---------------------------- MODULE ConfigModel ----------------------------
(***************************************************************************)
(* From a tagged Go struct to the artifacts that describe it: the struct   *)
(* tags (declarative_parse.go), the fields they define (declarative.go)    *)
(* and the data of the manifest, the configuration files and the boot file *)
(* (generator.go).                                                         *)
(*                                                                         *)
(* A struct tag is the sequence of what its commas separate: a segment has *)
(* an attribute and a value when it is a pair, and is blank or a bare word *)
(* when it has no '='.  In place of a value, `values` has as its items what *)
(* its bars separate and `validation` what its semicolons do.  Texts are   *)
(* taken without the spaces that the code trims; display texts, names,     *)
(* descriptions and groups are left out beyond what is required of them.   *)
(***************************************************************************)
EXTENDS Naturals, Sequences, SequencesExt, TLC

Error == [ok |-> FALSE]
Optional(present, x) == IF present THEN {x} ELSE {}

(* What a loop keeps: the elements of a sequence that are in a set, in order. *)
Among(s, S) == FlattenSeq([i \in DOMAIN s |-> IF s[i] \in S THEN <<s[i]>> ELSE <<>>])

(* What strconv reads of the texts that occur: Atoi, ParseFloat, ParseBool. *)
Reads == [int |-> {"1", "8"},
          float |-> {"1", "8", "1.5", "NaN"},
          boolean |-> {"1", "true", "false"}]
Truth(text) == text \in {"1", "true"}

(* A typed value; a float that is not a number has no form in JSON. *)
Value(type, text) == [type |-> type, text |-> text]
EncodableValue(v) == v # Value("float", "NaN")

ConfigTypes == {"string", "int", "float", "boolean", "password", "options", "multiline_string"}
InferredType == [string |-> "string", int |-> "int", float |-> "float", bool |-> "boolean"]

-----------------------------------------------------------------------------
(***************************************************************************)
(* Tags.                                                                   *)
(***************************************************************************)

TagItems == [colon : BOOLEAN, value : STRING, display : STRING] \cup
    [colon : BOOLEAN, key : STRING, text : STRING]
TagSegments == [pair : BOOLEAN, attr : STRING, value : STRING, items : Seq(TagItems)]
StructFields == [exported : BOOLEAN, tagged : BOOLEAN, kind : STRING, tag : Seq(TagSegments)]

(* A bare word, or a value of no attribute. *)
Malformed(segment) == segment.pair # (segment.attr # "")

(* parseTagAttrs: of an attribute that occurs twice the last value counts. *)
ParseTagAttrs(tag) ==
    LET attrs == {segment.attr : segment \in {s \in ToSet(tag) : s.pair}}
    IN  [a \in attrs |-> tag[SelectLastInSeq(tag, LAMBDA s : s.pair /\ s.attr = a)]]

(* resolveFieldType; "" for its errors. *)
ResolveFieldType(kind, attrs) ==
    IF "type" \in DOMAIN attrs
    THEN IF attrs["type"].value \in ConfigTypes THEN attrs["type"].value ELSE ""
    ELSE IF kind \in DOMAIN InferredType THEN InferredType[kind] ELSE ""

(* parseValues: an option without a colon is its own display text. *)
ParseValues(items) ==
    LET options == Among(items, {o \in ToSet(items) : o.colon \/ o.value # ""})
    IN  [i \in DOMAIN options |->
            [value |-> options[i].value,
             display |-> IF options[i].colon THEN options[i].display ELSE options[i].value]]

(* parseNumber: what is no number stays a text. *)
ParseNumber(text) ==
    Value(CASE text \in Reads.int -> "int"
            [] text \in Reads.float \ Reads.int -> "float"
            [] OTHER -> "string",
          text)

BoundOf == [min |-> "minimum", minimum |-> "minimum", max |-> "maximum", maximum |-> "maximum"]

ValidationParses(items) ==
    \A item \in ToSet(items) :
        IF item.colon THEN item.key \in DOMAIN BoundOf ELSE item.key = ""

ParseValidation(items) ==
    LET bounds == Among(items, {b \in ToSet(items) : b.colon})
    IN  [name \in {BoundOf[b.key] : b \in ToSet(bounds)} |->
            ParseNumber(bounds[SelectLastInSeq(bounds, LAMBDA b : BoundOf[b.key] = name)].text)]

(* convertDefault goes by the resolved type of the field. *)
DefaultConverts(type, text) == type \in DOMAIN Reads => text \in Reads[type]

(* MUTATION: it goes by the Go type of the field. *)
ConvertByKind(kind, type, text) ==
    LET of == IF kind \in DOMAIN InferredType THEN InferredType[kind] ELSE type
    IN  Value(IF of \in DOMAIN Reads THEN of ELSE "string", text)

ConvertDefault(kind, type, text) == Value(IF type \in DOMAIN Reads THEN type ELSE "string", text)

(* parseFieldTag of an exported field with a tag. *)
FieldParses(field) ==
    LET attrs == ParseTagAttrs(field.tag)
        type == ResolveFieldType(field.kind, attrs)
        Given(a) == a \in DOMAIN attrs
    IN  /\ \A segment \in ToSet(field.tag) : ~Malformed(segment)
        /\ Given("key") /\ attrs["key"].value # ""
        /\ Given("name") /\ attrs["name"].value # ""
        /\ Given("description")
        /\ Given("optional") => attrs["optional"].value \in Reads.boolean
        /\ type # ""
        /\ Given("validation") => ValidationParses(attrs["validation"].items)
        /\ Given("default") => DefaultConverts(type, attrs["default"].value)

ParseFieldTag(field) ==
    LET attrs == ParseTagAttrs(field.tag)
        type == ResolveFieldType(field.kind, attrs)
        Given(a) == a \in DOMAIN attrs
    IN  [key |-> attrs["key"].value,
         type |-> type,
         optional |-> Given("optional") /\ Truth(attrs["optional"].value),
         values |-> IF Given("values") THEN ParseValues(attrs["values"].items) ELSE <<>>,
         validation |-> IF Given("validation") THEN ParseValidation(attrs["validation"].items) ELSE <<>>,
         default |-> IF Given("default")
                     THEN {ConvertDefault(field.kind, type, attrs["default"].value)} ELSE {}]

(* ParseConfigModel: the exported fields with a tag, in their order; one that
   does not parse fails the model.  A pointer is followed to its struct. *)
ParseConfigModel(model, kind) ==
    LET fields == Among(model.fields, {f \in ToSet(model.fields) : f.exported /\ f.tagged})
    IN  IF model.kind = "struct" /\ \A f \in ToSet(fields) : FieldParses(f)
        THEN [ok |-> TRUE, kind |-> kind,
              fields |-> [i \in DOMAIN fields |-> ParseFieldTag(fields[i])]]
        ELSE Error

ParseBootConfig(model) == ParseConfigModel(model, "boot")
ParseUserConfig(model) == ParseConfigModel(model, "user")

-----------------------------------------------------------------------------
(***************************************************************************)
(* The data of the artifacts.  The metadata's other strings are copied.    *)
(***************************************************************************)
(* Members that would be empty are left out, a default that was given is not. *)
BuildConfigFieldEntry(field) ==
    LET members == [key |-> {field.key}, type |-> {field.type}, optional |-> {field.optional},
                    default |-> field.default,
                    validation |-> Optional(field.validation # <<>>, field.validation),
                    values |-> Optional(field.values # <<>>, field.values)]
    IN  [name \in {n \in DOMAIN members : members[n] # {}} |-> CHOOSE x \in members[name] : TRUE]

ConfigFieldEntries(def) == [i \in DOMAIN def.fields |-> BuildConfigFieldEntry(def.fields[i])]

GenerateBootConfig(meta, def) ==
    [pluginId |-> meta.id,
     services |-> <<[id |-> IF meta.mainServiceID = "" THEN "main-service" ELSE meta.mainServiceID,
                     configs |-> ConfigFieldEntries(def)]>>]

GenerateUserConfig(meta, def) == [pluginId |-> meta.id, configs |-> ConfigFieldEntries(def)]

(* json.Encode fails on a default or a bound that JSON has no form for. *)
EncodableEntry(entry) ==
    /\ "default" \in DOMAIN entry => EncodableValue(entry["default"])
    /\ "validation" \in DOMAIN entry =>
        \A b \in DOMAIN entry["validation"] : EncodableValue(entry["validation"][b])

EncodableConfigs(configs) == \A entry \in ToSet(configs) : EncodableEntry(entry)

(* An entry of a service's environment is a variable's name, with what it is
   set to when a '=' follows.  BeforeEquals has the keys with one. *)
SystemEnvKeys ==
    <<"RABBITMQ_HOST", "RABBITMQ_PORT", "RABBITMQ_USER", "RABBITMQ_PASSWORD",
      "REDIS_HOST", "REDIS_PORT", "REDIS_USER", "REDIS_PASSWORD">>
SYSTEM_ENVIRONMENT_VARIABLES ==
    [i \in DOMAIN SystemEnvKeys |-> [name |-> SystemEnvKeys[i], set |-> "system"]]

BeforeEquals == "REDIS_HOST=mine" :> "REDIS_HOST" @@ "MODE=fast" :> "MODE"
PluginEntry(key) ==
    [name |-> IF key \in DOMAIN BeforeEquals THEN BeforeEquals[key] ELSE key,
     set |-> IF key \in DOMAIN BeforeEquals THEN "plugin" ELSE "no"]

(* MUTATION: the main service of the manifest's metadata is not required. *)
BootDataOfAny(meta, def) == def.kind = "boot"

BootDataGenerates(meta, def) == meta.mainServiceID # "" /\ def.kind = "boot"

GenerateBootYAMLData(meta, def) ==
    [pluginId |-> meta.id,
     mainServiceId |-> meta.mainServiceID,
     environment |-> SYSTEM_ENVIRONMENT_VARIABLES \o [i \in DOMAIN def.fields |-> PluginEntry(def.fields[i].key)]]

(* What is written of the environment: the system's entries, then those that
   do not name one of its variables. *)
BuildBootYAMLEnvironment(environment) ==
    SYSTEM_ENVIRONMENT_VARIABLES \o
    Among(environment, {e \in ToSet(environment) : e.name \notin ToSet(SystemEnvKeys)})

(* What a client has registered: the capability of a provider is named for
   its id unless it has a name, and each kind has its place. *)
CapabilityEntry(cap, role) ==
    [id |-> cap.id, role |-> role, type |-> cap.type,
     name |-> IF role = "provider" /\ cap.name = "" THEN cap.id ELSE cap.name]

GenerateManifest(meta, registered, hasBootConfig, hasUserConfig) ==
    [id |-> meta.id,
     capabilities |->
        [i \in DOMAIN registered.providers |-> CapabilityEntry(registered.providers[i], "provider")] \o
        [i \in DOMAIN registered.consumers |-> CapabilityEntry(registered.consumers[i], "consumer")],
     actions |-> registered.actions,
     configurationFiles |->
        Restrict([bootConfig |-> "config.boot.json", runtimeBoot |-> "plugin.boot.yml",
                  userConfig |-> "config.user.json"],
                 (IF hasBootConfig THEN {"bootConfig", "runtimeBoot"} ELSE {})
                 \cup (IF hasUserConfig THEN {"userConfig"} ELSE {}))]
=============================================================================
