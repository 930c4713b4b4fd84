---------------------------- MODULE Conversions ----------------------------
(***************************************************************************)
(* The conversions of WireFormat, Requests, Configuration, UserConfigStore *)
(* and ConfigModel put end to end, over bounded inputs: what one side      *)
(* writes the other side reads.  A behaviour chooses an input and converts *)
(* it, in one step.                                                        *)
(***************************************************************************)
EXTENDS Requests, UserConfigStore, ConfigModel

CONSTANTS
    PluginIDs,      \* dotted names
    UserIDs,        \* dotted names
    Names,          \* capability ids, events and action ids: dotted names
    Values,         \* values of the variables and of the string fields, "" among them
    Timeouts,       \* of the calls of Invoke, in microseconds
    Redis,          \* the environments a store of user configuration is made in
    Owners,         \* the users and plugins with a stored configuration
    Fields          \* fields of a configuration struct

ASSUME ValuesAssumption == "" \in Values

(* A dotted name has at least one segment. *)
DottedNames == Seq(Seq(STRING)) \ {<<>>}
ASSUME NamesAssumption == PluginIDs \cup UserIDs \cup Names \subseteq DottedNames

ASSUME TimeoutsAssumption == Timeouts \subseteq Int

(* Nor is an id that colons separate without a part. *)
ASSUME OwnersAssumption ==
    /\ Owners \subseteq [user : Seq(STRING) \ {<<>>}, plugin : Seq(STRING) \ {<<>>}]
    /\ Redis \subseteq [RedisVariables -> STRING]

ASSUME FieldsAssumption == Fields \subseteq StructFields

VARIABLES
    op,     \* the conversion
    arg,    \* its input
    done,
    out     \* its output, once done

vars == <<op, arg, done, out>>

(* What a client may register, each with the queue it is served from. *)
Registrations == [kind : {"provider", "event", "action"}, plugin : PluginIDs, id : Names]

QueueOf(r) ==
    CASE r.kind = "provider" -> ProviderQueueName(r.plugin, r.id)
      [] r.kind = "event" -> ConsumerQueueName(r.plugin, r.id)
      [] r.kind = "action" -> ActionQueueName(r.plugin)

(* What is published on the router exchange, each with its routing key: a
   node result has no name of its own. *)
NodeResult == Name(<<"node", "result">>)

Routes ==
    [kind : {"invoke", "dispatch"}, user : UserIDs, name : Names] \cup
    [kind : {"node_result"}, user : UserIDs, name : {NodeResult}]

KeyOf(r) ==
    CASE r.kind = "invoke" -> InvokeRoutingKey(r.user, r.name)
      [] r.kind = "dispatch" -> DispatchRoutingKey(r.user, r.name)
      [] r.kind = "node_result" -> NodeResultRoutingKey(r.user)

Environments ==
    [Variables -> Values] \cup
    {[v \in Variables |-> IF v = "RABBITMQ_PORT" THEN port ELSE "x"] : port \in {"0", "5671", "none"}}

Configured(h, n, p, t) ==
    [ZeroConfig EXCEPT !.host = h, !.port = n, !.pluginID = p, !.timeout = t]

Given == {NoConfig} \cup
    {Configured(h, n, p, t) : h \in Values, n \in {0, 5671}, p \in Values, t \in {0, 1}}

(* Messages of any shape that a field of a JSON object may have. *)
Strings == {Str(v) : v \in Values}
Absent == [type |-> "absent", value |-> ""]
Present(m) == [f \in {g \in DOMAIN m : m[g] # Absent} |-> m[f]]

Incoming ==
    {Present(m) : m \in
        [payload : {Absent, Object("floats"), Other},
         userId : Strings \cup {Absent, Null, Other},
         pluginId : Strings \cup {Absent, Other},
         msgId : {Str("id"), Absent, Other},
         taskId : Strings \cup {Absent, Null, Other},
         nodeId : Strings \cup {Absent, Null, Other},
         context : {Absent, Null, Object("floats"), Other}]}

(* The options that a call may give, in any combination. *)
MayGive(S) == {{}} \cup {{x} : x \in S}

Calls ==
    [kind : {"invoke"}, userID : MayGive(Values), taskID : MayGive(Values), slot : MayGive(Values),
     timeout : MayGive(Timeouts)] \cup
    [kind : {"dispatch"}, userID : MayGive(Values), taskID : MayGive(Values)]

(* Where the platform stores the configuration of a user for a plugin. *)
PlatformKey(prefix, owner) ==
    <<prefix>> \o owner.user \o <<"plugin">> \o owner.plugin \o <<"config">>

(* What is in Redis once it has stored the one and then the other. *)
Stored(prefix, one, other) ==
    [key \in {PlatformKey(prefix, x.owner) : x \in {one, other}} |->
        IF key = PlatformKey(prefix, other.owner) THEN other.payload ELSE one.payload]

Init ==
    /\ done = FALSE
    /\ out = <<>>
    /\ \/ op = "action" /\ arg \in [plugin : PluginIDs, user : UserIDs, action : Names]
       \/ op = "queues" /\ arg \in Registrations \X Registrations
       \/ op = "keys" /\ arg \in Routes \X Routes
       \/ op = "new" /\ arg \in [given : Given, id : Values, env : Environments]
       \/ op = "call" /\ arg \in [user : Values, call : Calls]
       \/ op = "stored" /\ arg \in [env : Redis, mine : [owner : Owners, payload : StoredPayloads],
                                    other : [owner : Owners, payload : {"object", "other"}]]
       \/ op = "field" /\ arg \in Fields
       \/ op = "answer" /\ arg \in [message : Incoming, default : Values]

Convert(o, result) ==
    /\ op = o
    /\ ~done
    /\ done' = TRUE
    /\ out' = result
    /\ UNCHANGED <<op, arg>>

(* The platform names an action's delivery, the plugin looks its id up. *)
RouteAction ==
    Convert("action", ActionIDFromRoutingKey(ActionRoutingKey(arg.plugin, arg.user, arg.action)))

NameQueues == Convert("queues", <<QueueOf(arg[1]), QueueOf(arg[2])>>)

NameRoutes == Convert("keys", <<KeyOf(arg[1]), KeyOf(arg[2])>>)

(* A client is made and invokes, with and without a task and a slot. *)
MakeClient ==
    LET client == New(arg.given, arg.id, arg.env)
        sent == IF ~client.ok THEN {} ELSE
            {BuildInvokeEnvelope(task, "id", client.userID, client.pluginID, payload, slot) :
                task \in Values, slot \in Values, payload \in Payloads}
            \cup {BuildDispatchEnvelope(task, "id", client.userID, client.pluginID, "e", payload) :
                task \in Values, payload \in Payloads}
    IN  Convert("new", [client |-> client, sent |-> {m \in sent : Encodable(m)}])

(* A client with a user of its own, or none, makes one call with options. *)
Call ==
    LET config == WithDefaults([ZeroConfig EXCEPT !.pluginID = "p", !.userID = arg.user])
    IN  Convert("call",
            IF arg.call.kind = "invoke"
            THEN PublishedInvoke(InvokeRequest(config, arg.call, "ints"), NodeResult)
            ELSE PublishedDispatch(DispatchRequest(config, arg.call, "ints"), NodeResult))

(* A program with that environment asks for the values of its user. *)
Prefix(env) == OrDefault(env["GRIFFINO_REDIS_USER_CONFIG_PREFIX"], "", "user")

ReadStored ==
    LET store == NewStore(arg.mine.owner.plugin, RedisConfigFromEnv(arg.env))
        contents == {Stored(Prefix(arg.env), arg.mine, arg.other),
                     Stored(Prefix(arg.env), arg.other, arg.mine)}
    IN  Convert("stored", [store |-> store,
            read |-> IF ~store.ok THEN {}
                     ELSE {GetValues(store, redis, arg.mine.owner.user) : redis \in contents}])

(* A struct of one field is parsed and its entry made. *)
DescribeField ==
    LET def == ParseUserConfig([kind |-> "struct", fields |-> <<arg>>])
    IN  Convert("field", IF def.ok THEN ConfigFieldEntries(def) ELSE <<>>)

(* A task node's message is decoded, and its context makes the node result,
   under the plugin's own id; the output may be anything that encodes. *)
AnswerTask ==
    LET hc == ContextFromMessage(arg.message, arg.default)
        result == BuildNodeResultEnvelope(hc.taskID, "id2", hc.userID, "self", hc.nodeID,
                                          FALSE, "empty", "reason")
    IN  Convert("answer", [context |-> hc, result |-> IF hc.ok THEN Received(result) ELSE <<>>])

Rest == done /\ UNCHANGED vars

Next == RouteAction \/ NameQueues \/ NameRoutes \/ MakeClient \/ AnswerTask
        \/ Call \/ ReadStored \/ DescribeField \/ Rest

Spec == Init /\ [][Next]_vars

-----------------------------------------------------------------------------
(* The action a user triggers is the action the plugin runs, whatever dots
   the plugin's and the user's ids have, as long as the action's id has none. *)
ActionsFindTheirHandler ==
    op = "action" /\ done /\ Len(arg.action) = 1 => <<out>> = arg.action

(* Two registrations never share a queue, of one plugin or of two, unless they
   are actions of one plugin, as long as their ids are plain: a capability id
   of one segment, an event without an underscore, a plugin id that has no
   segment "consumer". *)
Plain(r) ==
    /\ r.kind = "provider" => Len(r.id) = 1
    /\ r.kind = "event" => \A i \in DOMAIN r.id : Len(r.id[i]) = 1
    /\ \A i \in DOMAIN r.plugin : r.plugin[i] # <<"consumer">>

QueuesIdentifyRegistrations ==
    op = "queues" /\ done /\ Plain(arg[1]) /\ Plain(arg[2]) /\ out[1] = out[2] =>
        /\ arg[1].kind = arg[2].kind
        /\ arg[1].plugin = arg[2].plugin
        /\ arg[1].kind # "action" => arg[1].id = arg[2].id

(* Nothing that is published for one user has the routing key of another's,
   nor an event that of an invoke, as long as user ids have no dots; but a
   program that dispatches the event node.result sends what looks like a node
   result. *)
Undotted(r) == Len(r.user) = 1

RoutesKeepApart ==
    op = "keys" /\ done /\ Undotted(arg[1]) /\ Undotted(arg[2]) /\ out[1] = out[2] =>
        /\ arg[1].user = arg[2].user
        /\ arg[1].name = arg[2].name
        /\ "invoke" \in {arg[1].kind, arg[2].kind} => arg[1].kind = arg[2].kind

(* New makes whole clients: no zero port, timeout or exchange; and unless the
   program gives the configuration itself, the broker's address and both
   credentials come from the environment together, or none of them does. *)
ClientsAreWhole ==
    op = "new" /\ done /\ out.client.ok =>
        /\ out.client.port # 0 /\ out.client.timeout # 0
        /\ out.client.router # "" /\ out.client.plugins # ""
        /\ ~arg.given.ok =>
            {out.client.host = "", out.client.user = "", out.client.password = ""} \in {{TRUE}, {FALSE}}

(* Every client that New configures itself is understood: what it sends, with
   or without a task, decodes at the receiver, which has an id of its own or
   not, to the sender's user, plugin and task, and is no task node. *)
EnvelopesArrive ==
    op = "new" /\ done /\ out.client.ok /\ ~arg.given.ok =>
        \A m \in out.sent : \A default \in Values :
            LET hc == ContextFromMessage(Received(m), default)
            IN  /\ hc.ok
                /\ hc.pluginID = out.client.pluginID
                /\ hc.userID = out.client.userID
                /\ NullableString(hc.taskID) = m["taskId"]
                /\ hc.nodeID = ""
                /\ hc.payload \in {"empty", "floats"}

(* The node result that answers a message is itself a message that decodes,
   and to the same user, task and node, however little the message had. *)
AnswersNameTheirTask ==
    op = "answer" /\ done /\ out.context.ok =>
        LET hc == ContextFromMessage(out.result, "")
        IN  /\ hc.ok
            /\ hc.userID = out.context.userID
            /\ hc.taskID = out.context.taskID
            /\ hc.nodeID = out.context.nodeID

(* A call is for one user, wherever its message says so: the routing key, the
   envelope and the context at the receiver name the same one, the call's own
   if it gives one, even "", and the client's otherwise; its task arrives too.
   And an invoke leaves its queue when its caller gives up, neither later nor
   earlier than by the part of a millisecond that is lost. *)
RequestsAgree ==
    op = "call" /\ done =>
        LET user == OptionOr(arg.call.userID, arg.user)
            hc == ContextFromMessage(Received(out.body), "q")
        IN  /\ hc.ok
            /\ hc.userID = user
            /\ out.key[4] = <<user>>
            /\ hc.taskID = OptionOr(arg.call.taskID, "")
            /\ out.expiration = out.timer
            /\ arg.call.kind = "invoke" =>
                \A asked \in arg.call.timeout : \A ms \in out.expiration :
                    /\ asked - ms * 1000 \in -999..999
                    /\ asked >= 0 => ms * 1000 \in 0..asked

(* What the platform stores for a user and a plugin is what the plugin's store
   reads for that user, whether stored before or after another's, as long as
   user ids have no colons: an object as it is, nothing, an empty text and null
   as an empty map, never as a nil one, and anything else as an error. *)
StoredConfigsAreFound ==
    /\ op = "stored" /\ done /\ out.store.ok
    /\ arg.mine.owner # arg.other.owner
    /\ Len(arg.mine.owner.user) = 1 /\ Len(arg.other.owner.user) = 1
    => out.read = {CASE arg.mine.payload = "object" -> [ok |-> TRUE, values |-> "object"]
                      [] arg.mine.payload \in {"other", "unread"} -> NoConfig
                      [] OTHER -> [ok |-> TRUE, values |-> "empty"]}

(* What a configuration entry says of a field holds together: its default is of
   the type that the entry names, whatever the Go type of the field and the
   order of the tag's attributes, and is the last one that the tag gives. *)
JSONTypeOf(type) == IF type \in {"int", "float", "boolean"} THEN type ELSE "string"

DefaultsFitTheirType ==
    op = "field" /\ done => \A entry \in ToSet(out) :
        LET given == {i \in DOMAIN arg.tag : arg.tag[i].attr = "default"}
        IN  IF given = {} THEN "default" \notin DOMAIN entry
            ELSE entry["default"] =
                Value(JSONTypeOf(entry.type), arg.tag[CHOOSE i \in given : \A j \in given : j <= i].value)
=============================================================================
