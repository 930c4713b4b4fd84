----------------------------- MODULE WireFormat -----------------------------
(***************************************************************************)
(* Names and messages as the SDK writes and reads them: routing keys and   *)
(* queue names (rabbitmq.go), envelopes and their JSON (internal/transport)*)
(* and the HandlerContext made from a message (context.go).                *)
(*                                                                         *)
(* A dotted name is the sequence of its segments, and a segment is the     *)
(* sequence of its words, which underscores join: task.node_created is     *)
(* <<<<"task">>, <<"node", "created">>>>.  An empty name has one segment   *)
(* of no words, as strings.Split has it.                                   *)
(***************************************************************************)
EXTENDS Naturals, Sequences, SequencesExt

(* A name whose segments are these words. *)
Name(words) == [i \in DOMAIN words |-> <<words[i]>>]
V1 == Name(<<"v1">>)

InvokeRoutingKey(userID, capabilityType) ==
    Name(<<"invoke", "griffino", "router">>) \o userID \o capabilityType \o V1

(* MUTATION: events are routed as invokes are. *)
KeyOfInvoke(userID, event) ==
    Name(<<"invoke", "griffino", "router">>) \o userID \o event \o V1

DispatchRoutingKey(userID, event) ==
    Name(<<"dispatch", "griffino", "router">>) \o userID \o event \o V1

NodeResultRoutingKey(userID) ==
    DispatchRoutingKey(userID, Name(<<"node", "result">>))

(* The key the platform gives to a user's action, of the form that the
   comment of actionIDFromRoutingKey names. *)
ActionRoutingKey(pluginID, userID, actionID) ==
    Name(<<"action">>) \o pluginID \o userID \o actionID \o V1

(* MUTATION: the fourth segment, as if a plugin id had no dots. *)
FourthSegment(key) == IF Len(key) < 5 THEN <<>> ELSE key[4]

(* The last segment but one; "" when there are fewer than five. *)
ActionIDFromRoutingKey(key) == IF Len(key) < 5 THEN <<>> ELSE key[Len(key) - 1]

ProviderQueueName(pluginID, capabilityID) == Name(<<"plugin">>) \o pluginID \o capabilityID

(* MUTATION: a consumer's queue is named as a provider's. *)
QueueNameOfEvent(pluginID, event) == Name(<<"plugin">>) \o pluginID \o <<FlattenSeq(event)>>

(* Dots in the event become underscores: its words make one segment. *)
ConsumerQueueName(pluginID, event) ==
    Name(<<"plugin">>) \o pluginID \o Name(<<"consumer">>) \o <<FlattenSeq(event)>>

ActionQueueName(pluginID) == Name(<<"action">>) \o pluginID

-----------------------------------------------------------------------------
(***************************************************************************)
(* Messages are functions from fields to values: of a string its contents  *)
(* matter, of an object whether its numbers were decoded from JSON, which  *)
(* makes floats of integers, and whether JSON can encode it at all.        *)
(***************************************************************************)
Str(s) == [type |-> "string", value |-> s]
Null == [type |-> "null", value |-> ""]
Object(o) == [type |-> "object", value |-> o]
Other == [type |-> "other", value |-> ""]

(* A payload of the program: a nil map, an empty one, one with integers, one
   with floats, or one with a value that JSON has no form for. *)
Payloads == {"nil", "empty", "ints", "floats", "unencodable"}
Payload(p) == IF p = "nil" THEN Null ELSE Object(p)

NullableString(s) == IF s = "" THEN Null ELSE Str(s)

(* The fields every envelope has; its own come on top. *)
Envelope(taskID, msgID, userID, pluginID) ==
    [taskId |-> NullableString(taskID), msgId |-> Str(msgID),
     userId |-> Str(userID), pluginId |-> Str(pluginID)]

With(message, field, value) ==
    [f \in DOMAIN message \cup {field} |-> IF f = field THEN value ELSE message[f]]

WithUnlessEmpty(message, field, s) ==
    IF s = "" THEN message ELSE With(message, field, Str(s))

BuildInvokeEnvelope(taskID, msgID, userID, pluginID, payload, slot) ==
    WithUnlessEmpty(
        With(Envelope(taskID, msgID, userID, pluginID), "payload", Payload(payload)),
        "slot", slot)

BuildDispatchEnvelope(taskID, msgID, userID, pluginID, event, payload) ==
    With(With(Envelope(taskID, msgID, userID, pluginID), "payload", Payload(payload)),
         "event", Str(event))

BuildNodeResultEnvelope(taskID, msgID, userID, pluginID, nodeID, ok, output, failReason) ==
    WithUnlessEmpty(
        With(With(With(Envelope(taskID, msgID, userID, pluginID), "nodeId", Str(nodeID)),
                  "ok", [type |-> "boolean", value |-> IF ok THEN "true" ELSE "false"]),
             "output", Payload(output)),
        "failReason", failReason)

(* EncodeJSON fails on a value that JSON has no form for; what DecodeJSON makes
   of the rest has floats for integers. *)
Encodable(message) == \A f \in DOMAIN message : message[f] # Object("unencodable")
Decoded(value) == IF value = Object("ints") THEN Object("floats") ELSE value
Received(message) == [f \in DOMAIN message |-> Decoded(message[f])]

-----------------------------------------------------------------------------
(***************************************************************************)
(* contextFromMessage.                                                     *)
(***************************************************************************)
Has(message, field, type) == field \in DOMAIN message /\ message[field].type = type

(* MUTATION: null is not accepted where a field may be absent. *)
AbsentOrString(message, field) ==
    field \notin DOMAIN message \/ Has(message, field, "string")

(* What optionalString accepts, and what it returns then. *)
OptionalString(message, field) ==
    field \notin DOMAIN message \/ Has(message, field, "null") \/ Has(message, field, "string")

StringOrEmpty(message, field) ==
    IF Has(message, field, "string") THEN message[field].value ELSE ""

(* A message without a plugin id is for the plugin itself. *)
PluginIDOf(message, default) ==
    IF "pluginId" \in DOMAIN message THEN StringOrEmpty(message, "pluginId") ELSE default

NoContext == [ok |-> FALSE]

(* Every early return of the code is an error; a payload that is no object is
   taken for an empty one. *)
ContextFromMessage(message, default) ==
    IF /\ Has(message, "userId", "string")
       /\ PluginIDOf(message, default) # ""
       /\ Has(message, "msgId", "string")
       /\ OptionalString(message, "taskId")
       /\ OptionalString(message, "nodeId")
       /\ \/ "context" \notin DOMAIN message
          \/ message["context"].type \in {"null", "object"}
    THEN [ok |-> TRUE,
          userID |-> message["userId"].value,
          pluginID |-> PluginIDOf(message, default),
          msgID |-> message["msgId"].value,
          taskID |-> StringOrEmpty(message, "taskId"),
          nodeID |-> StringOrEmpty(message, "nodeId"),
          payload |-> IF Has(message, "payload", "object") THEN message["payload"].value ELSE "empty"]
    ELSE NoContext
=============================================================================
