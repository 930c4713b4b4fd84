------------------------------ MODULE Requests ------------------------------
(***************************************************************************)
(* What a call of Client.Invoke or Client.Dispatch sends (client.go and    *)
(* rabbitmq.go): the options of the call over the client's configuration,  *)
(* and of the request its routing key, envelope and expiration.            *)
(*                                                                         *)
(* An option is the set of the value it is given, empty when it is not     *)
(* given.  A Duration counts microseconds.                                 *)
(***************************************************************************)
EXTENDS WireFormat, Integers

OptionOr(option, default) == IF option = {} THEN default ELSE CHOOSE v \in option : TRUE

(* MUTATION: an empty user is taken for none. *)
NonEmptyUser(options, config) ==
    IF options.userID \in {{}, {""}} THEN config.userID ELSE CHOOSE v \in options.userID : TRUE

(* WithUserID("") overrides the configured user, too. *)
UserOf(options, config) == OptionOr(options.userID, config.userID)

(* int(timeout / time.Millisecond): Go truncates towards zero. *)
Milliseconds(d) == IF d < 0 THEN -((-d) \div 1000) ELSE d \div 1000

InvokeRequest(config, options, payload) ==
    [userID |-> UserOf(options, config),
     pluginID |-> config.pluginID,
     taskID |-> OptionOr(options.taskID, ""),
     slot |-> OptionOr(options.slot, ""),
     payload |-> payload,
     timeoutMS |-> Milliseconds(OptionOr(options.timeout, config.timeout * 1000))]

DispatchRequest(config, options, payload) ==
    [userID |-> UserOf(options, config),
     pluginID |-> config.pluginID,
     taskID |-> OptionOr(options.taskID, ""),
     payload |-> payload]

(* The publishing of an invoke, and how long its caller waits.  A user id is
   one segment here, the empty one that of an empty word. *)
PublishedInvoke(req, capabilityType) ==
    [key |-> InvokeRoutingKey(Name(<<req.userID>>), capabilityType),
     body |-> BuildInvokeEnvelope(req.taskID, "id", req.userID, req.pluginID, req.payload, req.slot),
     expiration |-> {req.timeoutMS},
     timer |-> {req.timeoutMS}]

PublishedDispatch(req, event) ==
    [key |-> DispatchRoutingKey(Name(<<req.userID>>), event),
     body |-> BuildDispatchEnvelope(req.taskID, "id", req.userID, req.pluginID, "e", req.payload),
     expiration |-> {},
     timer |-> {}]
=============================================================================
