--------------------------- MODULE Configuration ---------------------------
(***************************************************************************)
(* How New finds the configuration of a client (client.go, config.go): the *)
(* one it is given, the environment's, or a placeholder for a program that *)
(* only generates artifacts.                                               *)
(*                                                                         *)
(* An unset variable and an empty one are the same, "".  A number is the   *)
(* text of the variable; Atoi has the ones that parse.                     *)
(***************************************************************************)
EXTENDS Naturals, TLC

Atoi == "0" :> 0 @@ "5671" :> 5671
DefaultPort == 5672
DefaultTimeout == 60000     \* milliseconds

NoConfig == [ok |-> FALSE]
ZeroConfig == [ok |-> TRUE, host |-> "", port |-> 0, user |-> "", password |-> "",
               pluginID |-> "", userID |-> "", timeout |-> 0,
               router |-> "", plugins |-> ""]

OrDefault(x, zero, default) == IF x = zero THEN default ELSE x

WithDefaults(c) ==
    [c EXCEPT !.port = OrDefault(@, 0, DefaultPort),
              !.timeout = OrDefault(@, 0, DefaultTimeout),
              !.router = OrDefault(@, "", "griffino.router"),
              !.plugins = OrDefault(@, "", "griffino.plugins")]

Required == {"RABBITMQ_HOST", "RABBITMQ_USER", "RABBITMQ_PASSWORD", "GRIFFINO_PLUGIN_ID"}
Variables == Required \cup {"RABBITMQ_PORT", "GRIFFINO_USER_ID"}

(* intEnv *)
EnvIsInt(env, name) == env[name] = "" \/ env[name] \in DOMAIN Atoi
IntEnv(env, name, default) == IF env[name] = "" THEN default ELSE Atoi[env[name]]

FromEnv(env) ==
    [ZeroConfig EXCEPT !.host = env["RABBITMQ_HOST"],
                       !.port = IntEnv(env, "RABBITMQ_PORT", DefaultPort),
                       !.user = env["RABBITMQ_USER"],
                       !.password = env["RABBITMQ_PASSWORD"],
                       !.pluginID = env["GRIFFINO_PLUGIN_ID"],
                       !.userID = env["GRIFFINO_USER_ID"]]

(* MUTATION: only the host and the plugin id are required. *)
ConfigFromPartialEnv(env) ==
    IF env["RABBITMQ_HOST"] # "" /\ env["GRIFFINO_PLUGIN_ID"] # "" /\ EnvIsInt(env, "RABBITMQ_PORT")
    THEN WithDefaults(FromEnv(env))
    ELSE NoConfig

ConfigFromEnv(env) ==
    IF (\A name \in Required : env[name] # "") /\ EnvIsInt(env, "RABBITMQ_PORT")
    THEN WithDefaults(FromEnv(env))
    ELSE NoConfig

PlaceholderConfig(pluginID) == WithDefaults([ZeroConfig EXCEPT !.pluginID = pluginID])

(* Which configuration New starts from.  `given` is the one of WithConfig or
   NoConfig, `id` the one of WithMetadata or "". *)
ResolvedConfig(given, id, env) ==
    IF given.ok THEN given
    ELSE IF ConfigFromEnv(env).ok THEN ConfigFromEnv(env)
    ELSE IF id # "" THEN PlaceholderConfig(id)
    ELSE NoConfig

(* The configuration of the client that New makes, NoConfig for its error. *)
New(given, id, env) ==
    LET cfg == ResolvedConfig(given, id, env)
    IN  IF cfg.ok
        THEN [WithDefaults(cfg) EXCEPT !.pluginID = OrDefault(@, "", id)]
        ELSE NoConfig
=============================================================================
