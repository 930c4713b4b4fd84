-------------------------- MODULE UserConfigStore --------------------------
(***************************************************************************)
(* Where a plugin finds its users' configuration: RedisConfigFromEnv of    *)
(* config.go, and the store of internal/redisstore, which reads one key    *)
(* for a user from a configuration of the same fields.  Nothing under src/ *)
(* joins the two; the comments of both say that they belong together.      *)
(*                                                                         *)
(* A key is the sequence of what its colons separate, and so are the ids   *)
(* and the prefix in it.  ParseURL has the URLs that go-redis parses.      *)
(***************************************************************************)
EXTENDS Configuration, Sequences

RedisVariables == {"REDIS_URL", "REDIS_HOST", "REDIS_PORT", "REDIS_DB", "REDIS_USER",
                   "REDIS_PASSWORD", "GRIFFINO_REDIS_USER_CONFIG_PREFIX"}

ParseURL == "redis://u:p@r/3" :> [host |-> "r", port |-> 6379, username |-> "u", password |-> "p", db |-> 3]

RedisIsConfigured(env) == env["REDIS_URL"] # "" \/ env["REDIS_HOST"] # ""

(* NoConfig is both its error and its "not configured". *)
RedisConfigFromEnv(env) ==
    IF RedisIsConfigured(env) /\ EnvIsInt(env, "REDIS_PORT") /\ EnvIsInt(env, "REDIS_DB")
    THEN [ok |-> TRUE,
          url |-> env["REDIS_URL"],
          host |-> OrDefault(env["REDIS_HOST"], "", "localhost"),
          port |-> IntEnv(env, "REDIS_PORT", 6379),
          db |-> IntEnv(env, "REDIS_DB", 0),
          username |-> env["REDIS_USER"],
          password |-> env["REDIS_PASSWORD"],
          keyPrefix |-> OrDefault(env["GRIFFINO_REDIS_USER_CONFIG_PREFIX"], "", "user")]
    ELSE NoConfig

(* buildOptions: a URL's server, with what is configured besides over the
   URL's; a zero is taken for unset. *)
BuildOptions(cfg) ==
    LET parsed == ParseURL[cfg.url]
    IN  IF cfg.url = ""
        THEN [host |-> cfg.host, port |-> cfg.port, username |-> cfg.username,
              password |-> cfg.password, db |-> cfg.db]
        ELSE [parsed EXCEPT !.username = OrDefault(cfg.username, "", @),
                            !.password = OrDefault(cfg.password, "", @),
                            !.db = OrDefault(cfg.db, 0, @)]

NewStore(pluginID, cfg) ==
    IF cfg.ok /\ cfg.url \in {""} \cup DOMAIN ParseURL
    THEN [ok |-> TRUE, server |-> BuildOptions(cfg), pluginID |-> pluginID,
          keyPrefix |-> <<OrDefault(cfg.keyPrefix, "", "user")>>]
    ELSE NoConfig

(* MUTATION: the ids change places. *)
KeyOfPlugin(prefix, userID, pluginID) ==
    prefix \o pluginID \o <<"plugin">> \o userID \o <<"config">>

ConfigKey(prefix, userID, pluginID) ==
    prefix \o userID \o <<"plugin">> \o pluginID \o <<"config">>

(* What a key may hold: nothing, an empty text, JSON that is null, an object or
   something else, or what Get fails to read. *)
StoredPayloads == {"missing", "empty", "null", "object", "other", "unread"}

(* GetValues and decodeValues, of the payload under the key. *)
DecodeValues(payload) ==
    CASE payload = "object" -> [ok |-> TRUE, values |-> "object"]
      [] payload \in {"missing", "empty", "null"} -> [ok |-> TRUE, values |-> "empty"]
      [] payload \in {"other", "unread"} -> NoConfig

GetValues(store, redis, userID) ==
    LET key == ConfigKey(store.keyPrefix, userID, store.pluginID)
    IN  DecodeValues(IF key \in DOMAIN redis THEN redis[key] ELSE "missing")
=============================================================================
