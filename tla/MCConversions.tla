--------------------------- MODULE MCConversions ---------------------------
(* Conversions over names of one and two segments, with words of their own and
   the words that the names of queues have; timeouts around a millisecond and
   below zero; user and plugin ids with a colon; and fields of every Go type
   and type attribute, with defaults, bounds and flags that parse or do not. *)
EXTENDS Conversions

MCSegments == {<<"a">>, <<"b">>, <<"a", "b">>}
MCDotted == {<<s>> : s \in MCSegments} \cup {<<s, t>> : s \in MCSegments, t \in MCSegments}
MCNames == MCDotted \cup {<<<<"consumer">>, <<"a">>>>, NodeResult}
MCPluginIDs == MCDotted \cup {<<<<"a">>, <<"consumer">>>>}
MCUserIDs == {<<<<"u">>>>, <<<<"u">>, <<"a">>>>, <<<<>>>>}

MCTimeouts == {-1500, -1, 0, 1, 999, 1000, 1999, 60000000}

MCRedis == [RedisVariables -> {""}] \cup
    [REDIS_URL : {"", "redis://u:p@r/3", "no url"}, REDIS_HOST : {"", "h"},
     REDIS_PORT : {"", "0", "none"}, REDIS_DB : {"", "5671", "none"},
     REDIS_USER : {"", "x"}, REDIS_PASSWORD : {"x"},
     GRIFFINO_REDIS_USER_CONFIG_PREFIX : {"", "x"}]

(* One colon moved from a plugin to a user makes the same key. *)
MCIDs == {<<"a">>, <<"b">>, <<"a", "plugin", "b">>}
MCOwners == [user : MCIDs, plugin : MCIDs]

Attr(name, value) == [pair |-> TRUE, attr |-> name, value |-> value, items |-> <<>>]
Listed(name, items) == [pair |-> TRUE, attr |-> name, value |-> "", items |-> items]
Blank == [pair |-> FALSE, attr |-> "", value |-> "", items |-> <<>>]
BareWord == [Blank EXCEPT !.attr = "word"]
Required3 == <<Attr("key", "K"), Attr("name", "n"), Attr("description", "d")>>
MayHave(name, values) == {<<>>} \cup {<<Attr(name, v)>> : v \in values}
MayList(name, lists) == {<<>>} \cup {<<Listed(name, l)>> : l \in lists}

Bounds == {<<>>, <<[colon |-> TRUE, key |-> "min", text |-> "1"], [colon |-> TRUE, key |-> "maximum", text |-> "word"]>>,
           <<[colon |-> TRUE, key |-> "step", text |-> "1"]>>, <<[colon |-> FALSE, key |-> "8", text |-> ""]>>}
MCChoices == <<[colon |-> TRUE, value |-> "1", display |-> "One"], [colon |-> FALSE, value |-> "8", display |-> ""]>>

(* The type before the default and after it, an attribute twice, a comma in a
   description that makes a bare word of what follows or an attribute of it. *)
Texts == {"1", "1.5", "true", "word"}
MCTags ==
    {Required3 \o t \o d \o e : t \in MayHave("type", ConfigTypes \cup {"word"}),
                                d \in MayHave("default", Texts), e \in MayHave("default", Texts)} \cup
    {Required3 \o d \o t \o v \o o \o c :
        d \in MayHave("default", {"1", "word"}), t \in MayHave("type", {"int", "options"}),
        v \in MayList("validation", Bounds), o \in MayHave("optional", {"true", "word"}),
        c \in MayList("values", {MCChoices})} \cup
    {Required3 \o <<x>> : x \in {Blank, BareWord, Attr("", "v"), Attr("key", "")}} \cup
    {<<>>, Tail(Required3)}

MCFields ==
    [exported : {TRUE}, tagged : {TRUE}, kind : {"string", "int", "float", "bool", "slice"}, tag : MCTags] \cup
    [exported : BOOLEAN, tagged : BOOLEAN, kind : {"string"}, tag : {Required3}]
=============================================================================
