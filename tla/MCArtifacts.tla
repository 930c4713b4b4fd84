---------------------------- MODULE MCArtifacts ----------------------------
(* Artifacts with and without a main service, over models that parse, that do
   not, and that parse to what cannot be encoded; with the keys of variables
   of the system and of the plugin's own, set or not. *)
EXTENDS Artifacts

Attr(name, value) == [pair |-> TRUE, attr |-> name, value |-> value, items |-> <<>>]
Field(tag) == [exported |-> TRUE, tagged |-> TRUE, kind |-> "float", tag |-> tag]
Tag(key) == <<Attr("key", key), Attr("name", "n"), Attr("description", "d")>>

Struct(fields) == [kind |-> "struct", fields |-> fields]
NilModel == [kind |-> "nil", fields |-> <<>>]
Whole == Struct(<<Field(Tag("MODE")), Field(Append(Tag("TOKENS"), Attr("default", "1.5")))>>)
Unparsed == Struct(<<Field(Tag("MODE")), Field(Append(Tag("TOKENS"), Attr("default", "true")))>>)
NotEncodable == Struct(<<Field(Append(Tag("MODE"), Attr("default", "NaN")))>>)
NamesSystem == Struct(<<Field(Tag("MODE=fast")), Field(Tag("REDIS_HOST=mine")), Field(Tag("REDIS_PORT"))>>)
NamesTwice == Struct(<<Field(Tag("MODE")), Field(Tag("MODE"))>>)

MCInputs ==
    [meta : [id : {"p"}, mainServiceID : {"", "svc"}],
     registered : {[providers |-> <<[id |-> "c", type |-> "t", name |-> ""]>>,
                    consumers |-> <<>>, actions |-> <<"a">>]},
     boot : {NilModel, Whole, Unparsed, NotEncodable, NamesSystem, NamesTwice},
     user : {NilModel, Whole, Unparsed, NotEncodable}]
=============================================================================
