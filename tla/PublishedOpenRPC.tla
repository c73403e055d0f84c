---- MODULE PublishedOpenRPC ----
(***************************************************************************)
(* OpenRPC services, and the documents that describe them: with everything *)
(* in its place, or with references to components that have a name of      *)
(* their own or go by that of their entry.                                 *)
(***************************************************************************)
EXTENDS OpenRPC, TLC

Param(name, required) == [name |-> name, required |-> required, ref |-> <<>>]
Params == {Param("a", TRUE), Param("b", FALSE)}
Error(code) == [code |-> code, message |-> "x", ref |-> <<>>]
Codes == {"1", "2", "3"}
Tag(name) == [name |-> name, ref |-> <<>>]
Method(name, params, result, errors, tags) ==
    [name |-> name, params |-> params, result |-> result, errors |-> errors, tags |-> tags]

ParamLists == {<<>>} \cup {<<p>> : p \in Params} \cup {<<p, q>> : p, q \in Params}
Services ==
    {<<Method(<<"p", "b">>, params, <<Param("a", TRUE)>>, <<Error("2"), Error("1")>>, <<Tag("b"), Tag("a"), Tag("b")>>),
       Method(<<"p">>, others, <<>>, errors, <<>>), Method(<<"a">>, params, <<Param("b", FALSE)>>, errors, <<Tag("a")>>)>> :
        params, others \in ParamLists, errors \in {<<>>, <<Error("1"), Error("3")>>}}

Entries == "a" :> "T" @@ "b" :> "U"
Entry(name, form) == IF form = "named" THEN Entries[name] ELSE name
Referred(d, form) ==
    IF form = "inline" THEN d
    ELSE [name |-> "", required |-> FALSE, ref |-> <<"contentDescriptors", Entry(d.name, form)>>]
ReferredError(e, form) ==
    IF form = "inline" THEN e ELSE [code |-> "", message |-> "", ref |-> <<"errors", e.code>>]
Map(items, form, Of(_, _)) == [i \in DOMAIN items |-> Of(items[i], form)]
Document(service, form) ==
    [version |-> "1.3.2", info |-> TRUE,
     methods |-> [i \in DOMAIN service |->
         [service[i] EXCEPT !.params = Map(@, form, Referred) \o <<NoObject>>, !.result = Map(@, form, Referred),
                            !.errors = Map(@, form, ReferredError)]],
     descriptors |-> [entry \in {Entry(p.name, form) : p \in Params} \cup {"x"} |->
         IF entry = "x" THEN NoObject
         ELSE LET p == CHOOSE p \in Params : Entry(p.name, form) = entry
              IN IF form = "named" THEN p ELSE [p EXCEPT !.name = ""]],
     errors |-> [code \in Codes |-> Error(code)]]

Forms(service) == {"inline", "named", "unnamed"}
Read(service, form) == Parse(Document(service, form))

(***************************************************************************)
(* What the summaries have to tell: the parameters in their order, and     *)
(* tags and codes sorted, each tag once.                                   *)
(***************************************************************************)
Set(items) == {items[i] : i \in DOMAIN items}
Promised(service) ==
    {[id |-> m.name, params |-> [i \in DOMAIN m.params |-> <<m.params[i].name, m.params[i].required>>],
      result |-> [i \in DOMAIN m.result |-> m.result[i].name],
      tags |-> IF Len(m.tags) = 3 THEN <<<<"a">>, <<"b">>>> ELSE [i \in DOMAIN m.tags |-> <<m.tags[i].name>>],
      codes |-> IF m.errors = <<Error("2"), Error("1")>> THEN <<"1", "2">> ELSE [i \in DOMAIN m.errors |-> m.errors[i].code]] :
        m \in Set(service)}
Preserved(service, model) ==
    Promised(service) =
        {[id |-> s.id, params |-> [i \in DOMAIN s.params |-> <<s.params[i].name, s.params[i].required>>],
          result |-> s.result, tags |-> s.tags, codes |-> s.codes] : s \in Set(MethodSummaries(model))}
Resolves(model) ==
    \A s \in Set(MethodSummaries(model)) : \A alias \in Aliases(s.id) : ResolveSelector(model, alias) = <<s>>
====
