---- MODULE OpenRPC ----
(***************************************************************************)
(* openrpc: an OpenRPC document reduced to methods with selectors          *)
(* (parse.go, selectors.go).  A method name is a tuple of strings, which   *)
(* the aliases prefix.  A reference is <<section, name>>, or <<>>; a       *)
(* descriptor is [name, required, ref], an error [code, message, ref].     *)
(* What is no object in an array is the value NoObject.                    *)
(***************************************************************************)
EXTENDS Naturals, Sorting, SequencesExt, FiniteSets

CONSTANT NoObject

Failure == [failed |-> TRUE, methods |-> <<>>, descriptors |-> <<>>, errors |-> <<>>]

Objects(items) == SelectSeq(items, LAMBDA x : x # NoObject)
\* The name of a component is that of its entry if it has none, nor a reference.
NamedDescriptor(entry, d) == IF d.name = "" /\ d.ref = <<>> THEN [d EXCEPT !.name = entry] ELSE d
NamedError(entry, e) == IF e.message = "" /\ e.ref = <<>> THEN [e EXCEPT !.message = entry] ELSE e
Components(entries, Name(_, _)) ==
    [n \in {x \in DOMAIN entries : entries[x] # NoObject} |-> Name(n, entries[n])]

\* A tag goes by its name, or else by its reference.
ParseTags(tags) ==
    LET name(t) == IF t.name = "" THEN t.ref ELSE <<t.name>>
        names == {name(Objects(tags)[i]) : i \in DOMAIN Objects(tags)} \ {<<>>}
    IN SortedBy(SetToSeq(names), LAMBDA n : n)

ParseMethod(m) ==
    [name |-> m.name, params |-> Objects(m.params), result |-> Objects(m.result),
     errors |-> Objects(m.errors), tags |-> ParseTags(m.tags)]

\* Every method is an object with a name of its own.
Parse(root) ==
    LET methods == root.methods
        wrong ==
            \E i \in DOMAIN methods :
                \/ methods[i] = NoObject
                \/ methods[i] # NoObject /\ methods[i].name = <<>>
                \/ \E j \in 1..(i - 1) : methods[j].name = methods[i].name
    IN IF root.version = "" \/ ~root.info \/ wrong THEN Failure
       ELSE [failed |-> FALSE, methods |-> [i \in DOMAIN methods |-> ParseMethod(methods[i])],
             descriptors |-> Components(root.descriptors, NamedDescriptor),
             errors |-> Components(root.errors, NamedError)]

(***************************************************************************)
(* A reference is followed once, to a component of its own kind.           *)
(***************************************************************************)
Resolve(x, section, components) ==
    IF x.ref # <<>> /\ x.ref[1] = section /\ x.ref[2] \in DOMAIN components THEN components[x.ref[2]] ELSE x
RefName(ref) == IF ref = <<>> THEN "" ELSE ref[2]
ResolvedName(resolved, ref) == IF resolved.name = "" THEN RefName(ref) ELSE resolved.name

MethodSelector(name) == <<"#/methods/">> \o name
MethodSummary(model, m) ==
    LET descriptor(d) == Resolve(d, "contentDescriptors", model.descriptors)
        codes == SelectSeq([i \in DOMAIN m.errors |-> Resolve(m.errors[i], "errors", model.errors).code],
                           LAMBDA c : c # "")
    IN [id |-> m.name, selector |-> MethodSelector(m.name), tags |-> m.tags,
        params |-> [i \in DOMAIN m.params |->
            [name |-> ResolvedName(descriptor(m.params[i]), m.params[i].ref),
             required |-> descriptor(m.params[i]).required, ref |-> m.params[i].ref]],
        result |-> [i \in DOMAIN m.result |-> ResolvedName(descriptor(m.result[i]), m.result[i].ref)],
        codes |-> SortedBy(codes, LAMBDA c : <<c>>)]
MethodSummaries(model) ==
    SortedBy([i \in DOMAIN model.methods |-> MethodSummary(model, model.methods[i])], LAMBDA s : s.id)

Aliases(name) == {name, <<"method:">> \o name, MethodSelector(name)}
ResolveSelector(model, alias) ==
    LET found == SelectSeq(model.methods, LAMBDA m : alias \in Aliases(m.name))
    IN IF found = <<>> THEN <<>> ELSE <<MethodSummary(model, Head(found))>>
====
