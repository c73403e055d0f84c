---- MODULE MCClient ----
(***************************************************************************)
(* What clients of the library run: searches, or discoveries in a project  *)
(* directory.                                                              *)
(***************************************************************************)
EXTENDS ProjectDiscovery, Search, TLC
CONSTANTS p1, p2, p3
VARIABLE scenario   \* "search" or "discovery"

Entry(doc, title, score) == [doc |-> doc, title |-> title, score |-> score]
Line(tag, value) == [tag |-> tag, value |-> value]
Target(doc, openapi) == [doc |-> doc, title |-> 1, score |-> 0, openapi |-> openapi]
Listed(preferred, versions) == [preferred |-> preferred, versions |-> versions]

Guru ==
    <<Listed(2, <<Entry(1, 1, 9), Entry(2, 2, 3)>>), Listed(0, <<Entry(4, 1, 0), Entry(3, 1, 5)>>),
      Listed(0, <<>>)>>
Header == <<Line("search_query", 0)>>
Block(name, doc, score) ==
    <<Line("result", 0), Line("name", name), Line("doc", doc), Line("score", score), Line("endresult", 0)>>
EmptyLap == Header
Lap == Header \o Block(1, 2, 1) \o Block(1, 1, 4) \o Block(2, 2, 7)
BadLap == Header \o Block(0, 2, 1)
OpenLap == Header \o Block(1, 2, 1) \o <<Line("result", 0)>>
Rfc == <<[targets |-> <<Target(1, TRUE), Target(2, FALSE)>>, anchored |-> TRUE],
         [targets |-> <<>>, anchored |-> FALSE]>>
BadRfc == <<[targets |-> <<Target(1, TRUE), Target(2, FALSE), Target(1, TRUE)>>, anchored |-> TRUE]>>
Landing(link, title, score) == [link |-> link, title |-> title, score |-> score]
Pages == <<Landing("a", 1, 1), Landing("b", 2, 2), Landing("", 3, 3), Landing("c", 4, 0)>>
Web(guru, lap, rfc, garbled) ==
    [guru |-> guru, lap |-> lap, rfc |-> rfc, public |-> Pages, garbled |-> garbled]
MCWebs ==
    {Web(Guru, BadLap, BadRfc, {}), Web(<<>>, Lap, BadRfc, {}), Web(<<>>, EmptyLap, Rfc, {}),
     Web(<<>>, OpenLap, BadRfc, {}), Web(<<>>, BadLap, <<>>, {}),
     Web(<<>>, EmptyLap, <<>>, {"apis-guru"}), Web(<<>>, EmptyLap, <<>>, {"public-apis"})}
MCWellKnown == "a" :> <<1, 2>> @@ "b" :> <<3, 1>> @@ "c" :> <<4>>

Ask0(source, mode, provider, limit) ==
    [source |-> source, mode |-> mode, provider |-> provider, limit |-> limit, probe |-> 0]
MCOptions ==
    {Ask0("auto", mode, TRUE, 2) : mode \in Modes}
    \cup {Ask0("auto", "", FALSE, 2)}
    \cup {Ask0(kind, "refresh", TRUE, 1) : kind \in Kinds}

MCMentioned == p1 :> <<"u", "v", "u">> @@ p2 :> <<>> @@ p3 :> <<"u", "v", "g">>
MCStem == [url \in URLs |-> "s"]

discoveryVars == <<dir, pc, fileVars, reportVars, faults, crashes>>
clientVars == <<scenario, searchVars, discoveryVars>>

ClientInit ==
    /\ SearchInit /\ Init
    /\ scenario \in {"search", "discovery"}
    /\ scenario = "discovery" => answers = AnswersOf(Web(<<>>, EmptyLap, Rfc, {}))

Searching == scenario = "search" /\ UNCHANGED <<scenario, discoveryVars>>
Discovering == scenario = "discovery" /\ UNCHANGED <<scenario, searchVars>>
ClientNext == (SearchNext /\ Searching) \/ (Next /\ Discovering)

ClientSpec ==
    /\ ClientInit /\ [][ClientNext]_clientVars
    /\ \A c \in Callers : WF_clientVars(SearchStep(c) /\ Searching)
    /\ \A p \in Processes : WF_clientVars(Step(p) /\ Discovering)

\* Every call returns: a search whatever fails and whenever the budget of its
\* probes ends, a discovery however many others take the names it tries.
EveryCallEnds == EverySearchEnds /\ (scenario = "discovery" => EveryDiscoveryEnds)
====
