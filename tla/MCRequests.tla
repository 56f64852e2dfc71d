----------------------------- MODULE MCRequests ------------------------------
(***************************************************************************)
(* Small instances, for TLC, of the three specifications about what is in  *)
(* requests and answers: the values of configurations, lists and counts,   *)
(* and the client library.  A behaviour is one of any of the three, with   *)
(* the variables of the others left as they are.                           *)
(***************************************************************************)
EXTENDS ConfigValues, Queries, ClientRoutes, TLC

\* ConfigValues: values that the types below take or refuse, among them a list of objects,
\* and what that becomes on its first way through the database and on all others.
TwoConfigNames == {"url", "options"}
Lists == {"objects", "pairs", "pairsOfPairs"}
SomeValues == {"null", "whole", "struct"} \cup Lists
KindOfValue ==
    [v \in SomeValues |-> IF v = "struct" THEN "structure" ELSE IF v \in Lists THEN "list" ELSE v]
PairsOf ==
    [v \in SomeValues |-> CASE v = "objects" -> "pairs"
                            [] v \in {"pairs", "pairsOfPairs"} -> "pairsOfPairs"
                            [] OTHER -> v]
NullValue == "null"

Url(t, d) == [name |-> "url", type |-> t, default |-> d]
Options == [name |-> "options", type |-> "Structure", default |-> "struct"]

\* With defaults that fit and one that does not, and with a structure besides.
SomeTypes ==
    {<<Url("Integer", "whole"), Options>>, <<Url("Boolean", "whole")>>, <<Url("List", "objects")>>}

\* Queries: names that are tied and go against the ids; renaming makes others of them.
ThreeIds == 1..3
TwoNames == 1..2
SomeNames == {<<2, 1, 1>>}
LastGenerated == {3}
OneAll == {1, -1}

\* ClientRoutes
Zero == 0

VARIABLE about      \* "values", "lists" or "client"

requestVars == <<valueVars, queryVars, routesVars, about>>

\* One initial state of each of the specifications that a behaviour is not about.
ValuesAside == about # "values" => type = <<Url("List", "objects")>>
QueriesAside ==
    about # "lists" =>
        /\ name = <<2, 1, 1>> /\ issued = {}
        /\ query = [sort |-> "id", asc |-> TRUE, limit |-> 1, search |-> Names, includeGenerated |-> TRUE]

RequestsInit ==
    /\ about \in {"values", "lists", "client"}
    /\ ValuesInit /\ ValuesAside
    /\ QueriesInit /\ QueriesAside
    /\ RoutesInit

RequestsNext ==
    \/ about = "values" /\ ValuesNext /\ UNCHANGED <<queryVars, routesVars, about>>
    \/ about = "lists" /\ QueriesNext /\ UNCHANGED <<valueVars, routesVars, about>>
    \/ about = "client" /\ RoutesNext /\ UNCHANGED <<valueVars, queryVars, about>>

RequestsSpec == RequestsInit /\ [][RequestsNext]_requestVars
=============================================================================
