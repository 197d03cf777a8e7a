------------------------------ MODULE SearchList ------------------------------
(***************************************************************************)
(* A list of one resource over all managed clusters: REST.List and         *)
(* searchClient.List turn the request into filters for the search backend  *)
(* and its answer, item by item, into a list; REST.ConvertToTable prints   *)
(* the list with the converter that PrinterfFor chose for the resource.    *)
(*                                                                         *)
(* The backend is external: an index of the objects of all clusters, which *)
(* changes all the time, queried once per list.  It answers with at most   *)
(* as many matching items as the query allows, in an order of its own.     *)
(***************************************************************************)
EXTENDS Naturals, Sequences, FiniteSets

CONSTANTS
    Items,     \* the objects that may come and go in the index
    Queries,   \* the requests: group, version, resource, namespace, ...
    Clusters,  \* the managed clusters
    Core,      \* the group whose name is empty; such items lack "apigroup"
    None,      \* no namespace, no selector, no cell
    Catalog,   \* Catalog[k]: the columns of resource k, a triple
               \* <<group, version, resource>>
    Limit      \* the limit of a query, 100 in the code

(* A value of an item, as far as a cell tells values apart: a time, an     *)
(* empty string, another string, a number, a boolean, or no value.         *)
Values == {"time", "empty", "text", "number", "boolean", "absent"}
Strings == {"time", "empty", "text"}

ASSUME ItemsAssumption ==
    \A i \in Items : /\ i.cluster \in Clusters
                     /\ i.created \in Strings
                     /\ i.broken \in BOOLEAN
                     /\ \A p \in DOMAIN i.fields : i.fields[p] \in Values
ASSUME QueriesAssumption ==
    \A q \in Queries : /\ q.selector \in Clusters \cup {None}
                       /\ q.fieldSelector \in BOOLEAN
                       /\ q.noHeaders \in BOOLEAN
                       /\ q.table \in BOOLEAN
ASSUME ListAssumption == /\ Limit \in Nat \ {0}
                         /\ None \notin Clusters

(* The columns of the catalog: one that shows the creation time is a date. *)
Columns == [name : STRING, path : STRING, parses : BOOLEAN,
            type : {"string", "integer", "number", "boolean", "date"}]
ASSUME CatalogAssumption ==
    \A k \in DOMAIN Catalog :
        /\ Catalog[k] \in Seq(Columns)
        /\ \A c \in DOMAIN Catalog[k] :
             Catalog[k][c].path = "created" => Catalog[k][c].type = "date"

VARIABLES
    index,    \* the objects in the search index
    phase,    \* where the request is
    query,    \* the request
    seen,     \* history: what matched the filters when the index was read
    rest,     \* the items of the answer that are still to be looked at
    list,     \* the list so far
    table,    \* the table, << >> if none was asked for
    outcome   \* how the request ended

vars == <<index, phase, query, seen, rest, list, table, outcome>>
-----------------------------------------------------------------------------
(* The filters of any query, also a variant of Filters: all namespaces.    *)
CommonFilters(q) ==
    {<<"kind_plural", q.resource>>, <<"apiversion", q.version>>}
    \cup (IF q.group # Core THEN {<<"apigroup", q.group>>} ELSE {})

(* The filters of a query.  The list options (selector) have no part in    *)
(* them, and the core group is no filter: it matches every group.          *)
Filters(q) ==
    CommonFilters(q)
    \cup (IF q.namespace # None THEN {<<"namespace", q.namespace>>} ELSE {})

(* The backend's reading of a query.                                       *)
Matching(q) == {i \in index : \A f \in Filters(q) : i[f[1]] = f[2]}
SearchAnswers(found) ==
    LET size == IF Cardinality(found) < Limit THEN Cardinality(found) ELSE Limit
    IN  {s \in [1 .. size -> found] :
           \A j, k \in 1 .. size : s[j] = s[k] => j = k}

(* The label of the cluster: a constant of package search, which labels    *)
(* the objects, and another one of package api, whose converters read it.  *)
clusterLabelKey == "open-cluster-management/cluster"
ConvertorLabelKey == "open-cluster-management/cluster"

(* A variant of Object without the cluster label.                          *)
ObjectUnlabelled(i) ==
    [labels |-> << >>, created |-> i.created, rawdata |-> i]

(* The PartialObjectMetadata of an item: the cluster is its only label,    *)
(* and the whole item an annotation.                                       *)
Object(i) == [labels |-> [key \in {clusterLabelKey} |-> i.cluster],
              created |-> i.created, rawdata |-> i]

Init ==
    /\ index = {}
    /\ phase = "idle"
    /\ query \in Queries
    /\ seen = {}
    /\ rest = << >>
    /\ list = << >>
    /\ table = << >>
    /\ outcome = "none"
-----------------------------------------------------------------------------
(* Collectors add and remove objects.                                      *)
IndexStep(i) ==
    /\ index' = IF i \in index THEN index \ {i} ELSE index \cup {i}
    /\ UNCHANGED <<phase, query, seen, rest, list, table, outcome>>

Ask(q) ==
    /\ phase \in {"idle", "done"}
    /\ phase' = "search"
    /\ query' = q
    /\ seen' = {}
    /\ rest' = << >>
    /\ list' = << >>
    /\ table' = << >>
    /\ outcome' = "none"
    /\ UNCHANGED index

End(result) == phase' = "done" /\ outcome' = result

(* The list handler turns a field selector over to the request scope's     *)
(* converter, which requestInfo leaves nil: the call panics before List.   *)
SelectFields ==
    /\ phase = "search"
    /\ query.fieldSelector
    /\ End("panic")
    /\ UNCHANGED <<index, query, seen, rest, list, table>>

(* client.Run fails: the list ends with its error.                         *)
SearchFails ==
    /\ phase = "search"
    /\ ~query.fieldSelector
    /\ End("error")
    /\ UNCHANGED <<index, query, seen, rest, list, table>>

Search ==
    /\ phase = "search"
    /\ ~query.fieldSelector
    /\ seen' = Matching(query)
    /\ rest' \in SearchAnswers(Matching(query))
    /\ phase' = "collect"
    /\ UNCHANGED <<index, query, list, table, outcome>>

Dated(i) == i.created # "text"
Collected == IF Dated(Head(rest)) THEN Append(list, Object(Head(rest))) ELSE list

CollectItem(panics, onward, collected) ==
    /\ phase = "collect"
    /\ rest # << >>
    /\ IF panics THEN End("panic") /\ UNCHANGED <<rest, list>>
       ELSE /\ rest' = onward
            /\ list' = collected
            /\ UNCHANGED <<phase, outcome>>
    /\ UNCHANGED <<index, query, seen, table>>

(* Variants of Collect: stopping at an invalid time; keeping an item with  *)
(* an invalid time; asserting the group that core items lack.              *)
CollectBreaking ==
    CollectItem(Head(rest).broken,
                IF Dated(Head(rest)) THEN Tail(rest) ELSE << >>, Collected)
CollectKeeping ==
    CollectItem(Head(rest).broken,
                Tail(rest), Append(list, Object(Head(rest))))
CollectAsserting ==
    CollectItem(Head(rest).broken \/ Head(rest).apigroup = Core,
                Tail(rest), Collected)

(* One item of the answer.  The type assertions on its required strings    *)
(* panic if one is missing (`broken'); an item whose creation time does    *)
(* not parse is skipped, an empty creation time parses as zero.            *)
Collect == CollectItem(Head(rest).broken, Tail(rest), Collected)
-----------------------------------------------------------------------------
(* The converters.  A column has a name, a type and the path of its value. *)
(* NewConverter gives all additional columns up if a path does not parse.  *)
Key(q) == <<q.group, q.version, q.resource>>
Known(q) == Key(q) \in DOMAIN Catalog
NewConverter(columns) ==
    IF \A c \in DOMAIN columns : columns[c].parses THEN columns ELSE << >>
AgeColumn == [name |-> "Age", type |-> "date", path |-> "created",
              parses |-> TRUE]
PrinterfFor(q) == IF Known(q) THEN NewConverter(Catalog[Key(q)])
                  ELSE <<AgeColumn>>

FindResults(column, i) ==
    CASE column.path = "created" -> i.created
      [] column.path \in DOMAIN i.fields \ {"created"} ->
           i.fields[column.path]
      [] OTHER -> "absent"

Age(value) == CASE value = "time" -> "age"
                [] value = "empty" -> "unknown"
                [] OTHER -> "invalid"

(* What a value shows in a column: a string column prints any value, the   *)
(* other types only values of their own, and a hole is None.               *)
Shown(type, value) ==
    IF value = "absent" THEN None ELSE
    CASE type = "string" -> value
      [] type = "date" /\ value \in Strings -> Age(value)
      [] type \in {"integer", "number"} /\ value = "number" -> value
      [] type = "boolean" /\ value = "boolean" -> value
      [] OTHER -> None

CellFor(column, o) ==
    [path |-> column.path, shown |-> Shown(column.type,
                                           FindResults(column, o.rawdata))]

(* The converter of a resource in the catalog is package api's, the        *)
(* default converter is package search's, each with a getClusterFromMeta   *)
(* of its own, which looks its package's label up.                         *)
LabelKey(q) == IF Known(q) THEN ConvertorLabelKey ELSE clusterLabelKey
HasCluster(q, o) == LabelKey(q) \in DOMAIN o.labels

(* A variant of Row that leaves the cells of missing values out.           *)
RowDense(q, columns, o) ==
    [cluster |-> o.labels[LabelKey(q)],
     cells |-> SelectSeq([c \in DOMAIN columns |-> CellFor(columns[c], o)],
                         LAMBDA cell : cell.shown # None)]

(* A row: the cluster from the label, the name, and one cell per column.   *)
Row(q, columns, o) ==
    [cluster |-> o.labels[LabelKey(q)],
     cells |-> [c \in DOMAIN columns |-> CellFor(columns[c], o)]]

(* The end of the list: it is sent as it is, or as a table; the conversion *)
(* fails as a whole at the first object without a cluster.                 *)
Result ==
    CASE ~query.table -> "list"
      [] query.table /\ \A k \in DOMAIN list : HasCluster(query, list[k])
           -> "table"
      [] OTHER -> "error"

Convert ==
    /\ phase = "collect"
    /\ rest = << >>
    /\ End(Result)
    /\ LET columns == PrinterfFor(query) IN
       table' = IF Result # "table" THEN << >>
                ELSE [headers |-> IF query.noHeaders THEN << >> ELSE columns,
                      rows |-> [k \in DOMAIN list |->
                                  Row(query, columns, list[k])]]
    /\ UNCHANGED <<index, query, seen, rest, list>>

Next ==
    \/ \E i \in Items : IndexStep(i)
    \/ \E q \in Queries : Ask(q)
    \/ SelectFields
    \/ SearchFails
    \/ Search
    \/ Collect
    \/ Convert

Spec == Init /\ [][Next]_vars
-----------------------------------------------------------------------------
Objects == [labels : [{clusterLabelKey} -> Clusters], created : Strings,
            rawdata : Items]
Paths == {"created"} \cup UNION {{Catalog[k][c].path : c \in DOMAIN Catalog[k]}
                                 : k \in DOMAIN Catalog}
Cells == [path : Paths,
          shown : (Values \ {"absent"}) \cup {"age", "unknown", "invalid", None}]

(* Every variable keeps its type; above all, every object of a list has a  *)
(* cluster and a creation time (searchClient.List, lines 220-242).         *)
TypeOK ==
    /\ index \subseteq Items
    /\ phase \in {"idle", "search", "collect", "done"}
    /\ query \in Queries
    /\ seen \subseteq Items
    /\ rest \in Seq(Items)
    /\ list \in Seq(Objects)
    /\ table # << >> =>
         table.rows \in Seq([cluster : Clusters, cells : Seq(Cells)])
    /\ outcome \in {"none", "error", "panic", "list", "table"}

Listed == {list[k].rawdata : k \in DOMAIN list}
Answered == phase = "done" /\ outcome \in {"list", "table"}

(* A list has every object that matched when the index was read, except    *)
(* those with an invalid creation time and those beyond the query's limit. *)
ListIsComplete ==
    Answered =>
        LET valid == {i \in seen : i.created # "text"} IN
        /\ Listed \subseteq valid
        /\ Cardinality(Listed) = Len(list)
        /\ \/ Listed = valid
           \/ Cardinality(valid \ Listed) + Limit <= Cardinality(seen)

(* A list has objects of the version, resource and namespace that were     *)
(* asked for only, and of the group, unless that is the core group: then   *)
(* a resource of the same name and version of any other group gets in.     *)
ListMatchesRequest ==
    Answered => \A i \in Listed :
        /\ i.kind_plural = query.resource
        /\ i.apiversion = query.version
        /\ query.namespace # None => i.namespace = query.namespace
        /\ query.group # Core => i.apigroup = query.group

(* The k-th row is the k-th object's, with one cell per column, in the     *)
(* columns' order: a missing value leaves a hole, it shifts nothing.       *)
RowsFitHeaders ==
    Answered /\ query.table =>
        LET columns == PrinterfFor(query) IN
        /\ Len(table.rows) = Len(list)
        /\ query.noHeaders \/ table.headers = columns
        /\ \A k \in DOMAIN table.rows :
             /\ table.rows[k].cluster = list[k].rawdata.cluster
             /\ [c \in DOMAIN table.rows[k].cells |->
                   table.rows[k].cells[c].path]
                = [c \in DOMAIN columns |-> columns[c].path]

(* No table shows an invalid age: the list has dropped the objects with    *)
(* which the date column of the converter could not cope.                  *)
AgesAreValid ==
    Answered /\ query.table =>
        \A k \in DOMAIN table.rows : \A c \in DOMAIN table.rows[k].cells :
            LET cell == table.rows[k].cells[c]
            IN  cell.path = "created" => cell.shown \in {"age", "unknown"}

(* A list panics only for one of two reasons: a field selector, or an item *)
(* of the answer, wherever it stands, that lacks a required string.  An    *)
(* item of the core group, which lacks its group, is no such item.         *)
PanicsExplained ==
    phase = "done" /\ outcome = "panic" =>
        query.fieldSelector \/ \E i \in seen : i.broken

(* `List retrieves a list of managedCluster that match label.': what is    *)
(* listed has the cluster label that the request selects.                  *)
ListMatchesLabel ==
    Answered /\ query.selector # None =>
        \A i \in Listed : i.cluster = query.selector
=============================================================================
