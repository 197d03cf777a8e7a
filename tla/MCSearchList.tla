---------------------------- MODULE MCSearchList ----------------------------
(***************************************************************************)
(* Two of the shipped resources with their columns, one resource that the  *)
(* catalog does not have, and objects that differ in all that the code     *)
(* looks at: cluster, namespace, group, creation time, missing values.     *)
(***************************************************************************)
EXTENDS SearchList

CONSTANTS east, west, ns1, ns2, apps, other

Col(name, type, path) ==
    [name |-> name, type |-> type, path |-> path, parses |-> TRUE]

MCClusters == {east, west}
MCCatalog ==
    [k \in {<<Core, "v1", "pods">>, <<apps, "v1", "deployments">>} |->
       IF k[3] = "pods"
       THEN <<Col("Status", "string", "status"),
              Col("Restarts", "string", "restarts"),
              Col("Age", "date", "created")>>
       ELSE <<Col("Ready", "string", "ready"),
              Col("UP-TO-DATE", "string", "current"),
              Col("Available", "string", "available"),
              Col("Age", "date", "created")>>]

Item(group, resource, cluster, namespace, created, broken, fields) ==
    [apigroup |-> group, apiversion |-> "v1", kind_plural |-> resource,
     cluster |-> cluster, namespace |-> namespace, created |-> created,
     broken |-> broken, fields |-> fields]

MCItems ==
    { Item(Core, "pods", east, ns1, "time", FALSE,
           [status |-> "text", restarts |-> "number"]),
      Item(Core, "pods", west, ns1, "empty", FALSE,
           [status |-> "absent", restarts |-> "number"]),
      Item(Core, "pods", west, ns2, "text", FALSE,
           [status |-> "text", restarts |-> "number"]),
      Item(other, "pods", west, ns2, "time", FALSE, [status |-> "text"]),
      Item(Core, "pods", east, ns2, "time", TRUE, [status |-> "text"]),
      Item(apps, "deployments", east, ns1, "time", FALSE,
           [ready |-> "number", available |-> "number"]),
      Item(other, "deployments", east, ns1, "time", FALSE,
           [ready |-> "text"]) }

Query(group, resource, namespaces, selectors, fieldSelectors) ==
    [group : {group}, version : {"v1"}, resource : {resource},
     namespace : namespaces, selector : selectors,
     fieldSelector : fieldSelectors, table : BOOLEAN, noHeaders : BOOLEAN]
MCQueries ==
    Query(Core, "pods", {None, ns1}, {None, east}, {FALSE})
    \cup Query(apps, "deployments", {None, ns1}, {None, east}, {FALSE})
    \cup Query(other, "deployments", {None, ns1}, {None, east}, {FALSE})
    \cup Query(Core, "pods", {None}, {None}, {TRUE})
=============================================================================
