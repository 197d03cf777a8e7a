----------------------------- MODULE MCDiscovery -----------------------------
(***************************************************************************)
(* The catalog the gateway ships (search.resourceInfos): four core         *)
(* resources and one of group apps.  Four appends grow the array twice     *)
(* (capacity 1, 2, 4) and leave it once with room to spare.                *)
(***************************************************************************)
EXTENDS Discovery

CONSTANTS core, apps, v1, appsv1,
          pods, namespaces, secrets, configmaps, deployments

MCGroupVersions == {v1, appsv1}
MCGroups == {core, apps}
MCGroupOf == [gv \in MCGroupVersions |-> IF gv = v1 THEN core ELSE apps]
MCResources == {pods, namespaces, secrets, configmaps, deployments}
MCCatalog == [gv \in MCGroupVersions |->
                IF gv = v1 THEN <<pods, namespaces, secrets, configmaps>>
                ELSE <<deployments>>]

(* The shortest catalog in which a published listing grows (module         *)
(* Lifecycle, whose runs start the process twice).                         *)
MCShortCatalog == [gv \in MCGroupVersions |->
                     IF gv = v1 THEN <<pods, namespaces>> ELSE <<deployments>>]
=============================================================================
