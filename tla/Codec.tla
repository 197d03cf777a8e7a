-------------------------------- MODULE Codec --------------------------------
(***************************************************************************)
(* The decoder of unstructuredNegotiatedSerializer, which requestInfo      *)
(* gives to every resource handler as its Serializer.  The gateway knows   *)
(* no schema of the objects: structuralSchemas is empty and                *)
(* structuralSchemaGK is left at its zero value, while                     *)
(* preserveUnknownFields is false.  A match of the zero value would prune  *)
(* an object down to its identity.                                         *)
(*                                                                         *)
(* The delegate (the JSON or YAML serializer, lax or strict) and the       *)
(* versioning codec around the coercing decoder are library code, and the  *)
(* handler that calls the decoder is the environment.  Lists, which is all *)
(* the gateway serves, decode no body.                                     *)
(***************************************************************************)
EXTENDS FiniteSets

CONSTANTS
    Kinds,     \* kinds of objects, none registered in the gateway's Scheme
    Groups,    \* groups of their API versions
    Core,      \* the group whose name is empty
    Fields,    \* the fields of an object besides its identity and metadata
    None       \* an absent field

ASSUME CodecAssumption ==
    /\ None \notin Kinds \cup Groups
    /\ Core \in Groups
    /\ "metadata" \notin Fields
    /\ "duplicate" \notin Fields

VARIABLES
    phase,   \* where the call is
    call,    \* the arguments: the decoder keeps nothing between calls
    object,  \* the Unstructured that the decoders work on, in place
    strict,  \* the strict errors so far
    outcome  \* what the call returns: "object", "strict" (both) or "error"

vars == <<phase, call, object, strict, outcome>>

(* Metadata may have a field that ObjectMeta does not have ("odd").  The   *)
(* version of an apiVersion is not told apart.                             *)
Objects == [kind : Kinds \cup {None}, group : Groups \cup {None},
            metadata : {"absent", "valid", "odd", "malformed"},
            fields : SUBSET Fields]

(* The body, whether it is readable and repeats a field, the serializer,   *)
(* whether the caller gave a default kind and version, and its target: an  *)
(* Unstructured without or with a kind, or none.                           *)
Calls == [body : Objects, readable : BOOLEAN, duplicate : BOOLEAN,
          strict : BOOLEAN, defaults : BOOLEAN,
          into : {"none", "blank", "typed"}]

Init ==
    /\ phase = "idle"
    /\ call \in Calls
    /\ object = None
    /\ strict = {}
    /\ outcome = "none"

End(result) == phase' = "done" /\ outcome' = result
-----------------------------------------------------------------------------
(* The JSON serializer wants a kind and a version.  For a target only the  *)
(* body's kind counts, whatever the typer says of the target; without one  *)
(* the defaults may stand in, except that lax decoding into the object of  *)
(* the creator insists on a kind in the body.                              *)
Accepts(c) ==
    /\ c.readable
    /\ IF c.into # "none" THEN c.body.kind # None
       ELSE /\ c.defaults \/ None \notin {c.body.kind, c.body.group}
            /\ c.strict \/ c.body.kind # None

(* The delegate decodes the body into an Unstructured.  Only the strict    *)
(* serializer sees a repeated field, and returns the object all the same.  *)
Decode ==
    /\ phase = "idle"
    /\ \/ /\ ~Accepts(call)
          /\ End("error")
          /\ UNCHANGED <<object, strict>>
       \/ /\ Accepts(call)
          /\ phase' = "apply"
          /\ object' = call.body
          /\ strict' = IF call.strict /\ call.duplicate THEN {"duplicate"} ELSE {}
          /\ UNCHANGED outcome
    /\ UNCHANGED call
-----------------------------------------------------------------------------
(* A variant of StructuralSchemaGK with the kind of the resource.          *)
ResourceGK == [group |-> Core, kind |-> CHOOSE k \in Kinds : TRUE]
(* Neither requestInfo nor anybody else sets structuralSchemaGK.           *)
StructuralSchemaGK == [group |-> Core, kind |-> None]

(* ParseGroupVersion makes the core group of an absent apiVersion.         *)
GroupKind(u) ==
    [group |-> IF u.group = None THEN Core ELSE u.group, kind |-> u.kind]

(* Pruning by a schema that is not there drops every field but the         *)
(* identity and metadata; coercing and defaulting by it changes nothing.   *)
Pruned(u) ==
    IF GroupKind(u) = StructuralSchemaGK THEN [u EXCEPT !.fields = {}] ELSE u

(* A variant of Restored that restores a kind that was not found.          *)
RestoredAlways(u) ==
    [u EXCEPT !.metadata = IF @ = "odd" THEN "valid" ELSE @,
              !.kind = IF @ = None THEN "empty" ELSE @]
(* The identity is what it was; metadata returns as an ObjectMeta.         *)
Restored(u) == [u EXCEPT !.metadata = IF @ = "odd" THEN "valid" ELSE @]

UnknownFields(u) ==
    (u.fields \ Pruned(u).fields)
    \cup (IF u.metadata = "odd" THEN {"metadata"} ELSE {})

(* unstructuredSchemaCoercer.apply fails for malformed metadata before it  *)
(* changes the object; otherwise it changes the object in place.           *)
ApplyWith(unknown) ==
    /\ phase = "apply"
    /\ \/ /\ object.metadata = "malformed"
          /\ End("error")
          /\ UNCHANGED <<object, strict>>
       \/ /\ object.metadata # "malformed"
          /\ object' = Restored(Pruned(object))
          /\ strict' = strict \cup unknown
          /\ phase' = "convert"
          /\ UNCHANGED outcome
    /\ UNCHANGED call

(* A variant of Apply that forgets the unknown fields if the delegate had  *)
(* strict errors of its own.                                               *)
ApplyForgetful == ApplyWith(IF call.strict /\ strict = {}
                            THEN UnknownFields(object) ELSE {})
Apply == ApplyWith(IF call.strict THEN UnknownFields(object) ELSE {})

(* The versioning codec returns the target, which is the object or gets    *)
(* its content; without a target it looks for a Go type, and fails.        *)
Convert ==
    /\ phase = "convert"
    /\ End(IF call.into = "none" THEN "error"
           ELSE IF strict # {} THEN "strict" ELSE "object")
    /\ UNCHANGED <<call, object, strict>>

Next == Decode \/ Apply \/ Convert

Spec == Init /\ [][Next]_vars
-----------------------------------------------------------------------------
(* Every variable keeps its type: above all, apply never makes up an       *)
(* identity for an object, and never leaves metadata it has not checked.   *)
TypeOK ==
    /\ phase \in {"idle", "apply", "convert", "done"}
    /\ call \in Calls
    /\ object \in Objects \cup {None}
    /\ phase = "convert" => object.metadata \in {"absent", "valid"}
    /\ strict \subseteq Fields \cup {"duplicate", "metadata"}
    /\ outcome \in {"none", "object", "strict", "error"}

(* An object that is returned, with or without strict errors, has every    *)
(* field of its body: the pruning that the zero structuralSchemaGK calls   *)
(* for only meets objects whose decoding fails.                            *)
ReturnedObjectsAreWhole ==
    phase = "done" /\ outcome \in {"object", "strict"} =>
        /\ object.fields = call.body.fields
        /\ GroupKind(object) = GroupKind(call.body)

(* A strict decoding reports all that it changed or could not keep, from   *)
(* the delegate and from apply together; a lax one never fails for it.     *)
StrictErrorsAreComplete ==
    phase = "done" /\ outcome \in {"object", "strict"} =>
        strict = IF ~call.strict THEN {}
                 ELSE (IF call.duplicate THEN {"duplicate"} ELSE {})
                      \cup (IF call.body.metadata = "odd"
                            THEN {"metadata"} ELSE {})
=============================================================================
