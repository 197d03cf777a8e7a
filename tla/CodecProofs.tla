----------------------------- MODULE CodecProofs -----------------------------
(***************************************************************************)
(* Proofs about the decoder, for every set of kinds, groups and fields.    *)
(***************************************************************************)
EXTENDS Codec, TLAPS

(* What the delegate reports, and what a strict decoding must report.      *)
DelegateErrors(c) == IF c.strict /\ c.duplicate THEN {"duplicate"} ELSE {}
AllErrors(c) ==
    DelegateErrors(c) \cup (IF c.strict /\ c.body.metadata = "odd"
                            THEN {"metadata"} ELSE {})

(* Apply works on what the delegate decoded.                               *)
AppliedOK ==
    phase = "apply" =>
        /\ Accepts(call)
        /\ object = call.body
        /\ strict = DelegateErrors(call)

(* The object that goes on to be returned is whole, if there is a target:  *)
(* the delegate insisted on a kind then, and what has a kind is not        *)
(* pruned.  Without a target it need not be, and is not returned.          *)
Answered == phase = "done" /\ outcome \in {"object", "strict"}
WholeOK ==
    /\ (phase = "convert" \/ Answered) /\ call.into # "none" =>
         /\ object.fields = call.body.fields
         /\ GroupKind(object) = GroupKind(call.body)
         /\ strict = AllErrors(call)
    /\ Answered => call.into # "none"

IInv == TypeOK /\ AppliedOK /\ WholeOK
-----------------------------------------------------------------------------
(* A body that the delegate accepts for a target has a kind; the zero      *)
(* value of structuralSchemaGK has none.                                   *)
LEMMA TargetsAreNotPruned ==
  ASSUME NEW c \in Calls, Accepts(c), c.into # "none"
  PROVE  Pruned(c.body) = c.body
<1>1. c.body.kind # None
  BY DEF Accepts
<1>2. GroupKind(c.body).kind # StructuralSchemaGK.kind
  BY <1>1 DEF GroupKind, StructuralSchemaGK
<1> QED
  BY <1>2 DEF Pruned

(* Restoring and pruning keep the shape of an object and its identity, and *)
(* leave metadata that ObjectMeta can hold.                                *)
LEMMA RestoredFacts ==
  ASSUME NEW u \in Objects, u.metadata # "malformed"
  PROVE  /\ Pruned(u) \in Objects /\ Pruned(u).metadata = u.metadata
         /\ Restored(u) \in Objects
         /\ Restored(u).metadata \in {"absent", "valid"}
         /\ Restored(u).fields = u.fields
         /\ GroupKind(Restored(u)) = GroupKind(u)
<1>1. Pruned(u) \in Objects /\ Pruned(u).metadata = u.metadata
  BY DEF Pruned, Objects
<1>2. /\ Restored(u) \in Objects
      /\ Restored(u).metadata \in {"absent", "valid"}
      /\ Restored(u).fields = u.fields
      /\ Restored(u).kind = u.kind /\ Restored(u).group = u.group
  BY DEF Restored, Objects
<1>3. GroupKind(Restored(u)) = GroupKind(u)
  BY <1>2 DEF GroupKind
<1> QED
  BY <1>1, <1>2, <1>3
-----------------------------------------------------------------------------
(* The induction: Init establishes IInv, every action preserves it.        *)
LEMMA InitInv == Init => IInv
BY DEF Init, IInv, TypeOK, AppliedOK, WholeOK, Answered

LEMMA DecodeInv ==
  ASSUME IInv, Decode PROVE IInv'
<1>1. /\ phase = "idle" /\ call' = call /\ call \in Calls
      /\ call.body \in Objects
  BY DEF IInv, TypeOK, Decode, Calls
<1>2. CASE ~Accepts(call)
  <2>1. /\ phase' = "done" /\ outcome' = "error"
        /\ UNCHANGED <<call, object, strict>>
    BY <1>2 DEF Decode, End
  <2> QED
    BY <2>1 DEF IInv, TypeOK, AppliedOK, WholeOK, Answered
<1>3. CASE Accepts(call)
  <2>1. /\ phase' = "apply" /\ object' = call.body /\ outcome' = outcome
        /\ strict' = DelegateErrors(call)
    BY <1>3 DEF Decode, DelegateErrors
  <2>2. TypeOK'
    BY <1>1, <2>1 DEF IInv, TypeOK, DelegateErrors
  <2>3. AppliedOK'
    BY <1>1, <1>3, <2>1 DEF AppliedOK, Accepts, DelegateErrors
  <2>4. WholeOK'
    BY <2>1 DEF WholeOK, Answered
  <2> QED
    BY <2>2, <2>3, <2>4 DEF IInv
<1> QED
  BY <1>2, <1>3

LEMMA ApplyInv ==
  ASSUME IInv, Apply PROVE IInv'
<1>1. /\ phase = "apply" /\ call' = call /\ call \in Calls
      /\ Accepts(call) /\ object = call.body /\ object \in Objects
      /\ strict = DelegateErrors(call)
  BY DEF IInv, TypeOK, AppliedOK, Apply, ApplyWith, Calls
<1>2. CASE object.metadata = "malformed"
  <2>1. /\ phase' = "done" /\ outcome' = "error"
        /\ UNCHANGED <<call, object, strict>>
    BY <1>2 DEF Apply, ApplyWith, End
  <2> QED
    BY <2>1 DEF IInv, TypeOK, AppliedOK, WholeOK, Answered
<1>3. CASE object.metadata # "malformed"
  <2> DEFINE pruned == Pruned(object)
  <2>1. /\ phase' = "convert" /\ outcome' = outcome
        /\ object' = Restored(pruned)
        /\ strict' = strict \cup (IF call.strict THEN UnknownFields(object)
                                  ELSE {})
    BY <1>3 DEF Apply, ApplyWith
  <2>2. pruned \in Objects /\ pruned.metadata = object.metadata
    BY <1>1, <1>3, RestoredFacts
  <2> HIDE DEF pruned
  <2>3. /\ object' \in Objects /\ object'.metadata \in {"absent", "valid"}
        /\ object'.fields = pruned.fields
        /\ GroupKind(object') = GroupKind(pruned)
    BY <1>3, <2>1, <2>2, RestoredFacts
  <2>4. UnknownFields(object) \subseteq Fields \cup {"metadata"}
    BY <1>1 DEF UnknownFields, Objects
  <2>5. TypeOK'
    BY <1>1, <2>1, <2>3, <2>4 DEF IInv, TypeOK
  <2>6. AppliedOK'
    BY <2>1 DEF AppliedOK
  <2>7. WholeOK'
    <3>1. CASE call.into # "none"
      <4>1. pruned = call.body
        BY <1>1, <3>1, TargetsAreNotPruned DEF pruned
      <4>2. UnknownFields(object) =
              IF call.body.metadata = "odd" THEN {"metadata"} ELSE {}
        BY <1>1, <4>1 DEF UnknownFields, pruned
      <4>3. strict' = AllErrors(call)
        BY <1>1, <2>1, <4>2 DEF AllErrors
      <4>4. /\ object'.fields = call.body.fields
            /\ GroupKind(object') = GroupKind(call.body)
        BY <2>3, <4>1
      <4>5. GroupKind(object)' = GroupKind(object') /\ AllErrors(call)' = AllErrors(call)
        BY <1>1 DEF GroupKind, AllErrors, DelegateErrors
      <4> QED
        BY <1>1, <2>1, <4>3, <4>4, <4>5 DEF WholeOK, GroupKind, Answered
    <3>2. CASE call.into = "none"
      BY <1>1, <2>1, <3>2 DEF WholeOK, Answered
    <3> QED
      BY <3>1, <3>2
  <2> QED
    BY <2>5, <2>6, <2>7 DEF IInv
<1> QED
  BY <1>2, <1>3

LEMMA ConvertInv ==
  ASSUME IInv, Convert PROVE IInv'
<1>1. /\ phase = "convert" /\ phase' = "done"
      /\ outcome' = IF call.into = "none" THEN "error"
                    ELSE IF strict # {} THEN "strict" ELSE "object"
      /\ UNCHANGED <<call, object, strict>>
  BY DEF Convert, End
<1>2. TypeOK' /\ AppliedOK'
  BY <1>1 DEF IInv, TypeOK, AppliedOK
<1>3. WholeOK'
  BY <1>1 DEF IInv, WholeOK, Answered, GroupKind, AllErrors, DelegateErrors
<1> QED
  BY <1>2, <1>3 DEF IInv

LEMMA NextInv == IInv /\ [Next]_vars => IInv'
<1> SUFFICES ASSUME IInv, [Next]_vars PROVE IInv'
  OBVIOUS
<1>1. CASE UNCHANGED vars
  BY <1>1 DEF vars, IInv, TypeOK, AppliedOK, WholeOK, Answered, Accepts,
              GroupKind, AllErrors, DelegateErrors
<1> QED
  BY <1>1, DecodeInv, ApplyInv, ConvertInv DEF Next

(* The invariant holds at every step of every call of the decoder.         *)
THEOREM Invariance == Spec => []IInv
<1>1. Init => IInv
  BY InitInv
<1>2. IInv /\ [Next]_vars => IInv'
  BY NextInv
<1> QED
  BY <1>1, <1>2, PTL DEF Spec
-----------------------------------------------------------------------------
(* Every variable keeps its type: apply makes up no identity and leaves no *)
(* metadata that it has not checked.                                       *)
THEOREM TypeCorrect == Spec => []TypeOK
<1>1. IInv => TypeOK
  BY DEF IInv
<1> QED
  BY <1>1, Invariance, PTL

(* What is returned has all the fields of its body, whatever the kinds and *)
(* fields are: pruning only meets what Convert turns down.                 *)
THEOREM NothingIsPruned == Spec => []ReturnedObjectsAreWhole
<1>1. IInv => ReturnedObjectsAreWhole
  BY DEF IInv, WholeOK, Answered, ReturnedObjectsAreWhole
<1> QED
  BY <1>1, Invariance, PTL

(* A strict decoding reports a repeated field and odd metadata together,   *)
(* and nothing else; a lax one reports nothing.                            *)
THEOREM NothingGoesUnreported == Spec => []StrictErrorsAreComplete
<1>1. IInv => StrictErrorsAreComplete
  BY DEF IInv, WholeOK, Answered, StrictErrorsAreComplete, AllErrors,
         DelegateErrors
<1> QED
  BY <1>1, Invariance, PTL
=============================================================================
