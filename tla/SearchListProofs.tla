--------------------------- MODULE SearchListProofs ---------------------------
(***************************************************************************)
(* Proofs about a list over all managed clusters, for every set of objects *)
(* and requests, every catalog of columns and every limit of a query.      *)
(***************************************************************************)
EXTENDS SearchList, Integers, FunctionTheorems, FiniteSetTheorems,
        SequenceTheorems, TLAPS

Elements(s) == {s[k] : k \in DOMAIN s}

(* What was seen in the index is what the filters let through.             *)
SeenOK ==
    /\ IsFiniteSet(index)
    /\ IsFiniteSet(seen)
    /\ \A i \in seen : \A f \in Filters(query) : i[f[1]] = f[2]

(* A list has dated objects that were seen, and nothing of a request that  *)
(* was served before.                                                      *)
ListOK ==
    /\ phase = "search" => list = << >> /\ table = << >>
    /\ Elements(rest) \subseteq seen
    /\ \A k \in DOMAIN list : /\ list[k] = Object(list[k].rawdata)
                              /\ list[k].rawdata \in seen
                              /\ Dated(list[k].rawdata)

(* The backend answered with the objects of `answer'.  Those that are      *)
(* still to be looked at are in rest, the dated ones among the others have *)
(* been listed, and none is listed twice.                                  *)
Collecting(answer) ==
    /\ Cardinality(answer) = IF Cardinality(seen) < Limit
                             THEN Cardinality(seen) ELSE Limit
    /\ \A j, k \in DOMAIN rest : rest[j] = rest[k] => j = k
    /\ Elements(rest) \subseteq answer
    /\ Listed = {i \in answer \ Elements(rest) : Dated(i)}
    /\ \A j, k \in DOMAIN list : list[j].rawdata = list[k].rawdata => j = k

CollectOK ==
    /\ phase = "collect" \/ Answered =>
         \E answer \in SUBSET seen : Collecting(answer)
    /\ Answered => rest = << >>

(* The table that is sent is made of the whole list.                       *)
TableFor(q, l) ==
    [headers |-> IF q.noHeaders THEN << >> ELSE PrinterfFor(q),
     rows |-> [k \in DOMAIN l |-> Row(q, PrinterfFor(q), l[k])]]
TableOK == Answered /\ query.table => table = TableFor(query, list)

IInv ==
    /\ TypeOK
    /\ SeenOK
    /\ ListOK
    /\ CollectOK
    /\ TableOK
    /\ PanicsExplained
-----------------------------------------------------------------------------
(* The sequences that lists, rows and tables are.                          *)
LEMMA FunctionIsSeq ==
  ASSUME NEW S, NEW n \in Nat, NEW f \in [1 .. n -> S]
  PROVE  f \in Seq(S) /\ Len(f) = n
<1>1. f \in Seq(S)
  BY SeqDef
<1> QED
  BY <1>1, LenProperties

(* Looking at the first element removes it, and only it, from what is      *)
(* still to be looked at.                                                  *)
LEMMA TailElements ==
  ASSUME NEW S, NEW s \in Seq(S), s # << >>,
         \A j, k \in DOMAIN s : s[j] = s[k] => j = k
  PROVE  /\ Head(s) \in Elements(s)
         /\ Elements(Tail(s)) = Elements(s) \ {Head(s)}
         /\ \A j, k \in DOMAIN Tail(s) : Tail(s)[j] = Tail(s)[k] => j = k
<1>1. /\ Head(s) \in S /\ Tail(s) \in Seq(S)
      /\ Len(Tail(s)) = Len(s) - 1 /\ Len(s) \in Nat \ {0}
      /\ \A i \in 1 .. Len(Tail(s)) : Tail(s)[i] = s[i + 1]
  BY HeadTailProperties, EmptySeq
<1>2. DOMAIN s = 1 .. Len(s) /\ DOMAIN Tail(s) = 1 .. Len(s) - 1
  BY <1>1, LenProperties
<1>3. Head(s) = s[1]
  BY <1>1
<1>4. Head(s) \in Elements(s)
  BY <1>1, <1>2, <1>3 DEF Elements
<1>5. ASSUME NEW x \in Elements(Tail(s)) PROVE x \in Elements(s) \ {Head(s)}
  <2>1. PICK i \in 1 .. Len(s) - 1 : x = s[i + 1]
    BY <1>1, <1>2, <1>5 DEF Elements
  <2>2. i + 1 \in DOMAIN s /\ i + 1 # 1 /\ 1 \in DOMAIN s
    BY <1>1, <1>2
  <2> QED
    BY <1>3, <2>1, <2>2 DEF Elements
<1>6. ASSUME NEW x \in Elements(s) \ {Head(s)} PROVE x \in Elements(Tail(s))
  <2>1. PICK k \in 1 .. Len(s) : x = s[k]
    BY <1>2 DEF Elements
  <2>2. k # 1 /\ k - 1 \in 1 .. Len(s) - 1 /\ (k - 1) + 1 = k
    BY <1>1, <1>3, <2>1
  <2>3. x = Tail(s)[k - 1]
    BY <1>1, <2>1, <2>2
  <2> QED
    BY <1>2, <2>2, <2>3 DEF Elements
<1>7. ASSUME NEW j \in DOMAIN Tail(s), NEW k \in DOMAIN Tail(s),
             Tail(s)[j] = Tail(s)[k]
      PROVE  j = k
  <2>1. s[j + 1] = s[k + 1] /\ j + 1 \in DOMAIN s /\ k + 1 \in DOMAIN s
    BY <1>1, <1>2, <1>7
  <2>2. j + 1 = k + 1
    BY <2>1
  <2> QED
    BY <1>1, <1>2, <2>2
<1> QED
  BY <1>4, <1>5, <1>6, <1>7

(* As many as there are positions, if no two hold the same.                *)
LEMMA CountElements ==
  ASSUME NEW n \in Nat, NEW S, NEW f \in [1 .. n -> S],
         \A j, k \in 1 .. n : f[j] = f[k] => j = k
  PROVE  IsFiniteSet(Elements(f)) /\ Cardinality(Elements(f)) = n
<1>1. f \in [1 .. n -> Elements(f)]
  BY DEF Elements
<1>2. f \in Bijection(1 .. n, Elements(f))
  BY <1>1 DEF Bijection, Injection, Surjection, IsInjective, Elements
<1>3. IsFiniteSet(1 .. n) /\ Cardinality(1 .. n) = n
  BY FS_Interval
<1> QED
  BY <1>2, <1>3, FS_Bijection DEF ExistsBijection
-----------------------------------------------------------------------------
(* The cells.  Whatever an item has in a column, its cell is a hole or     *)
(* shows something, and the creation time of a dated item is a valid age.  *)
LEMMA ShownFacts ==
  ASSUME NEW type, NEW value \in Values
  PROVE  /\ Shown(type, value) \in
              (Values \ {"absent"}) \cup {"age", "unknown", "invalid", None}
         /\ type = "date" /\ value \in Strings /\ value # "text" =>
              Shown(type, value) \in {"age", "unknown"}
<1>1. Age(value) \in {"age", "unknown", "invalid"}
  BY Zenon DEF Age
<1>2. value \in {"time", "empty"} => Age(value) \in {"age", "unknown"}
  BY Zenon DEF Age
<1>3. /\ value = "absent" => Shown(type, value) = None
      /\ value # "absent" => Shown(type, value) \in {None, value, Age(value)}
  <2>1. CASE value = "absent"
    BY <2>1, Zenon DEF Shown
  <2>2. CASE value # "absent" /\ type = "string"
    BY <2>2, Zenon DEF Shown
  <2>3. CASE value # "absent" /\ type = "date"
    BY <2>3, Zenon DEF Shown
  <2>4. CASE value # "absent" /\ type \in {"integer", "number"}
    BY <2>4, Zenon DEF Shown
  <2>5. CASE value # "absent" /\ type = "boolean"
    BY <2>5, Zenon DEF Shown
  <2>6. CASE /\ value # "absent"
             /\ type \notin {"string", "date", "integer", "number", "boolean"}
    BY <2>6, Zenon DEF Shown
  <2> QED
    BY <2>1, <2>2, <2>3, <2>4, <2>5, <2>6, Zenon
<1>4. ASSUME type = "date", value \in Strings
      PROVE  Shown(type, value) = Age(value)
  <2>1. value # "absent"
    BY <1>4 DEF Strings
  <2> QED
    BY <1>4, <2>1, Zenon DEF Shown
<1>5. Shown(type, value) \in
         (Values \ {"absent"}) \cup {"age", "unknown", "invalid", None}
  <2>1. Shown(type, value) \in
          {None, "age", "unknown", "invalid"} \cup ({value} \ {"absent"})
    BY <1>1, <1>3, Zenon
  <2> QED
    BY <2>1, Zenon
<1>6. ASSUME type = "date", value \in Strings, value # "text"
      PROVE  Shown(type, value) \in {"age", "unknown"}
  <2>1. value \in {"time", "empty"}
    BY <1>6, Zenon DEF Strings
  <2> QED
    BY <1>2, <1>4, <1>6, <2>1, Zenon
<1> QED
  BY <1>5, <1>6, Zenon

(* Every resource has a printer, and a column that shows the creation time *)
(* is a date.                                                              *)
AllColumns == Columns \cup {AgeColumn}
LEMMA PrinterFacts ==
  ASSUME NEW q
  PROVE  /\ PrinterfFor(q) \in Seq(AllColumns)
         /\ \A c \in DOMAIN PrinterfFor(q) :
              /\ PrinterfFor(q)[c].path \in Paths
              /\ PrinterfFor(q)[c].path = "created" =>
                   PrinterfFor(q)[c].type = "date"
<1>1. CASE ~Known(q)
  <2>1. PrinterfFor(q) = <<AgeColumn>>
    BY <1>1 DEF PrinterfFor
  <2>2. /\ <<AgeColumn>> \in Seq(AllColumns) /\ DOMAIN <<AgeColumn>> = {1}
        /\ <<AgeColumn>>[1] = AgeColumn
    BY DEF AllColumns
  <2>3. AgeColumn.path = "created" /\ AgeColumn.type = "date"
    BY DEF AgeColumn
  <2> QED
    BY <2>1, <2>2, <2>3 DEF Paths
<1>2. CASE Known(q)
  <2> DEFINE columns == Catalog[Key(q)]
  <2>1. /\ Key(q) \in DOMAIN Catalog /\ columns \in Seq(Columns)
        /\ \A c \in DOMAIN columns :
             columns[c].path = "created" => columns[c].type = "date"
    BY <1>2, CatalogAssumption DEF Known
  <2>2. columns \in Seq(AllColumns)
    BY <2>1, SeqMonotonic DEF AllColumns
  <2>3. \A c \in DOMAIN columns : columns[c].path \in Paths
    BY <2>1 DEF Paths
  <2>4. PrinterfFor(q) \in {columns, << >>}
    BY <1>2 DEF PrinterfFor, NewConverter
  <2>5. << >> \in Seq(AllColumns) /\ DOMAIN << >> = {}
    BY EmptySeq
  <2> QED
    BY <2>1, <2>2, <2>3, <2>4, <2>5
<1> QED
  BY <1>1, <1>2

(* Whichever converter prints a listed object finds the cluster where List *)
(* has put it: the label constants of the two packages agree.              *)
LEMMA LabelFound ==
  ASSUME NEW q, NEW i
  PROVE  /\ HasCluster(q, Object(i))
         /\ Object(i).labels[LabelKey(q)] = i.cluster
<1>1. LabelKey(q) = clusterLabelKey
  BY DEF LabelKey, clusterLabelKey, ConvertorLabelKey
<1> QED
  BY <1>1 DEF HasCluster, Object

(* The row of a listed object: its cluster, and one cell per column.       *)
LEMMA RowFacts ==
  ASSUME NEW q, NEW columns \in Seq(AllColumns),
         \A c \in DOMAIN columns :
           /\ columns[c].path \in Paths
           /\ columns[c].path = "created" => columns[c].type = "date",
         NEW i \in Items
  PROVE  LET row == Row(q, columns, Object(i)) IN
         /\ row.cluster = i.cluster
         /\ DOMAIN row.cells = DOMAIN columns
         /\ row.cells \in Seq(Cells)
         /\ \A c \in DOMAIN columns :
              /\ row.cells[c].path = columns[c].path
              /\ Dated(i) /\ row.cells[c].path = "created" =>
                   row.cells[c].shown \in {"age", "unknown"}
<1> DEFINE row == Row(q, columns, Object(i))
           cells == [c \in DOMAIN columns |-> CellFor(columns[c], Object(i))]
<1>1. row.cluster = i.cluster /\ row.cells = cells
  BY LabelFound DEF Row
<1>2. ASSUME NEW c \in DOMAIN columns
      PROVE  /\ cells[c] \in Cells
             /\ cells[c].path = columns[c].path
             /\ Dated(i) /\ cells[c].path = "created" =>
                  cells[c].shown \in {"age", "unknown"}
  <2> DEFINE path == columns[c].path
             value == FindResults(columns[c], i)
  <2>1. /\ cells[c].path = path /\ cells[c].shown = Shown(columns[c].type, value)
        /\ cells[c] = [path |-> path, shown |-> Shown(columns[c].type, value)]
    BY DEF CellFor, Object
  <2>2. i.created \in Strings /\ \A p \in DOMAIN i.fields : i.fields[p] \in Values
    BY ItemsAssumption
  <2>3. value \in Values /\ (path = "created" => value = i.created)
    <3>1. CASE path = "created"
      <4>1. value = i.created
        BY <3>1, Zenon DEF FindResults
      <4> QED
        BY <2>2, <4>1 DEF Strings, Values
    <3>2. CASE path # "created" /\ path \in DOMAIN i.fields
      <4>1. value = i.fields[path]
        BY <3>2, Zenon DEF FindResults
      <4> QED
        BY <2>2, <3>2, <4>1
    <3>3. CASE path # "created" /\ path \notin DOMAIN i.fields
      <4>1. value = "absent"
        BY <3>3, Zenon DEF FindResults
      <4> QED
        BY <3>3, <4>1 DEF Values
    <3> QED
      BY <3>1, <3>2, <3>3
  <2> HIDE DEF value, cells
  <2>4. cells[c] \in Cells
    BY <2>1, <2>3, ShownFacts DEF Cells
  <2>5. ASSUME Dated(i), path = "created"
        PROVE  cells[c].shown \in {"age", "unknown"}
    <3>1. value \in Strings /\ value # "text" /\ columns[c].type = "date"
      BY <2>2, <2>3, <2>5 DEF Dated
    <3> QED
      BY <2>1, <2>3, <3>1, ShownFacts
  <2> QED
    BY <2>1, <2>4, <2>5
<1>3. DOMAIN columns = 1 .. Len(columns) /\ Len(columns) \in Nat
  BY LenProperties
<1> HIDE DEF cells
<1>4. cells \in [1 .. Len(columns) -> Cells]
  BY <1>2, <1>3 DEF cells
<1>5. cells \in Seq(Cells) /\ DOMAIN cells = DOMAIN columns
  BY <1>3, <1>4, FunctionIsSeq
<1> QED
  BY <1>1, <1>2, <1>5
-----------------------------------------------------------------------------
(* The backend's answer: found objects, none twice, as many as it may.     *)
LEMMA AnswerFacts ==
  ASSUME NEW found \in SUBSET Items, IsFiniteSet(found),
         NEW s \in SearchAnswers(found)
  PROVE  /\ s \in Seq(Items)
         /\ Elements(s) \subseteq found
         /\ \A j, k \in DOMAIN s : s[j] = s[k] => j = k
         /\ Cardinality(Elements(s)) = IF Cardinality(found) < Limit
                                       THEN Cardinality(found) ELSE Limit
<1> DEFINE size == IF Cardinality(found) < Limit
                   THEN Cardinality(found) ELSE Limit
<1>1. size \in Nat
  BY FS_CardinalityType, ListAssumption
<1>2. /\ s \in [1 .. size -> found]
      /\ \A j, k \in 1 .. size : s[j] = s[k] => j = k
  BY DEF SearchAnswers
<1> HIDE DEF size
<1>3. s \in [1 .. size -> Items] /\ DOMAIN s = 1 .. size
  BY <1>2
<1>4. s \in Seq(Items)
  BY <1>1, <1>3, FunctionIsSeq
<1>5. Elements(s) \subseteq found
  BY <1>2, <1>3 DEF Elements
<1>6. Cardinality(Elements(s)) = size
  BY <1>1, <1>2, CountElements
<1> QED
  BY <1>2, <1>3, <1>4, <1>5, <1>6 DEF size

(* What is found is seen.                                                  *)
LEMMA FoundFacts ==
  ASSUME NEW q, index \subseteq Items, IsFiniteSet(index)
  PROVE  /\ Matching(q) \subseteq index
         /\ IsFiniteSet(Matching(q))
         /\ \A i \in Matching(q) : \A f \in Filters(q) : i[f[1]] = f[2]
<1>1. Matching(q) \subseteq index
  BY DEF Matching
<1>2. IsFiniteSet(Matching(q))
  BY <1>1, FS_Subset
<1>3. \A i \in Matching(q) : \A f \in Filters(q) : i[f[1]] = f[2]
  BY DEF Matching
<1> QED
  BY <1>1, <1>2, <1>3
-----------------------------------------------------------------------------
(* The induction: Init establishes IInv, every action preserves it.        *)
LEMMA InitInv == Init => IInv
<1> SUFFICES ASSUME Init PROVE IInv
  OBVIOUS
<1> USE DEF Init
<1>1. << >> \in Seq(Items) /\ << >> \in Seq(Objects) /\ DOMAIN << >> = {}
  BY EmptySeq
<1>2. TypeOK
  BY <1>1 DEF TypeOK
<1>3. SeenOK
  BY FS_EmptySet DEF SeenOK
<1>4. ListOK
  BY <1>1 DEF ListOK, Elements
<1>5. CollectOK /\ TableOK /\ PanicsExplained
  BY DEF CollectOK, Answered, TableOK, PanicsExplained
<1> QED
  BY <1>2, <1>3, <1>4, <1>5 DEF IInv

LEMMA IndexInv ==
  ASSUME IInv, NEW i \in Items, IndexStep(i) PROVE IInv'
<1> USE DEF IInv, IndexStep
<1>1. IsFiniteSet(index')
  BY FS_AddElement, FS_RemoveElement DEF SeenOK
<1>2. TypeOK'
  BY DEF TypeOK
<1>3. SeenOK'
  BY <1>1 DEF SeenOK, Filters, CommonFilters
<1>4. ListOK'
  BY DEF ListOK, Elements
<1>5. CollectOK'
  BY DEF CollectOK, Collecting, Answered, Listed, Elements
<1>6. TableOK' /\ PanicsExplained'
  BY DEF TableOK, Answered, PanicsExplained
<1> QED
  BY <1>2, <1>3, <1>4, <1>5, <1>6

LEMMA AskInv ==
  ASSUME IInv, NEW q \in Queries, Ask(q) PROVE IInv'
<1> USE DEF IInv, Ask
<1>1. << >> \in Seq(Items) /\ << >> \in Seq(Objects) /\ DOMAIN << >> = {}
  BY EmptySeq
<1>2. TypeOK'
  BY <1>1 DEF TypeOK
<1>3. SeenOK'
  BY FS_EmptySet DEF SeenOK
<1>4. ListOK'
  BY <1>1 DEF ListOK, Elements
<1>5. CollectOK' /\ TableOK' /\ PanicsExplained'
  BY DEF CollectOK, Answered, TableOK, PanicsExplained
<1> QED
  BY <1>2, <1>3, <1>4, <1>5

(* The two ways to end without a list.                                     *)
LEMMA EndInv ==
  ASSUME IInv, SelectFields \/ SearchFails PROVE IInv'
<1> USE DEF IInv, SelectFields, SearchFails, End
<1>1. TypeOK'
  BY DEF TypeOK
<1>2. SeenOK'
  BY DEF SeenOK, Filters, CommonFilters
<1>3. ListOK'
  BY DEF ListOK, Elements
<1>4. CollectOK' /\ TableOK'
  BY DEF CollectOK, Answered, TableOK
<1>5. PanicsExplained'
  BY DEF ListOK, PanicsExplained
<1> QED
  BY <1>1, <1>2, <1>3, <1>4, <1>5

LEMMA SearchInv ==
  ASSUME IInv, Search PROVE IInv'
<1> DEFINE found == Matching(query)
<1>1. /\ phase = "search" /\ phase' = "collect"
      /\ seen' = found /\ rest' \in SearchAnswers(found)
      /\ UNCHANGED <<index, query, list, table, outcome>>
  BY DEF Search
<1>2. /\ found \subseteq index /\ IsFiniteSet(found)
      /\ \A i \in found : \A f \in Filters(query) : i[f[1]] = f[2]
  BY FoundFacts DEF IInv, TypeOK, SeenOK
<1>3. index \subseteq Items /\ found \in SUBSET Items
  BY <1>2 DEF IInv, TypeOK
<1> HIDE DEF found
<1>4. /\ rest' \in Seq(Items)
      /\ Elements(rest') \subseteq found
      /\ \A j, k \in DOMAIN rest' : rest'[j] = rest'[k] => j = k
      /\ Cardinality(Elements(rest')) = IF Cardinality(found) < Limit
                                        THEN Cardinality(found) ELSE Limit
  BY <1>1, <1>2, <1>3, AnswerFacts
<1>5. list = << >> /\ table = << >> /\ list' = list /\ table' = table
  BY <1>1 DEF IInv, ListOK
<1>6. TypeOK'
  BY <1>1, <1>3, <1>4, <1>5 DEF IInv, TypeOK
<1>7. SeenOK'
  BY <1>1, <1>2 DEF IInv, SeenOK, Filters, CommonFilters
<1>8. DOMAIN list' = {}
  BY <1>5, EmptySeq
<1>9. ListOK'
  BY <1>1, <1>4, <1>8 DEF ListOK, Elements
<1>10. CollectOK'
  <2>1. PICK answer : answer = Elements(rest')
    OBVIOUS
  <2>2. answer \in SUBSET seen'
    BY <1>1, <1>4, <2>1
  <2>3. Listed' = {i \in answer \ Elements(rest') : Dated(i)}
    BY <1>8, <2>1 DEF Listed
  <2>4. Collecting(answer)'
    BY <1>1, <1>4, <1>8, <2>1, <2>3 DEF Collecting, Elements
  <2> QED
    BY <1>1, <2>2, <2>4 DEF CollectOK, Answered
<1>11. TableOK' /\ PanicsExplained'
  BY <1>1 DEF TableOK, Answered, PanicsExplained
<1> QED
  BY <1>6, <1>7, <1>9, <1>10, <1>11 DEF IInv

(* One item: it is listed, or dropped, and no longer still to be looked    *)
(* at; or it is broken, and the list ends.                                 *)
LEMMA CollectPanics ==
  ASSUME IInv, Collect, Head(rest).broken PROVE IInv'
<1> USE DEF IInv, Collect, CollectItem, End
<1>1. Head(rest) \in Elements(rest)
  <2>1. Head(rest) = rest[1] /\ 1 \in DOMAIN rest
    BY HeadTailProperties, EmptySeq, LenProperties DEF TypeOK
  <2> QED
    BY <2>1 DEF Elements
<1>2. Head(rest) \in seen
  BY <1>1 DEF ListOK
<1>3. TypeOK'
  BY DEF TypeOK
<1>4. SeenOK'
  BY DEF SeenOK, Filters, CommonFilters
<1>5. ListOK'
  BY DEF ListOK, Elements
<1>6. CollectOK' /\ TableOK'
  BY DEF CollectOK, Answered, TableOK
<1>7. PanicsExplained'
  BY <1>2 DEF PanicsExplained
<1> QED
  BY <1>3, <1>4, <1>5, <1>6, <1>7

LEMMA CollectInv ==
  ASSUME IInv, Collect, ~Head(rest).broken PROVE IInv'
<1> DEFINE i == Head(rest)
<1>1. /\ phase = "collect" /\ rest # << >> /\ rest' = Tail(rest)
      /\ list' = IF Dated(i) THEN Append(list, Object(i)) ELSE list
      /\ UNCHANGED <<index, phase, query, seen, table, outcome>>
  BY DEF Collect, CollectItem, Collected
<1>2. PICK answer \in SUBSET seen : Collecting(answer)
  BY <1>1 DEF IInv, CollectOK
<1>3. rest \in Seq(Items) /\ list \in Seq(Objects) /\ seen \subseteq Items
  BY DEF IInv, TypeOK
<1>4. \A j, k \in DOMAIN rest : rest[j] = rest[k] => j = k
  BY <1>2 DEF Collecting
<1>5. /\ i \in Elements(rest)
      /\ Elements(Tail(rest)) = Elements(rest) \ {i}
      /\ \A j, k \in DOMAIN Tail(rest) : Tail(rest)[j] = Tail(rest)[k] => j = k
  BY <1>1, <1>3, <1>4, TailElements
<1>6. i \in seen /\ i \in Items /\ i \in answer
  BY <1>2, <1>3, <1>5 DEF IInv, ListOK, Collecting
<1>7. Tail(rest) \in Seq(Items)
  BY <1>1, <1>3, HeadTailProperties
<1> HIDE DEF i
<1>8. Object(i).rawdata = i /\ (Dated(i) => Object(i) \in Objects)
  BY <1>6, ItemsAssumption DEF Object, Objects
<1>9. Elements(rest)' = Elements(rest) \ {i}
  BY <1>1, <1>5 DEF Elements
<1>10. /\ list' \in Seq(Objects)
       /\ \A k \in DOMAIN list' : /\ list'[k] = Object(list'[k].rawdata)
                                  /\ list'[k].rawdata \in seen
                                  /\ Dated(list'[k].rawdata)
       /\ \A j, k \in DOMAIN list' :
            list'[j].rawdata = list'[k].rawdata => j = k
       /\ Listed' = {x \in answer \ (Elements(rest) \ {i}) : Dated(x)}
  <2>1. /\ \A k \in DOMAIN list : /\ list[k] = Object(list[k].rawdata)
                                  /\ list[k].rawdata \in seen
                                  /\ Dated(list[k].rawdata)
        /\ \A j, k \in DOMAIN list : list[j].rawdata = list[k].rawdata => j = k
        /\ Listed = {x \in answer \ Elements(rest) : Dated(x)}
    BY <1>2 DEF IInv, ListOK, Collecting
  <2>2. CASE ~Dated(i)
    BY <1>1, <1>3, <2>1, <2>2 DEF Listed
  <2>3. CASE Dated(i)
    <3> DEFINE n == Len(list)
    <3>1. /\ list' = Append(list, Object(i)) /\ Object(i) \in Objects
          /\ list \in Seq(Objects)
      BY <1>1, <1>3, <1>8, <2>3
    <3>2. /\ n \in Nat /\ DOMAIN list = 1 .. n /\ DOMAIN list' = 1 .. n + 1
          /\ list' \in Seq(Objects)
          /\ \A k \in 1 .. n : list'[k] = list[k]
          /\ list'[n + 1] = Object(i)
      BY <3>1, AppendProperties, LenProperties
    <3> HIDE DEF n
    <3>3. \A k \in DOMAIN list' : k \in DOMAIN list \/ k = n + 1
      BY <3>2
    <3>4. n + 1 \in DOMAIN list' /\ n + 1 \notin DOMAIN list
      BY <3>2
    <3>5. i \notin Listed
      BY <1>5, <2>1
    <3>6. \A k \in DOMAIN list : list[k].rawdata # i
      BY <3>5 DEF Listed
    <3>7. Listed' = Listed \cup {i}
      <4>1. Listed' \subseteq Listed \cup {i}
        BY <1>8, <3>2, <3>3 DEF Listed
      <4>2. i \in Listed'
        BY <1>8, <3>2, <3>4 DEF Listed
      <4>3. Listed \subseteq Listed'
        BY <3>2 DEF Listed
      <4> QED
        BY <4>1, <4>2, <4>3
    <3>8. Listed' = {x \in answer \ (Elements(rest) \ {i}) : Dated(x)}
      BY <1>6, <2>1, <2>3, <3>7
    <3>9. \A k \in DOMAIN list' : /\ list'[k] = Object(list'[k].rawdata)
                                  /\ list'[k].rawdata \in seen
                                  /\ Dated(list'[k].rawdata)
      BY <1>6, <1>8, <2>1, <2>3, <3>2, <3>3
    <3>10. \A j, k \in DOMAIN list' :
             list'[j].rawdata = list'[k].rawdata => j = k
      BY <1>8, <2>1, <3>2, <3>3, <3>6
    <3> QED
      BY <3>2, <3>8, <3>9, <3>10
  <2> QED
    BY <2>2, <2>3
<1>11. TypeOK'
  BY <1>1, <1>7, <1>10 DEF IInv, TypeOK
<1>12. SeenOK'
  BY <1>1 DEF IInv, SeenOK, Filters, CommonFilters
<1>13. ListOK'
  <2>1. Elements(rest)' \subseteq seen'
    BY <1>1, <1>9 DEF IInv, ListOK
  <2> QED
    BY <1>1, <1>10, <2>1 DEF ListOK
<1>14. CollectOK'
  <2>1. Collecting(answer)'
    <3>1. /\ Cardinality(answer) = IF Cardinality(seen') < Limit
                                   THEN Cardinality(seen') ELSE Limit
          /\ Elements(rest)' \subseteq answer
      BY <1>1, <1>2, <1>9 DEF Collecting
    <3>2. \A j, k \in DOMAIN rest' : rest'[j] = rest'[k] => j = k
      BY <1>1, <1>5
    <3>3. Listed' = {x \in answer \ Elements(rest)' : Dated(x)}
      BY <1>9, <1>10
    <3> QED
      BY <1>10, <3>1, <3>2, <3>3 DEF Collecting
  <2> QED
    BY <1>1, <1>2, <2>1 DEF CollectOK, Answered
<1>15. TableOK' /\ PanicsExplained'
  BY <1>1 DEF TableOK, Answered, PanicsExplained
<1> QED
  BY <1>11, <1>12, <1>13, <1>14, <1>15 DEF IInv
-----------------------------------------------------------------------------
(* The table of a list, whose objects are those of dated items.            *)
LEMMA TableFacts ==
  ASSUME TypeOK, ListOK, NEW q
  PROVE  /\ TableFor(q, list).rows \in
              Seq([cluster : Clusters, cells : Seq(Cells)])
         /\ TableFor(q, list) # << >>
         /\ Len(TableFor(q, list).rows) = Len(list)
         /\ DOMAIN TableFor(q, list).rows = DOMAIN list
         /\ \A k \in DOMAIN list :
              LET row == TableFor(q, list).rows[k] IN
              /\ row.cluster = list[k].rawdata.cluster
              /\ DOMAIN row.cells = DOMAIN PrinterfFor(q)
              /\ \A c \in DOMAIN PrinterfFor(q) :
                   /\ row.cells[c].path = PrinterfFor(q)[c].path
                   /\ row.cells[c].path = "created" =>
                        row.cells[c].shown \in {"age", "unknown"}
<1> DEFINE columns == PrinterfFor(q)
           rows == [k \in DOMAIN list |-> Row(q, columns, list[k])]
           R == [cluster : Clusters, cells : Seq(Cells)]
<1>1. TableFor(q, list).rows = rows /\ TableFor(q, list) # << >>
  <2>1. TableFor(q, list) = [headers |-> IF q.noHeaders THEN << >> ELSE columns,
                             rows |-> rows]
    BY DEF TableFor
  <2>2. DOMAIN TableFor(q, list) = {"headers", "rows"} /\ DOMAIN << >> = {}
    BY <2>1, EmptySeq
  <2> QED
    BY <2>1, <2>2
<1>2. /\ columns \in Seq(AllColumns)
      /\ \A c \in DOMAIN columns :
           /\ columns[c].path \in Paths
           /\ columns[c].path = "created" => columns[c].type = "date"
  BY PrinterFacts
<1> HIDE DEF columns
<1>3. ASSUME NEW k \in DOMAIN list
      PROVE  /\ rows[k] \in R
             /\ rows[k].cluster = list[k].rawdata.cluster
             /\ DOMAIN rows[k].cells = DOMAIN columns
             /\ \A c \in DOMAIN columns :
                  /\ rows[k].cells[c].path = columns[c].path
                  /\ rows[k].cells[c].path = "created" =>
                       rows[k].cells[c].shown \in {"age", "unknown"}
  <2>1. PICK i \in Items : list[k] = Object(i) /\ Dated(i) /\ list[k].rawdata = i
    BY <1>3 DEF TypeOK, ListOK
  <2> DEFINE row == Row(q, columns, Object(i))
  <2>2. rows[k] = row
    BY <2>1
  <2>3. /\ row.cluster = i.cluster
        /\ DOMAIN row.cells = DOMAIN columns
        /\ row.cells \in Seq(Cells)
        /\ \A c \in DOMAIN columns :
             /\ row.cells[c].path = columns[c].path
             /\ Dated(i) /\ row.cells[c].path = "created" =>
                  row.cells[c].shown \in {"age", "unknown"}
    BY <1>2, RowFacts
  <2>4. row = [cluster |-> row.cluster, cells |-> row.cells]
    BY DEF Row
  <2> HIDE DEF row, rows
  <2>5. row \in R
    BY <2>3, <2>4, ItemsAssumption
  <2> QED
    BY <2>1, <2>2, <2>3, <2>5
<1>4. DOMAIN list = 1 .. Len(list) /\ Len(list) \in Nat
  BY LenProperties DEF TypeOK
<1>5. DOMAIN rows = DOMAIN list
  OBVIOUS
<1> HIDE DEF R, rows
<1>6. rows \in [1 .. Len(list) -> R]
  BY <1>3, <1>4 DEF rows
<1>7. rows \in Seq(R) /\ Len(rows) = Len(list)
  BY <1>4, <1>6, FunctionIsSeq
<1> QED
  BY <1>1, <1>3, <1>5, <1>7 DEF R, columns

LEMMA ConvertInv ==
  ASSUME IInv, Convert PROVE IInv'
<1>1. /\ phase = "collect" /\ rest = << >> /\ phase' = "done"
      /\ outcome' = Result
      /\ UNCHANGED <<index, query, seen, rest, list>>
  BY DEF Convert, End
<1>2. \A k \in DOMAIN list : HasCluster(query, list[k])
  <2>1. \A k \in DOMAIN list : list[k] = Object(list[k].rawdata)
    BY DEF IInv, ListOK
  <2> QED
    BY <2>1, LabelFound
<1>3. Result = IF query.table THEN "table" ELSE "list"
  <2>1. CASE query.table
    <3>1. Result = "table"
      BY <1>2, <2>1, Zenon DEF Result
    <3> QED
      BY <2>1, <3>1
  <2>2. CASE ~query.table
    <3>1. Result = "list"
      BY <2>2, Zenon DEF Result
    <3> QED
      BY <2>2, <3>1
  <2> QED
    BY <2>1, <2>2
<1>4. query.table => table' = TableFor(query, list)
  BY <1>3 DEF Convert, TableFor
<1>5. ~query.table => table' = << >>
  BY <1>3 DEF Convert
<1>6. TypeOK'
  <2>1. table' # << >> =>
          table'.rows \in Seq([cluster : Clusters, cells : Seq(Cells)])
    BY <1>4, <1>5, TableFacts DEF IInv
  <2> QED
    BY <1>1, <1>3, <2>1 DEF IInv, TypeOK
<1>7. SeenOK'
  BY <1>1 DEF IInv, SeenOK, Filters, CommonFilters
<1>8. ListOK'
  BY <1>1 DEF IInv, ListOK, Elements
<1>9. CollectOK'
  BY <1>1 DEF IInv, CollectOK, Collecting, Answered, Listed, Elements
<1>10. TableOK'
  BY <1>1, <1>4 DEF TableOK, TableFor, PrinterfFor, Known, Key
<1>11. PanicsExplained'
  BY <1>1, <1>3 DEF PanicsExplained
<1> QED
  BY <1>6, <1>7, <1>8, <1>9, <1>10, <1>11 DEF IInv

LEMMA NextInv == IInv /\ [Next]_vars => IInv'
<1> SUFFICES ASSUME IInv, [Next]_vars PROVE IInv'
  OBVIOUS
<1>1. CASE \E i \in Items : IndexStep(i)
  BY <1>1, IndexInv
<1>2. CASE \E q \in Queries : Ask(q)
  BY <1>2, AskInv
<1>3. CASE SelectFields \/ SearchFails
  BY <1>3, EndInv
<1>4. CASE Search
  BY <1>4, SearchInv
<1>5. CASE Collect
  BY <1>5, CollectPanics, CollectInv
<1>6. CASE Convert
  BY <1>6, ConvertInv
<1>7. CASE UNCHANGED vars
  <2> USE <1>7 DEF IInv, vars
  <2>1. TypeOK'
    BY DEF TypeOK
  <2>2. SeenOK'
    BY DEF SeenOK, Filters, CommonFilters
  <2>3. ListOK'
    BY DEF ListOK, Elements
  <2>4. CollectOK'
    BY DEF CollectOK, Collecting, Answered, Listed, Elements
  <2>5. TableOK' /\ PanicsExplained'
    BY DEF TableOK, Answered, PanicsExplained
  <2> QED
    BY <2>1, <2>2, <2>3, <2>4, <2>5
<1> QED
  BY <1>1, <1>2, <1>3, <1>4, <1>5, <1>6, <1>7 DEF Next

(* The invariant holds at every step of every list, whatever the backend   *)
(* answers.                                                                *)
THEOREM Invariance == Spec => []IInv
<1>1. Init => IInv
  BY InitInv
<1>2. IInv /\ [Next]_vars => IInv'
  BY NextInv
<1> QED
  BY <1>1, <1>2, PTL DEF Spec
-----------------------------------------------------------------------------
(* Every variable keeps its type: every object of a list has a cluster and *)
(* a creation time, whatever comes and goes in the index meanwhile.        *)
THEOREM TypeCorrect == Spec => []TypeOK
<1>1. IInv => TypeOK
  BY DEF IInv
<1> QED
  BY <1>1, Invariance, PTL

(* A list panics for a field selector or a broken item that was found, and *)
(* for no other reason.                                                    *)
THEOREM PanicsHaveReasons == Spec => []PanicsExplained
<1>1. IInv => PanicsExplained
  BY DEF IInv
<1> QED
  BY <1>1, Invariance, PTL

(* What is listed passed every filter when the index was read, however     *)
(* long ago, and although the list itself filters nothing.                 *)
THEOREM ListedAsAsked == Spec => []ListMatchesRequest
<1>1. IInv => ListMatchesRequest
  <2> SUFFICES ASSUME IInv, NEW i \in Listed
               PROVE  /\ i.kind_plural = query.resource
                      /\ i.apiversion = query.version
                      /\ query.namespace # None => i.namespace = query.namespace
                      /\ query.group # Core => i.apigroup = query.group
    BY DEF ListMatchesRequest
  <2>1. \A f \in Filters(query) : i[f[1]] = f[2]
    BY DEF IInv, ListOK, SeenOK, Listed
  <2>2. /\ <<"kind_plural", query.resource>> \in Filters(query)
        /\ <<"apiversion", query.version>> \in Filters(query)
    BY DEF Filters, CommonFilters
  <2>3. query.namespace # None =>
          <<"namespace", query.namespace>> \in Filters(query)
    BY DEF Filters
  <2>4. query.group # Core =>
          <<"apigroup", query.group>> \in Filters(query)
    BY DEF Filters, CommonFilters
  <2>5. ASSUME NEW name, NEW value, <<name, value>> \in Filters(query)
        PROVE  i[name] = value
    BY <2>1, <2>5
  <2>6. i["kind_plural"] = query.resource /\ i["apiversion"] = query.version
    BY <2>2, <2>5
  <2>7. query.namespace # None => i["namespace"] = query.namespace
    BY <2>3, <2>5
  <2>8. query.group # Core => i["apigroup"] = query.group
    BY <2>4, <2>5
  <2> QED
    BY <2>6, <2>7, <2>8
<1> QED
  BY <1>1, Invariance, PTL

(* A list leaves out nothing it could have: what was found and is neither  *)
(* listed nor undated was cut off by the limit of the query, which then    *)
(* let no fewer through than it may.                                       *)
THEOREM ListsAreComplete == Spec => []ListIsComplete
<1>1. IInv => ListIsComplete
  <2> SUFFICES ASSUME IInv, Answered PROVE ListIsComplete
    BY DEF ListIsComplete
  <2> DEFINE valid == {i \in seen : i.created # "text"}
  <2>1. PICK answer \in SUBSET seen : Collecting(answer) /\ rest = << >>
    BY DEF IInv, CollectOK
  <2>2. Elements(rest) = {}
    BY <2>1, EmptySeq DEF Elements
  <2>3. /\ Listed = {i \in answer : Dated(i)}
        /\ Cardinality(answer) = IF Cardinality(seen) < Limit
                                 THEN Cardinality(seen) ELSE Limit
        /\ \A j, k \in DOMAIN list : list[j].rawdata = list[k].rawdata => j = k
    BY <2>1, <2>2 DEF Collecting
  <2>4. Listed \subseteq valid
    BY <2>3 DEF Dated
  <2>5. Cardinality(Listed) = Len(list)
    <3> DEFINE f == [k \in 1 .. Len(list) |-> list[k].rawdata]
    <3>1. DOMAIN list = 1 .. Len(list) /\ Len(list) \in Nat
      BY LenProperties DEF IInv, TypeOK
    <3>2. Listed = Elements(f)
      BY <3>1 DEF Listed, Elements
    <3>3. f \in [1 .. Len(list) -> Listed]
      BY <3>1 DEF Listed
    <3>4. \A j, k \in 1 .. Len(list) : f[j] = f[k] => j = k
      BY <2>3, <3>1
    <3> HIDE DEF f
    <3> QED
      BY <3>1, <3>2, <3>3, <3>4, CountElements
  <2>6. IsFiniteSet(seen) /\ IsFiniteSet(answer) /\ IsFiniteSet(seen \ answer)
    BY <2>1, FS_Subset DEF IInv, SeenOK
  <2>7. /\ Cardinality(seen) \in Nat /\ Cardinality(answer) \in Nat
        /\ Limit \in Nat
    BY <2>6, FS_CardinalityType, ListAssumption
  <2>8. CASE Cardinality(seen) < Limit
    <3>1. Cardinality(answer) = Cardinality(seen)
      BY <2>3, <2>8
    <3>2. answer = seen
      BY <2>1, <2>6, <3>1, FS_Subset
    <3> QED
      BY <2>3, <2>4, <2>5, <3>2 DEF ListIsComplete, Dated
  <2>9. CASE ~(Cardinality(seen) < Limit)
    <3>1. Cardinality(answer) = Limit
      BY <2>3, <2>9
    <3>2. Cardinality(seen \ answer) = Cardinality(seen) - Limit
      <4>1. seen \cap answer = answer
        BY <2>1
      <4>2. Cardinality(seen \ answer)
              = Cardinality(seen) - Cardinality(seen \cap answer)
        BY <2>6, FS_Difference
      <4> QED
        BY <3>1, <4>1, <4>2
    <3>3. valid \ Listed \subseteq seen \ answer
      BY <2>3 DEF Dated
    <3>4. /\ Cardinality(valid \ Listed) <= Cardinality(seen \ answer)
          /\ Cardinality(valid \ Listed) \in Nat
      BY <2>6, <3>3, FS_Subset, FS_CardinalityType
    <3>5. Cardinality(valid \ Listed) + Limit <= Cardinality(seen)
      BY <2>7, <3>2, <3>4
    <3> QED
      BY <2>4, <2>5, <3>5 DEF ListIsComplete
  <2> QED
    BY <2>8, <2>9
<1> QED
  BY <1>1, Invariance, PTL

(* The k-th row of a table is the k-th object's and has a cell per column. *)
THEOREM RowsAreWhole == Spec => []RowsFitHeaders
<1>1. IInv => RowsFitHeaders
  <2> SUFFICES ASSUME IInv, Answered, query.table PROVE RowsFitHeaders
    BY DEF RowsFitHeaders
  <2>1. /\ table = TableFor(query, list) /\ TypeOK /\ ListOK
    BY DEF IInv, TableOK
  <2>2. query.noHeaders \/ table.headers = PrinterfFor(query)
    BY <2>1 DEF TableFor
  <2>3. /\ Len(table.rows) = Len(list) /\ DOMAIN table.rows = DOMAIN list
        /\ \A k \in DOMAIN list :
             /\ table.rows[k].cluster = list[k].rawdata.cluster
             /\ DOMAIN table.rows[k].cells = DOMAIN PrinterfFor(query)
             /\ \A c \in DOMAIN PrinterfFor(query) :
                  table.rows[k].cells[c].path = PrinterfFor(query)[c].path
    BY <2>1, TableFacts
  <2> QED
    BY <2>2, <2>3 DEF RowsFitHeaders
<1> QED
  BY <1>1, Invariance, PTL

(* No table has an invalid age, with any catalog of columns.               *)
THEOREM AgesStandUp == Spec => []AgesAreValid
<1>1. IInv => AgesAreValid
  <2> SUFFICES ASSUME IInv, Answered, query.table PROVE AgesAreValid
    BY DEF AgesAreValid
  <2>1. /\ table = TableFor(query, list) /\ TypeOK /\ ListOK
    BY DEF IInv, TableOK
  <2>2. /\ DOMAIN table.rows = DOMAIN list
        /\ \A k \in DOMAIN list :
             /\ DOMAIN table.rows[k].cells = DOMAIN PrinterfFor(query)
             /\ \A c \in DOMAIN PrinterfFor(query) :
                  table.rows[k].cells[c].path = "created" =>
                    table.rows[k].cells[c].shown \in {"age", "unknown"}
    BY <2>1, TableFacts
  <2> QED
    BY <2>2 DEF AgesAreValid
<1> QED
  BY <1>1, Invariance, PTL
=============================================================================
