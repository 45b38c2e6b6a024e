---------------------------- MODULE ReadingProofs ----------------------------
(***************************************************************************)
(* Theorems about what is read in steps while others write.  Reads, for any*)
(* records, any order of the answers and any number of writes on both sides*)
(* meanwhile: what is answered belongs together, and nothing that lasts is *)
(* lost.  Paging, for any records and sizes of pages: a walk meets each    *)
(* record that lasts once, in order.                                       *)
(***************************************************************************)
EXTENDS Reads, Paging, FiniteSetTheorems, SequenceTheorems, TLAPS

(* Reads.                                                                  *)

Members(s) == {s[i] : i \in DOMAIN s}
Distinct(s) == \A i, j \in DOMAIN s : s[i] = s[j] => i = j

Steps == {"idle", "check", "local", "remote", "parts", "byid", "done", "broken"}
Read == [kind : Kinds \cup {None}, at : Steps, wanted : SUBSET RecordIds, rows : Seq(RecordIds),
         far : Seq(RecordIds \cup {None}), back : SUBSET Nat, faulty : BOOLEAN,
         answer : Seq([id : RecordIds, far : RecordIds \cup {None}, extra : RecordIds \cup {None}])]

TypesRight ==
    /\ here \in SUBSET RecordIds /\ there \in SUBSET RecordIds
    /\ refs \in Seq(RecordIds) /\ op \in Read

(* What lasts is on both sides, and was asked for; nothing is answered      *)
(* before the read is done.                                                 *)
AskedRight ==
    /\ steady \subseteq op.wanted \cap here \cap there
    /\ op.at # "idle" =>
          /\ op.kind \in {"one", "oneremote"} => Cardinality(op.wanted) = 1
          /\ op.kind = "field" => op.wanted = RefIds /\ op.at # "remote"
    /\ op.at \in {"idle", "check", "local", "remote"} => op.answer = <<>> /\ op.back = {}

(* A list of ids that a read got from one side: each once, all asked for,   *)
(* all that last.                                                           *)
Listed(s) == Distinct(s) /\ Members(s) \subseteq op.wanted /\ steady \subseteq Members(s)

(* The local rows are known, their remote parts come back one by one.       *)
PartsRight ==
    op.at = "parts" =>
        /\ Listed(op.rows) /\ op.kind # "count"
        /\ DOMAIN op.far = DOMAIN op.rows
        /\ \A i \in DOMAIN op.rows :
              /\ op.far[i] \in {op.rows[i], None}
              /\ i \in op.back /\ op.rows[i] \in steady /\ ~op.faulty => op.far[i] = op.rows[i]

(* The remote ids are known, the local rows are still to be read.           *)
FarRight ==
    op.at = "byid" =>
        op.far \in Seq(RecordIds) /\ Listed(op.far) /\ op.far # <<>> /\ op.kind # "field"

ReadInv == TypesRight /\ AskedRight /\ PartsRight /\ FarRight /\ AnswersBelongTogether

-----------------------------------------------------------------------------
(* What a find returns: each matching record once, in some order.           *)
LEMMA OrdersAre ==
  ASSUME NEW S \in SUBSET RecordIds, NEW s \in Orders(S)
  PROVE  s \in Seq(S) /\ Distinct(s) /\ Members(s) = S /\ s \in Seq(RecordIds)
  <1> DEFINE n == Cardinality(S)
  <1>1. IsFiniteSet(S) /\ n \in Nat
    BY RecordsAssumption, FS_Subset, FS_CardinalityType
  <1>2. s \in [1 .. n -> S] /\ \A i, j \in DOMAIN s : s[i] = s[j] => i = j
    BY Zenon DEF Orders
  <1> HIDE DEF n
  <1>3. s \in Injection(1 .. n, S)
    BY <1>2 DEF Injection, IsInjective
  <1>4. Cardinality(1 .. n) = n
    BY <1>1, FS_Interval
  <1>5. s \in Surjection(1 .. n, S)
    BY <1>1, <1>3, <1>4, FS_Injection DEF n
  <1>6. Members(s) = S
    BY <1>2, <1>5 DEF Members, Surjection
  <1> QED BY <1>1, <1>2, <1>6 DEF Distinct

(* An answer with the ids of distinct rows holds each of them once.         *)
LEMMA AnswersCounted ==
  ASSUME NEW rows \in Seq(RecordIds), Distinct(rows), NEW answer,
         answer \in Seq([id : RecordIds, far : RecordIds \cup {None},
                         extra : RecordIds \cup {None}]),
         DOMAIN answer = DOMAIN rows, \A i \in DOMAIN rows : answer[i].id = rows[i]
  PROVE  /\ {answer[i].id : i \in DOMAIN answer} = Members(rows)
         /\ Cardinality({answer[i].id : i \in DOMAIN answer}) = Len(answer)
  <1> DEFINE n == Len(rows)
             map == [i \in 1 .. n |-> rows[i]]
  <1>1. n \in Nat /\ DOMAIN rows = 1 .. n /\ Len(answer) = n
    OBVIOUS
  <1>2. {answer[i].id : i \in DOMAIN answer} = Members(rows)
    BY DEF Members
  <1>3. map \in Bijection(1 .. n, Members(rows))
    <2>1. map \in [1 .. n -> Members(rows)]
      BY <1>1 DEF Members
    <2>2. IsInjective(map)
      BY <1>1 DEF IsInjective, Distinct
    <2>3. \A t \in Members(rows) : \E i \in 1 .. n : map[i] = t
      BY <1>1 DEF Members
    <2> QED BY <2>1, <2>2, <2>3 DEF Bijection, Injection, Surjection
  <1>4. IsFiniteSet(1 .. n) /\ Cardinality(1 .. n) = n
    <2> HIDE DEF n
    <2> QED BY <1>1, FS_Interval
  <1> HIDE DEF map
  <1>5. Cardinality(Members(rows)) = n
    BY <1>3, <1>4, FS_Bijection DEF ExistsBijection
  <1> QED BY <1>1, <1>2, <1>5

(* An answer of distinct rows, each with parts of its own.                  *)
LEMMA AnswerRight ==
  ASSUME NEW rows \in Seq(RecordIds), Distinct(rows),
         op'.answer \in Seq([id : RecordIds, far : RecordIds \cup {None},
                             extra : RecordIds \cup {None}]),
         DOMAIN op'.answer = DOMAIN rows,
         Members(rows) \subseteq op'.wanted,
         ~op'.faulty => steady' \subseteq Members(rows),
         \A i \in DOMAIN rows :
            /\ op'.answer[i].id = rows[i]
            /\ op'.answer[i].far \in {rows[i], None}
            /\ op'.kind = "field" => op'.answer[i].extra = rows[i]
            /\ rows[i] \in steady' /\ ~op'.faulty /\ op'.kind # "count"
                  => op'.answer[i].far = rows[i]
  PROVE  AnswersBelongTogether'
  <1>1. /\ {op'.answer[i].id : i \in DOMAIN op'.answer} = Members(rows)
        /\ Cardinality({op'.answer[i].id : i \in DOMAIN op'.answer}) = Len(op'.answer)
    BY AnswersCounted
  <1>2. AnsweredIds' = Members(rows) /\ Cardinality(AnsweredIds') = Len(op'.answer)
    BY <1>1 DEF AnsweredIds
  <1> QED BY <1>2 DEF AnswersBelongTogether

(* Nothing is answered, and nothing lasts or something went wrong.          *)
LEMMA NoAnswerRight ==
  ASSUME op'.answer = <<>>, ~op'.faulty => steady' = {}
  PROVE  AnswersBelongTogether'
  <1>1. AnsweredIds' = {} /\ Cardinality({}) = 0 /\ Len(op'.answer) = 0 /\ DOMAIN op'.answer = {}
    BY FS_EmptySet DEF AnsweredIds
  <1> QED BY <1>1 DEF AnswersBelongTogether

-----------------------------------------------------------------------------
LEMMA InitRight == ReadInit => ReadInv
  <1> SUFFICES ASSUME ReadInit
               PROVE  ReadInv
    OBVIOUS
  <1>1. PICK S \in SUBSET RecordIds : refs \in Orders(S)
    BY DEF ReadInit
  <1>2. refs \in Seq(RecordIds)
    BY <1>1, OrdersAre
  <1>3. /\ op.kind = None /\ op.at = "idle" /\ op.answer = <<>> /\ steady = {}
        /\ op.wanted = {} /\ op.back = {}
    BY DEF ReadInit, NoRead
  <1>4. op \in Read
    <2>1. /\ <<>> \in Seq(RecordIds) /\ <<>> \in Seq(RecordIds \cup {None})
          /\ <<>> \in Seq([id : RecordIds, far : RecordIds \cup {None},
                           extra : RecordIds \cup {None}])
          /\ {} \in SUBSET RecordIds /\ {} \in SUBSET Nat
      OBVIOUS
    <2> QED BY <2>1 DEF ReadInit, NoRead, Read, Steps
  <1>5. TypesRight
    BY <1>2, <1>4 DEF ReadInit, TypesRight
  <1>6. AskedRight
    BY <1>3 DEF AskedRight
  <1> QED BY <1>3, <1>5, <1>6 DEF ReadInv, PartsRight, FarRight, AnswersBelongTogether

-----------------------------------------------------------------------------
(* The actions. *)

LEMMA AskRight ==
  ASSUME ReadInv, StartRead
  PROVE  ReadInv'
  <1>1. TypesRight
    BY DEF ReadInv
  <1>2. PICK kind \in Kinds, S \in SUBSET RecordIds :
           /\ kind \in {"one", "oneremote"} => Cardinality(S) = 1
           /\ kind \in {"field", "count"} => S = RefIds
           /\ op' = [NoRead EXCEPT !.kind = kind, !.wanted = S,
                                 !.at = IF kind = "count" THEN "local" ELSE "check"]
           /\ steady' = S \cap here \cap there
           /\ UNCHANGED <<here, there, refs, edits>>
    BY DEF StartRead
  <1> DEFINE at == IF kind = "count" THEN "local" ELSE "check"
             new == [kind |-> kind, at |-> at, wanted |-> S, rows |-> <<>>, far |-> <<>>,
                     back |-> {}, faulty |-> FALSE, answer |-> <<>>]
  <1>3. op' = new
    BY <1>2 DEF NoRead
  <1>4. op'.at \in {"local", "check"} /\ op'.kind = kind /\ op'.wanted = S
        /\ op'.answer = <<>> /\ op'.back = {}
    BY <1>3
  <1>5. op' \in Read
    BY <1>3 DEF Read, Steps
  <1> HIDE DEF new, at
  <1>6. RefIds' = RefIds
    BY <1>2 DEF RefIds
  <1>7. AskedRight'
    BY <1>2, <1>4, <1>6 DEF AskedRight
  <1> QED BY <1>1, <1>2, <1>4, <1>5, <1>7
          DEF ReadInv, TypesRight, PartsRight, FarRight, AnswersBelongTogether

LEMMA CheckRight ==
  ASSUME ReadInv, Check
  PROVE  ReadInv'
  <1> DEFINE at == IF ModeKnown THEN Route(op.kind) ELSE "broken"
  <1>1. /\ op.at = "check" /\ op' = [op EXCEPT !.at = at]
        /\ at \in {"remote", "local", "broken"} /\ op \in Read
        /\ op.kind = "field" => at # "remote"
        /\ UNCHANGED <<here, there, refs, steady>>
    BY DEF Check, Go, Route, ReadInv, TypesRight
  <1> HIDE DEF at
  <1>2. /\ op' \in Read /\ op'.at \in {"remote", "local", "broken"}
        /\ op.kind = "field" => op'.at # "remote"
        /\ op'.kind = op.kind /\ op'.wanted = op.wanted /\ op'.answer = op.answer
        /\ op'.back = op.back
    BY <1>1 DEF Read, Steps
  <1> QED BY <1>1, <1>2 DEF ReadInv, TypesRight, AskedRight, RefIds, PartsRight, FarRight,
                            AnswersBelongTogether

LEMMA WriteRight ==
  ASSUME ReadInv, Edit
  PROVE  ReadInv'
  <1>1. /\ op.at # "done" /\ UNCHANGED <<refs, op>>
        /\ here' \in SUBSET RecordIds /\ there' \in SUBSET RecordIds
        /\ steady' \subseteq steady /\ steady' \subseteq op.wanted \cap here' \cap there'
    BY DEF Edit, ReadInv, TypesRight, AskedRight
  <1> QED BY <1>1 DEF ReadInv, TypesRight, AskedRight, RefIds, PartsRight, FarRight, Listed,
                      AnswersBelongTogether

LEMMA ReadLocalRight ==
  ASSUME ReadInv, ReadLocal
  PROVE  ReadInv'
  <1>1. TypesRight /\ AskedRight /\ op.at = "local" /\ op \in Read
        /\ UNCHANGED <<here, there, refs, steady>>
    BY DEF ReadInv, TypesRight, ReadLocal
  <1>2. PICK rows \in Orders(op.wanted \cap here) :
           op' = IF op.kind = "count" \/ rows = <<>>
                 THEN [op EXCEPT !.at = "done",
                                 !.answer = [i \in DOMAIN rows |-> Elem(rows[i], None)]]
                 ELSE [op EXCEPT !.rows = rows, !.at = "parts",
                                 !.far = [i \in DOMAIN rows |-> None]]
    BY DEF ReadLocal
  <1>3. /\ rows \in Seq(RecordIds) /\ Distinct(rows)
        /\ Members(rows) \subseteq op.wanted /\ steady \subseteq Members(rows)
    <2>1. op.wanted \cap here \in SUBSET RecordIds
      BY <1>1 DEF TypesRight
    <2> QED BY <1>1, <2>1, OrdersAre DEF AskedRight
  <1>4. CASE op.kind = "count" \/ rows = <<>>
    <2> DEFINE answer == [i \in DOMAIN rows |-> Elem(rows[i], None)]
    <2>1. answer \in Seq([id : RecordIds, far : RecordIds \cup {None},
                          extra : RecordIds \cup {None}])
          /\ DOMAIN answer = DOMAIN rows
      <3>1. Len(rows) \in Nat /\ DOMAIN rows = 1 .. Len(rows)
        BY <1>3
      <3>2. \A i \in DOMAIN rows :
               Elem(rows[i], None) \in [id : RecordIds, far : RecordIds \cup {None},
                                        extra : RecordIds \cup {None}]
        BY <1>3 DEF Elem
      <3> QED BY <3>1, <3>2
    <2>2. \A i \in DOMAIN rows : answer[i].id = rows[i] /\ answer[i].far = None
      BY DEF Elem
    <2>3. op' = [op EXCEPT !.at = "done", !.answer = answer]
      BY <1>2, <1>4
    <2> HIDE DEF answer
    <2>4. /\ op' \in Read /\ op'.at = "done" /\ op'.answer = answer
          /\ op'.kind = op.kind /\ op'.wanted = op.wanted /\ op'.faulty = op.faulty
      BY <1>1, <2>1, <2>3 DEF Read, Steps
    <2>5. AnswersBelongTogether'
      <3>1. CASE op.kind = "count"
        BY <1>1, <1>3, <2>1, <2>2, <2>4, <3>1, AnswerRight
      <3>2. CASE rows = <<>>
        <4>1. DOMAIN rows = {} /\ Members(rows) = {}
          BY <3>2 DEF Members
        <4>2. op'.answer = <<>> /\ steady' = {}
          BY <1>1, <1>3, <2>1, <2>4, <4>1
        <4> QED BY <4>2, NoAnswerRight
      <3> QED BY <1>4, <3>1, <3>2
    <2> QED BY <1>1, <2>4, <2>5 DEF ReadInv, TypesRight, AskedRight, RefIds, PartsRight, FarRight
  <1>5. CASE ~(op.kind = "count" \/ rows = <<>>)
    <2> DEFINE far == [i \in DOMAIN rows |-> None]
    <2>1. op' = [op EXCEPT !.rows = rows, !.at = "parts", !.far = far]
      BY <1>2, <1>5
    <2>2. /\ far \in Seq(RecordIds \cup {None}) /\ DOMAIN far = DOMAIN rows
          /\ \A i \in DOMAIN rows : far[i] = None
      BY <1>3
    <2> HIDE DEF far
    <2>3. op' \in Read /\ op'.at = "parts" /\ op'.rows = rows /\ op'.far = far
          /\ op'.kind = op.kind /\ op'.wanted = op.wanted /\ op'.back = op.back
      BY <1>1, <1>3, <2>1, <2>2 DEF Read, Steps
    <2>4. PartsRight'
      BY <1>1, <1>3, <1>5, <2>2, <2>3 DEF AskedRight, PartsRight, Listed
    <2> QED BY <1>1, <2>3, <2>4 DEF ReadInv, TypesRight, AskedRight, RefIds, FarRight,
                                   AnswersBelongTogether
  <1> QED BY <1>4, <1>5

LEMMA RemotePartRight ==
  ASSUME ReadInv, RemotePart
  PROVE  ReadInv'
  <1>1. TypesRight /\ AskedRight /\ PartsRight /\ op.at = "parts" /\ op \in Read
        /\ UNCHANGED <<here, there, refs, steady>>
    BY DEF ReadInv, TypesRight, RemotePart
  <1>2. PICK i \in DOMAIN op.rows \ op.back :
           \/ op' = [op EXCEPT !.back = @ \cup {i},
                               !.far[i] = IF op.rows[i] \in there THEN op.rows[i] ELSE None]
           \/ op' = [op EXCEPT !.back = @ \cup {i}, !.faulty = TRUE]
    BY DEF RemotePart
  <1>3. /\ i \in DOMAIN op.rows /\ i \in Nat /\ i \in DOMAIN op.far /\ op.rows[i] \in RecordIds
        /\ op.far \in Seq(RecordIds \cup {None}) /\ op.back \cup {i} \in SUBSET Nat
        /\ DOMAIN op.far = DOMAIN op.rows
    BY <1>1 DEF Read, PartsRight
  <1> DEFINE v == IF op.rows[i] \in there THEN op.rows[i] ELSE None
             far == [op.far EXCEPT ![i] = v]
             back == op.back \cup {i}
  <1>4. /\ far \in Seq(RecordIds \cup {None}) /\ DOMAIN far = DOMAIN op.far
        /\ \A j \in DOMAIN op.far : far[j] = IF j = i THEN v ELSE op.far[j]
    <2>1. v \in RecordIds \cup {None}
      BY <1>3
    <2> HIDE DEF v
    <2> QED BY <1>3, <2>1
  <1>5. CASE op' = [op EXCEPT !.back = @ \cup {i}, !.far[i] = v]
    <2>1. op' = [op EXCEPT !.back = back, !.far = far]
      BY <1>5
    <2> HIDE DEF far, back
    <2>2. /\ op' \in Read /\ op'.at = "parts" /\ op'.rows = op.rows /\ op'.far = far
          /\ op'.kind = op.kind /\ op'.wanted = op.wanted /\ op'.back = back
          /\ op'.faulty = op.faulty
      BY <1>1, <1>3, <1>4, <2>1 DEF Read, back
    <2>3. PartsRight'
      <3>1. Listed(op.rows)'
        BY <1>1, <2>2 DEF PartsRight, Listed
      <3>2. ASSUME NEW j \in DOMAIN op.rows
            PROVE  /\ far[j] \in {op.rows[j], None}
                   /\ j \in back /\ op.rows[j] \in steady /\ ~op.faulty => far[j] = op.rows[j]
        <4>1. CASE j = i
          <5>1. op.rows[j] \in steady => op.rows[j] \in there
            BY <1>1 DEF AskedRight
          <5>2. far[j] = IF op.rows[j] \in there THEN op.rows[j] ELSE None
            BY <1>3, <1>4, <4>1
          <5> QED BY <5>1, <5>2
        <4>2. CASE j # i
          BY <1>1, <1>3, <1>4, <4>2 DEF PartsRight, back
        <4> QED BY <4>1, <4>2
      <3> QED BY <1>1, <1>3, <1>4, <2>2, <3>1, <3>2 DEF PartsRight
    <2> QED BY <1>1, <2>2, <2>3 DEF ReadInv, TypesRight, AskedRight, RefIds, FarRight,
                                   AnswersBelongTogether
  <1>6. CASE op' = [op EXCEPT !.back = @ \cup {i}, !.faulty = TRUE]
    <2>1. /\ op' \in Read /\ op'.at = "parts" /\ op'.rows = op.rows /\ op'.far = op.far
          /\ op'.kind = op.kind /\ op'.wanted = op.wanted /\ op'.faulty
      BY <1>1, <1>3, <1>6 DEF Read
    <2>2. PartsRight'
      BY <1>1, <2>1 DEF PartsRight, Listed
    <2> QED BY <1>1, <2>1, <2>2 DEF ReadInv, TypesRight, AskedRight, RefIds, FarRight,
                                   AnswersBelongTogether
  <1> QED BY <1>2, <1>5, <1>6

LEMMA AssembleRight ==
  ASSUME ReadInv, Assemble
  PROVE  ReadInv'
  <1>1. TypesRight /\ AskedRight /\ PartsRight /\ op.at = "parts" /\ op \in Read
        /\ op.back = DOMAIN op.rows /\ UNCHANGED <<here, there, refs, steady>>
    BY DEF ReadInv, TypesRight, Assemble
  <1> DEFINE elems == [i \in DOMAIN op.rows |-> Elem(op.rows[i], op.far[i])]
             answer == IF op.kind = "field" THEN Extended(elems) ELSE elems
  <1>2. op' = [op EXCEPT !.at = "done", !.answer = answer]
    BY DEF Assemble
  <1>3. /\ op.rows \in Seq(RecordIds) /\ Listed(op.rows) /\ DOMAIN op.far = DOMAIN op.rows
        /\ \A i \in DOMAIN op.rows :
              /\ op.rows[i] \in RecordIds
              /\ op.far[i] \in {op.rows[i], None}
              /\ op.rows[i] \in steady /\ ~op.faulty => op.far[i] = op.rows[i]
    BY <1>1 DEF Read, PartsRight
  <1>4. /\ DOMAIN answer = DOMAIN op.rows
        /\ \A i \in DOMAIN op.rows :
              answer[i] = [id |-> op.rows[i], far |-> op.far[i],
                           extra |-> IF op.kind = "field" /\ op.rows[i] \in RefIds
                                     THEN op.rows[i] ELSE None]
    <2>1. /\ DOMAIN elems = DOMAIN op.rows
          /\ \A i \in DOMAIN op.rows :
                elems[i] = [id |-> op.rows[i], far |-> op.far[i], extra |-> None]
      BY DEF Elem
    <2> HIDE DEF elems
    <2>2. CASE op.kind = "field"
      <3>1. answer = Extended(elems)
        BY <2>2
      <3>2. DOMAIN answer = DOMAIN op.rows
        BY <2>1, <3>1 DEF Extended
      <3>3. ASSUME NEW i \in DOMAIN op.rows
            PROVE  answer[i] = [id |-> op.rows[i], far |-> op.far[i],
                                extra |-> IF op.rows[i] \in RefIds THEN op.rows[i] ELSE None]
        <4>1. answer[i] = [elems[i] EXCEPT !.extra = IF elems[i].id \in RefIds
                                                     THEN elems[i].id ELSE None]
          BY <2>1, <3>1 DEF Extended
        <4>2. elems[i] = [id |-> op.rows[i], far |-> op.far[i], extra |-> None]
          BY <2>1
        <4> QED BY <4>1, <4>2
      <3> QED BY <2>2, <3>2, <3>3
    <2>3. CASE op.kind # "field"
      BY <2>1, <2>3
    <2> QED BY <2>2, <2>3
  <1>5. answer = [i \in 1 .. Len(op.rows) |-> answer[i]]
    <2>1. answer = [i \in DOMAIN answer |-> answer[i]]
      <3>1. Extended(elems) = [i \in DOMAIN Extended(elems) |-> Extended(elems)[i]]
        <4> HIDE DEF elems
        <4> QED BY Zenon DEF Extended
      <3>2. elems = [i \in DOMAIN elems |-> elems[i]]
        OBVIOUS
      <3>3. answer \in {elems, Extended(elems)}
        OBVIOUS
      <3> HIDE DEF answer, elems
      <3> QED BY <3>1, <3>2, <3>3
    <2> HIDE DEF answer
    <2>2. DOMAIN answer = 1 .. Len(op.rows)
      <3>1. op.rows \in Seq(RecordIds)
        BY <1>3
      <3>2. DOMAIN op.rows = 1 .. Len(op.rows)
        BY <3>1
      <3>3. DOMAIN answer = DOMAIN op.rows
        BY <1>4
      <3> QED BY <3>2, <3>3
    <2> QED BY <2>1, <2>2
  <1> HIDE DEF answer
  <1>6. answer \in Seq([id : RecordIds, far : RecordIds \cup {None}, extra : RecordIds \cup {None}])
    <2>1. Len(op.rows) \in Nat /\ DOMAIN op.rows = 1 .. Len(op.rows)
      BY <1>3
    <2>2. \A i \in DOMAIN op.rows :
             answer[i] \in [id : RecordIds, far : RecordIds \cup {None}, extra : RecordIds \cup {None}]
      <3> SUFFICES ASSUME NEW i \in DOMAIN op.rows
                   PROVE  answer[i] \in [id : RecordIds, far : RecordIds \cup {None},
                                         extra : RecordIds \cup {None}]
        OBVIOUS
      <3> DEFINE extra == IF op.kind = "field" /\ op.rows[i] \in RefIds THEN op.rows[i] ELSE None
      <3>1. answer[i] = [id |-> op.rows[i], far |-> op.far[i], extra |-> extra]
        BY <1>4
      <3>2. /\ op.rows[i] \in RecordIds /\ op.far[i] \in RecordIds \cup {None}
            /\ extra \in RecordIds \cup {None}
        BY <1>3
      <3> HIDE DEF extra
      <3> QED BY <3>1, <3>2
    <2> QED BY <1>5, <2>1, <2>2
  <1>7. /\ op' \in Read /\ op'.at = "done" /\ op'.answer = answer
        /\ op'.kind = op.kind /\ op'.wanted = op.wanted /\ op'.faulty = op.faulty
    BY <1>1, <1>2, <1>6 DEF Read, Steps
  <1>8. op.kind = "field" => \A i \in DOMAIN op.rows : op.rows[i] \in RefIds
    BY <1>1, <1>3 DEF AskedRight, Listed, Members
  <1>9. AnswersBelongTogether'
    <2>1. /\ Distinct(op.rows) /\ Members(op.rows) \subseteq op'.wanted
          /\ steady' \subseteq Members(op.rows)
      BY <1>1, <1>3, <1>7 DEF Listed
    <2>2. ASSUME NEW i \in DOMAIN op.rows
          PROVE  /\ op'.answer[i].id = op.rows[i]
                 /\ op'.answer[i].far \in {op.rows[i], None}
                 /\ op'.kind = "field" => op'.answer[i].extra = op.rows[i]
                 /\ op.rows[i] \in steady' /\ ~op'.faulty => op'.answer[i].far = op.rows[i]
      <3> DEFINE extra == IF op.kind = "field" /\ op.rows[i] \in RefIds THEN op.rows[i] ELSE None
      <3>1. answer[i] = [id |-> op.rows[i], far |-> op.far[i], extra |-> extra]
        BY <1>4
      <3>2. op'.answer[i] = [id |-> op.rows[i], far |-> op.far[i], extra |-> extra]
        BY <1>7, <3>1
      <3>3. op.kind = "field" => extra = op.rows[i]
        BY <1>8
      <3> HIDE DEF extra
      <3>4. op'.answer[i].id = op.rows[i] /\ op'.answer[i].far = op.far[i]
            /\ op'.answer[i].extra = extra
        BY <3>2
      <3> QED BY <1>1, <1>3, <1>7, <3>3, <3>4
    <2> QED BY <1>3, <1>4, <1>6, <1>7, <2>1, <2>2, AnswerRight
  <1> QED BY <1>1, <1>7, <1>9 DEF ReadInv, TypesRight, AskedRight, RefIds, PartsRight, FarRight

LEMMA ReadRemoteRight ==
  ASSUME ReadInv, ReadRemote
  PROVE  ReadInv'
  <1>1. TypesRight /\ AskedRight /\ op.at = "remote" /\ op \in Read /\ op.answer = <<>>
        /\ UNCHANGED <<here, there, refs, steady>>
    BY DEF ReadInv, TypesRight, AskedRight, ReadRemote
  <1>2. CASE op' = [op EXCEPT !.at = "done", !.faulty = TRUE]
    <2>1. /\ op' \in Read /\ op'.at = "done" /\ op'.answer = <<>>
          /\ op'.kind = op.kind /\ op'.wanted = op.wanted /\ op'.faulty
      BY <1>1, <1>2 DEF Read, Steps
    <2> QED BY <1>1, <2>1, NoAnswerRight
            DEF ReadInv, TypesRight, AskedRight, RefIds, PartsRight, FarRight
  <1>3. ASSUME NEW far \in Orders(op.wanted \cap there),
               op' = IF far = <<>> THEN [op EXCEPT !.at = "done"]
                     ELSE [op EXCEPT !.far = far, !.at = "byid"]
        PROVE  ReadInv'
    <2>1. far \in Seq(RecordIds) /\ far \in Seq(RecordIds \cup {None}) /\ Distinct(far)
          /\ Members(far) \subseteq op.wanted /\ steady \subseteq Members(far)
      <3>1. op.wanted \cap there \in SUBSET RecordIds
        BY <1>1 DEF TypesRight
      <3> QED BY <1>1, <3>1, OrdersAre DEF AskedRight
    <2>2. CASE far = <<>>
      <3>1. /\ op' \in Read /\ op'.at = "done" /\ op'.answer = <<>>
            /\ op'.kind = op.kind /\ op'.wanted = op.wanted
        BY <1>1, <1>3, <2>2 DEF Read, Steps
      <3>2. steady' = {}
        BY <1>1, <2>1, <2>2 DEF Members
      <3> QED BY <1>1, <3>1, <3>2, NoAnswerRight
              DEF ReadInv, TypesRight, AskedRight, RefIds, PartsRight, FarRight
    <2>3. CASE far # <<>>
      <3>1. /\ op' \in Read /\ op'.at = "byid" /\ op'.far = far
            /\ op'.kind = op.kind /\ op'.wanted = op.wanted
        BY <1>1, <1>3, <2>1, <2>3 DEF Read, Steps
      <3>2. FarRight'
        BY <1>1, <2>1, <2>3, <3>1 DEF FarRight, Listed, AskedRight
      <3> QED BY <1>1, <3>1, <3>2
              DEF ReadInv, TypesRight, AskedRight, RefIds, PartsRight, AnswersBelongTogether
    <2> QED BY <2>2, <2>3
  <1> QED BY <1>2, <1>3 DEF ReadRemote

(* A read that ends with the rows it was after, each with its remote part.  *)
LEMMA JoinedRight ==
  ASSUME ReadInv, op.at = "byid", UNCHANGED <<here, there, refs, steady>>,
         NEW rows \in Seq(RecordIds), Distinct(rows),
         Members(rows) \subseteq op.wanted, steady \subseteq Members(rows),
         NEW answer \in Seq([id : RecordIds, far : RecordIds \cup {None},
                             extra : RecordIds \cup {None}]),
         DOMAIN answer = DOMAIN rows,
         \A i \in DOMAIN rows : answer[i].id = rows[i] /\ answer[i].far = rows[i],
         op' = [op EXCEPT !.at = "done", !.answer = answer]
  PROVE  ReadInv'
  <1>1. /\ TypesRight /\ AskedRight /\ FarRight /\ op.kind # "field" /\ op \in Read
    BY DEF ReadInv, TypesRight, FarRight
  <1>2. /\ op' \in Read /\ op'.at = "done" /\ op'.answer = answer
        /\ op'.kind = op.kind /\ op'.wanted = op.wanted /\ op'.faulty = op.faulty
    BY <1>1 DEF Read, Steps
  <1>3. AnswersBelongTogether'
    <2>1. op'.answer \in Seq([id : RecordIds, far : RecordIds \cup {None},
                              extra : RecordIds \cup {None}])
      BY <1>2
    <2> QED BY <1>1, <1>2, <2>1, AnswerRight
  <1> QED BY <1>1, <1>2, <1>3 DEF ReadInv, TypesRight, AskedRight, RefIds, PartsRight, FarRight

LEMMA ReadByIdRight ==
  ASSUME ReadInv, ReadById
  PROVE  ReadInv'
  <1>1. /\ TypesRight /\ AskedRight /\ FarRight /\ op.at = "byid" /\ op \in Read
        /\ UNCHANGED <<here, there, refs, steady>>
    BY DEF ReadInv, TypesRight, ReadById
  <1>2. /\ op.far \in Seq(RecordIds) /\ Distinct(op.far) /\ op.far # <<>> /\ op.kind # "field"
        /\ Members(op.far) \subseteq op.wanted /\ steady \subseteq Members(op.far)
    BY <1>1 DEF FarRight, Listed
  <1>3. CASE op.kind = "oneremote"
    <2> DEFINE rows == <<op.far[1]>>
               answer == <<Elem(op.far[1], op.far[1])>>
    <2>1. op.far[1] \in RecordIds /\ op.far[1] \in Members(op.far)
      <3>1. Len(op.far) \in Nat /\ Len(op.far) # 0 /\ DOMAIN op.far = 1 .. Len(op.far)
        BY <1>2
      <3>2. 1 \in DOMAIN op.far
        BY <3>1
      <3> QED BY <1>2, <3>2 DEF Members
    <2>2. Members(op.far) = {op.far[1]}
      <3>1. IsFiniteSet(op.wanted) /\ Cardinality(op.wanted) = 1
        BY <1>1, <1>3, RecordsAssumption, FS_Subset DEF AskedRight, Read
      <3>2. PICK w : op.wanted = {w}
        BY <3>1, FS_Singleton
      <3> QED BY <1>2, <2>1, <3>2
    <2>3. rows \in Seq(RecordIds) /\ answer \in Seq([id : RecordIds, far : RecordIds \cup {None},
                              extra : RecordIds \cup {None}])
      BY <2>1 DEF Elem
    <2>4. op' = [op EXCEPT !.at = "done", !.answer = answer]
      BY <1>3 DEF ReadById
    <2>5. Distinct(rows) /\ DOMAIN answer = DOMAIN rows /\ Members(rows) = {op.far[1]}
      BY DEF Distinct, Members
    <2>6. \A i \in DOMAIN rows : answer[i].id = rows[i] /\ answer[i].far = rows[i]
      BY DEF Elem
    <2> HIDE DEF rows, answer
    <2> QED BY <1>1, <1>2, <2>2, <2>3, <2>4, <2>5, <2>6, JoinedRight
  <1>4. CASE op.kind # "oneremote"
    <2>1. PICK rows \in Orders(Members(op.far) \cap here) :
             op' = [op EXCEPT !.at = "done", !.answer = Joined(rows, op.far)]
      BY <1>4 DEF ReadById, Members
    <2> DEFINE answer == Joined(rows, op.far)
    <2>2. Members(op.far) \cap here \in SUBSET RecordIds
      BY <1>1 DEF TypesRight
    <2>3. /\ rows \in Seq(RecordIds) /\ Distinct(rows)
          /\ Members(rows) = Members(op.far) \cap here
      BY <2>2, OrdersAre
    <2>4. \A i \in DOMAIN rows : rows[i] \in Members(op.far) /\ rows[i] \in RecordIds
      BY <2>3 DEF Members
    <2>5. \A i \in DOMAIN rows : \E j \in DOMAIN op.far : op.far[j] = rows[i]
      BY <2>4 DEF Members
    <2>6. /\ DOMAIN answer = DOMAIN rows
          /\ \A i \in DOMAIN rows : answer[i] = [id |-> rows[i], far |-> rows[i], extra |-> None]
      BY <2>5 DEF Joined, Elem
    <2>7. answer = [i \in 1 .. Len(rows) |-> answer[i]]
      <3>1. answer = [i \in DOMAIN rows |-> answer[i]]
        BY DEF Joined
      <3> HIDE DEF answer
      <3> QED BY <2>3, <3>1
    <2>8. op' = [op EXCEPT !.at = "done", !.answer = answer]
      BY <2>1
    <2> HIDE DEF answer
    <2>9. answer \in Seq([id : RecordIds, far : RecordIds \cup {None},
                              extra : RecordIds \cup {None}])
      <3>1. Len(rows) \in Nat /\ DOMAIN rows = 1 .. Len(rows)
        BY <2>3
      <3>2. \A i \in DOMAIN rows :
               answer[i] \in [id : RecordIds, far : RecordIds \cup {None},
                              extra : RecordIds \cup {None}]
        BY <2>4, <2>6
      <3> QED BY <2>7, <3>1, <3>2
    <2>10. \A i \in DOMAIN rows : answer[i].id = rows[i] /\ answer[i].far = rows[i]
      BY <2>6
    <2>11. Members(rows) \subseteq op.wanted /\ steady \subseteq Members(rows)
      BY <1>1, <1>2, <2>3 DEF AskedRight
    <2> QED BY <1>1, <2>3, <2>6, <2>8, <2>9, <2>10, <2>11, JoinedRight
  <1> QED BY <1>3, <1>4

-----------------------------------------------------------------------------
LEMMA ReadInvHolds == ReadSpec => []ReadInv
  <1>1. ReadInv /\ [ReadNext]_readVars => ReadInv'
    <2> SUFFICES ASSUME ReadInv, [ReadNext]_readVars
                 PROVE  ReadInv'
      OBVIOUS
    <2>1. CASE StartRead BY <2>1, AskRight
    <2>2. CASE Check BY <2>2, CheckRight
    <2>3. CASE ReadLocal BY <2>3, ReadLocalRight
    <2>4. CASE RemotePart BY <2>4, RemotePartRight
    <2>5. CASE Assemble BY <2>5, AssembleRight
    <2>6. CASE ReadRemote BY <2>6, ReadRemoteRight
    <2>7. CASE ReadById BY <2>7, ReadByIdRight
    <2>8. CASE Edit BY <2>8, WriteRight
    <2>9. CASE UNCHANGED readVars
      BY <2>9 DEF readVars, ReadInv, TypesRight, AskedRight, PartsRight, FarRight, Listed, RefIds,
                  AnswersBelongTogether, AnsweredIds
    <2> QED BY <2>1, <2>2, <2>3, <2>4, <2>5, <2>6, <2>7, <2>8, <2>9 DEF ReadNext
  <1> QED BY <1>1, InitRight, PTL DEF ReadSpec

(* Records are assembled whole, whatever the order of the answers and       *)
(* whatever other clients write meanwhile: what is answered was asked for,  *)
(* once each, with parts of its own record or none; and unless a remote call*)
(* failed, a record that lasted on both sides is answered with its remote   *)
(* part. fetchList.js:122-182, fetchSingle.js:37-63.                        *)
THEOREM AnswersAreWhole == ReadSpec => []AnswersBelongTogether
  <1>1. ReadInv => AnswersBelongTogether
    BY DEF ReadInv
  <1> QED BY <1>1, ReadInvHolds, PTL

-----------------------------------------------------------------------------
(* Paging.                                                                 *)

ListRow == [id : ListIds, at : Nat]
Walk == [way : {None, "forward", "backward"}, size : Nat, pg : BOOLEAN,
         ids : {None} \cup SUBSET ListIds, cursor : ListIds \cup {None},
         count : Nat \cup {None}, pages : Nat, had : SUBSET ListIds, kept : SUBSET ListIds,
         seen : Seq(ListIds), over : BOOLEAN, failed : BOOLEAN]

ListTypes ==
    /\ records \in SUBSET ListRow /\ IsFiniteSet(records)
    /\ created \in Nat /\ ordered \in BOOLEAN /\ shrunk \in BOOLEAN
    /\ walk \in Walk

(* No two records have an id or a time of creation in common.               *)
Apart(set) == \A r, s \in set : r.id = s.id \/ r.at = s.at => r = s

ListRight ==
    /\ \A r \in records : r.at <= created
    /\ ordered => Apart(records) /\ \A r, s \in records : r.at < s.at => r.id < s.id
    /\ walk.kept \subseteq walk.had
    /\ \A id \in walk.kept : (\E r \in records : r.id = id)
                             /\ (walk.ids = None \/ id \in walk.ids)

WalkTypes ==
    /\ walk.way = None <=> walk.size = 0
    /\ walk.way = None => walk.seen = <<>> /\ ~walk.over /\ walk.kept = {} /\ walk.cursor = None
    /\ walk.count # None => /\ walk.way = "backward"
                            /\ walk.pg /\ walk.ids = None => walk.cursor = None
    /\ walk.pages = 0 => walk.cursor = None /\ walk.seen = <<>>
    /\ walk.cursor = None /\ ~walk.over => walk.pages = 0

(* What the walk has not come to yet.                                       *)
Ahead(id) ==
    \/ walk.cursor = None
    \/ walk.way = "forward" /\ id > walk.cursor
    \/ walk.way = "backward" /\ id < walk.cursor
Coming == {r \in records : /\ Ahead(r.id)
                           /\ \/ walk.ids = None \/ (walk.cursor # None /\ ~walk.pg)
                              \/ r.id \in walk.ids}

(* A record's place in a list sorted by distinct times.                     *)
Place(r, chosen) == Cardinality({s \in chosen : s.at <= r.at})

(* What the database is, and whether the cursor joined the filter, shows in *)
(* what was seen.                                                           *)
FilterRight ==
    /\ walk.ids # None /\ (walk.pg \/ walk.pages <= 1) => Range(walk.seen) \subseteq walk.ids
    /\ walk.pg /\ walk.ids = None => walk.pages <= 1
    /\ walk.failed => walk.pg /\ walk.ids = None

(* All that was seen is behind the cursor, and all that was kept is ahead   *)
(* or was seen.                                                             *)
SeenRight ==
    /\ IsInjective(walk.seen)
    /\ \A id \in Range(walk.seen) : ~Ahead(id)
    /\ \A id \in walk.kept : Ahead(id) \/ id \in Range(walk.seen)
    /\ walk.over => \A id \in walk.kept : ~Ahead(id)

(* What is inserted after the count comes last.                             *)
CountRight ==
    walk.count # None =>
        /\ walk.count <= Cardinality(Coming)
        /\ \A r \in Coming : r.id \in walk.kept => Place(r, Coming) <= walk.count

ListInv ==
    /\ ListTypes /\ ListRight /\ WalkTypes /\ FilterRight
    /\ ordered /\ ~shrunk => SeenRight /\ CountRight

-----------------------------------------------------------------------------
(* Sorting. *)

LEMMA PlaceRight ==
  ASSUME NEW S \in SUBSET ListRow, IsFiniteSet(S), Apart(S)
  PROVE  /\ Cardinality(S) \in Nat
         /\ \A r \in S : Place(r, S) \in 1 .. Cardinality(S)
         /\ \A r, s \in S : r.at < s.at => Place(r, S) < Place(s, S)
         /\ \A r, s \in S : Place(r, S) = Place(s, S) => r = s
         /\ \A i \in 1 .. Cardinality(S) : \E r \in S : Place(r, S) = i
  <1> DEFINE Upto(r) == {s \in S : s.at <= r.at}
             n == Cardinality(S)
  <1>1. n \in Nat
    BY FS_CardinalityType
  <1>2. \A r \in S : r.at \in Nat
    BY DEF ListRow
  <1>3. ASSUME NEW r \in S
        PROVE  /\ IsFiniteSet(Upto(r)) /\ Place(r, S) = Cardinality(Upto(r))
               /\ Place(r, S) \in 1 .. n
    <2>1. IsFiniteSet(Upto(r)) /\ Cardinality(Upto(r)) <= n
      BY FS_Subset
    <2>2. Upto(r) # {}
      BY <1>2
    <2>3. Cardinality(Upto(r)) \in Nat /\ Cardinality(Upto(r)) # 0
      BY <2>1, <2>2, FS_CardinalityType, FS_EmptySet
    <2>4. Place(r, S) = Cardinality(Upto(r))
      BY DEF Place
    <2> HIDE DEF Upto, n
    <2> QED BY <1>1, <2>1, <2>3, <2>4
  <1>4. ASSUME NEW r \in S, NEW s \in S, r.at < s.at
        PROVE  Place(r, S) < Place(s, S)
    <2>1. Upto(r) \subseteq Upto(s) /\ s \in Upto(s) /\ s \notin Upto(r)
      BY <1>2, <1>4
    <2>2. Cardinality(Upto(r)) <= Cardinality(Upto(s))
          /\ (Cardinality(Upto(r)) = Cardinality(Upto(s)) => Upto(r) = Upto(s))
      BY <1>3, <2>1, FS_Subset
    <2> HIDE DEF Upto, n
    <2> QED BY <1>1, <1>3, <2>1, <2>2
  <1>5. ASSUME NEW r \in S, NEW s \in S, Place(r, S) = Place(s, S)
        PROVE  r = s
    <2>1. Place(r, S) \in 1 .. n
      BY <1>3
    <2> HIDE DEF n
    <2>2. ~(Place(r, S) < Place(r, S))
      BY <1>1, <2>1
    <2>3. ~(Place(r, S) < Place(s, S)) /\ ~(Place(s, S) < Place(r, S))
      BY <1>5, <2>2
    <2>4. ~(r.at < s.at) /\ ~(s.at < r.at)
      BY <1>4, <2>3
    <2> QED BY <1>2, <2>4 DEF Apart
  <1>6. \A i \in 1 .. n : \E r \in S : Place(r, S) = i
    <2> DEFINE f == [r \in S |-> Place(r, S)]
    <2>1. f \in [S -> 1 .. n]
      BY <1>3
    <2>2. \A r, s \in DOMAIN f : f[r] = f[s] => r = s
      BY <1>5
    <2>3. f \in Injection(S, 1 .. n)
      BY <2>1, <2>2 DEF Injection, IsInjective
    <2>4. IsFiniteSet(1 .. n) /\ Cardinality(1 .. n) = n
      BY <1>1, FS_Interval
    <2>5. f \in Surjection(S, 1 .. n)
      <3> HIDE DEF f
      <3> QED BY <2>3, <2>4, FS_Injection
    <2> QED BY <2>5 DEF Surjection
  <1> QED BY <1>1, <1>3, <1>4, <1>5, <1>6

(* A sorting by distinct times has each record at its place.                *)
LEMMA SortingRight ==
  ASSUME NEW S \in SUBSET ListRow, IsFiniteSet(S), NEW list \in Sortings(S)
  PROVE  /\ list \in Seq(S) /\ Len(list) = Cardinality(S) /\ Cardinality(S) \in Nat
         /\ Apart(S) => \A i \in 1 .. Cardinality(S) : list[i] \in S /\ Place(list[i], S) = i
  <1> DEFINE n == Cardinality(S)
  <1>1. n \in Nat
    BY FS_CardinalityType
  <1>2. /\ list \in [1 .. n -> S]
        /\ \A i, j \in 1 .. n : list[i] = list[j] => i = j
        /\ \A i, j \in 1 .. n : i < j => list[i].at <= list[j].at
    BY DEF Sortings
  <1>3. list \in Seq(S) /\ Len(list) = n
    <2> HIDE DEF n
    <2> QED BY <1>1, <1>2
  <1>4. ASSUME Apart(S), NEW i \in 1 .. n
        PROVE  list[i] \in S /\ Place(list[i], S) = i
    <2> DEFINE upto == {s \in S : s.at <= list[i].at}
               f == [k \in 1 .. i |-> list[k]]
    <2>1. list \in Surjection(1 .. n, S)
      <3>1. list \in Injection(1 .. n, S)
        BY <1>2 DEF Injection, IsInjective
      <3>2. IsFiniteSet(1 .. n) /\ Cardinality(1 .. n) = n
        BY <1>1, FS_Interval
      <3> HIDE DEF n
      <3>3. Cardinality(S) = Cardinality(1 .. n)
        BY <3>2 DEF n
      <3> QED BY <3>1, <3>2, <3>3, FS_Injection
    <2>2. \A s \in S : s.at \in Nat
      BY DEF ListRow
    <2>3. \A k \in 1 .. i : k \in 1 .. n /\ (k < i \/ k = i)
      BY <1>1
    <2>4. \A k \in 1 .. i : list[k] \in upto
      BY <1>2, <2>2, <2>3
    <2>5. ASSUME NEW s \in upto
          PROVE  \E k \in 1 .. i : f[k] = s
      <3>1. PICK k \in 1 .. n : list[k] = s
        BY <2>1 DEF Surjection
      <3>2. ASSUME i < k PROVE FALSE
        <4>1. list[i].at <= list[k].at /\ list[k].at <= list[i].at
          BY <1>2, <2>5, <3>1, <3>2
        <4>2. list[i].at = list[k].at
          BY <1>2, <2>2, <4>1
        <4>3. list[i] = list[k]
          BY <1>2, <1>4, <4>2 DEF Apart
        <4> QED BY <1>1, <1>2, <3>2, <4>3
      <3>3. k \in 1 .. i
        BY <1>1, <3>2
      <3> QED BY <3>1, <3>3
    <2>6. f \in [1 .. i -> upto]
      BY <2>4
    <2>7. \A k, l \in DOMAIN f : f[k] = f[l] => k = l
      BY <1>2, <2>3
    <2>8. f \in Surjection(1 .. i, upto) /\ f \in Injection(1 .. i, upto)
      <3> HIDE DEF upto
      <3>1. f \in Surjection(1 .. i, upto)
        BY <2>5, <2>6 DEF Surjection
      <3>2. f \in Injection(1 .. i, upto)
        BY <2>6, <2>7 DEF Injection, IsInjective
      <3> QED BY <3>1, <3>2
    <2>9. i \in Nat /\ IsFiniteSet(1 .. i) /\ Cardinality(1 .. i) = i
      BY <1>1, FS_Interval
    <2>10. Cardinality(upto) = i
      <3> HIDE DEF f, upto
      <3> QED BY <2>8, <2>9, FS_Surjection
    <2> QED BY <1>2, <2>10 DEF Place
  <1> QED BY <1>1, <1>3, <1>4

(* A page has the records of consecutive places.                            *)
IsPage(page, S, skip, limit) ==
    /\ page \in Seq(S)
    /\ page = <<>> => Cardinality(S) <= skip
    /\ \A i \in 1 .. Len(page) : page[i] \in S /\ Place(page[i], S) = skip + i
    /\ \A r \in S : skip < Place(r, S) /\ Place(r, S) <= skip + limit =>
                       \E i \in 1 .. Len(page) : page[i] = r

LEMMA PageOf ==
  ASSUME NEW S \in SUBSET ListRow, IsFiniteSet(S), NEW list \in Sortings(S),
         NEW skip \in Nat, NEW limit \in Nat \ {0}
  PROVE  Window(list, skip, limit) \in Seq(S)
  <1> DEFINE end == IF skip + limit < Len(list) THEN skip + limit ELSE Len(list)
  <1>1. list \in Seq(S)
    BY SortingRight
  <1>2. end \in Nat /\ \A i \in skip + 1 .. end : list[i] \in S
    BY <1>1
  <1>3. Window(list, skip, limit) = SubSeq(list, skip + 1, end)
    BY DEF Window
  <1>4. skip + 1 \in Int /\ end \in Int
    BY <1>2
  <1> HIDE DEF end
  <1> QED BY <1>2, <1>3, <1>4, SubSeqProperties

LEMMA PageRight ==
  ASSUME NEW S \in SUBSET ListRow, IsFiniteSet(S), Apart(S), NEW list \in Sortings(S),
         NEW skip \in Nat, NEW limit \in Nat \ {0},
         NEW page, page = Window(list, skip, limit)
  PROVE  IsPage(page, S, skip, limit)
  <1> DEFINE n == Cardinality(S)
             end == IF skip + limit < n THEN skip + limit ELSE n
  <1>1. /\ n \in Nat /\ \A r \in S : Place(r, S) \in 1 .. n
        /\ \A r, s \in S : Place(r, S) = Place(s, S) => r = s
        /\ \A i \in 1 .. n : \E r \in S : Place(r, S) = i
    BY PlaceRight
  <1>2. \A i \in 1 .. n : list[i] \in S /\ Place(list[i], S) = i
    BY SortingRight
  <1>3. list \in Seq(S) /\ Len(list) = n
    BY SortingRight
  <1>4. page = SubSeq(list, skip + 1, end)
    BY <1>3 DEF Window
  <1> HIDE DEF n
  <1> SUFFICES ASSUME skip <= n
               PROVE  IsPage(page, S, skip, limit)
    <2> SUFFICES ASSUME n < skip
                 PROVE  IsPage(page, S, skip, limit)
      BY <1>1
    <2>1. end = n
      BY <1>1
    <2>2. page = <<>>
      BY <1>1, <1>3, <1>4, <2>1
    <2>3. Len(page) = 0 /\ page \in Seq(S)
      BY <2>2
    <2>4. \A r \in S : ~(skip < Place(r, S))
      BY <1>1
    <2>5. \A i \in 1 .. Len(page) : FALSE
      BY <2>3
    <2>6. Cardinality(S) <= skip
      BY <1>1 DEF n
    <2> QED BY <2>3, <2>4, <2>5, <2>6 DEF IsPage
  <1>5. end \in Nat /\ end <= n /\ skip <= end /\ (end = skip => skip = n)
    BY <1>1 DEF n
  <1> HIDE DEF end
  <1>6. page \in Seq(S) /\ Len(page) = end - skip
        /\ \A i \in 1 .. end - skip : page[i] = list[skip + i]
    <2> DEFINE k == end - skip
    <2>1. k \in Nat /\ end = skip + k /\ skip + k <= Len(list)
      BY <1>1, <1>3, <1>5
    <2> HIDE DEF k
    <2>2. page = [i \in 1 .. k |-> list[skip + i]]
      <3>1. 1 + end - (skip + 1) = k /\ \A i \in 1 .. k : i + (skip + 1) - 1 = skip + i
        BY <2>1
      <3> QED BY <1>3, <1>4, <2>1, <3>1
    <2>3. page \in [1 .. k -> S]
      BY <1>1, <1>2, <1>3, <2>1, <2>2
    <2>4. page \in Seq(S) /\ Len(page) = k
      BY <2>1, <2>3
    <2> QED BY <2>2, <2>4 DEF k
  <1>7. page = <<>> => n <= skip
    BY <1>1, <1>5, <1>6
  <1>8. ASSUME NEW i \in 1 .. Len(page)
        PROVE  page[i] \in S /\ Place(page[i], S) = skip + i
    <2>1. skip + i \in 1 .. n /\ page[i] = list[skip + i]
      BY <1>1, <1>5, <1>6
    <2> QED BY <1>2, <2>1
  <1>9. ASSUME NEW r \in S, skip < Place(r, S), Place(r, S) <= skip + limit
        PROVE  \E i \in 1 .. Len(page) : page[i] = r
    <2>1. Place(r, S) \in 1 .. n /\ Place(r, S) <= end
      BY <1>1, <1>9 DEF end, n
    <2>2. Place(r, S) - skip \in 1 .. Len(page)
      BY <1>1, <1>5, <1>6, <1>9, <2>1
    <2>3. page[Place(r, S) - skip] \in S /\ Place(page[Place(r, S) - skip], S) = Place(r, S)
      BY <1>8, <2>1, <2>2
    <2> QED BY <1>1, <2>2, <2>3
  <1> QED BY <1>6, <1>7, <1>8, <1>9 DEF n, IsPage

LEMMA RangesJoin ==
  ASSUME NEW V, NEW p \in Seq(V), NEW q \in Seq(V)
  PROVE  Range(p \o q) = Range(p) \cup Range(q)
  <1>1. /\ Len(p) \in Nat /\ Len(q) \in Nat /\ p \o q \in Seq(V)
        /\ DOMAIN p = 1 .. Len(p) /\ DOMAIN q = 1 .. Len(q)
        /\ DOMAIN (p \o q) = 1 .. Len(p) + Len(q)
        /\ \A i \in 1 .. Len(p) : (p \o q)[i] = p[i]
        /\ \A i \in 1 .. Len(p) + Len(q) : i \notin 1 .. Len(p) => (p \o q)[i] = q[i - Len(p)]
    OBVIOUS
  <1>2. \A i \in 1 .. Len(p) + Len(q) : i \notin 1 .. Len(p) =>
            i - Len(p) \in 1 .. Len(q) /\ (i - Len(p)) + Len(p) = i
    BY <1>1
  <1>3. \A i \in 1 .. Len(q) : /\ i + Len(p) \in 1 .. Len(p) + Len(q)
                               /\ i + Len(p) \notin 1 .. Len(p) /\ (i + Len(p)) - Len(p) = i
    BY <1>1
  <1>4. Range(p \o q) \subseteq Range(p) \cup Range(q)
    BY <1>1, <1>2 DEF Range
  <1>5. Range(p) \cup Range(q) \subseteq Range(p \o q)
    <2>1. Range(p) \subseteq Range(p \o q)
      BY <1>1 DEF Range
    <2>2. \A i \in 1 .. Len(q) : (p \o q)[i + Len(p)] = q[i]
      BY <1>1, <1>3
    <2>3. Range(q) \subseteq Range(p \o q)
      BY <1>1, <1>3, <2>2 DEF Range
    <2> QED BY <2>1, <2>3
  <1> QED BY <1>4, <1>5

LEMMA SeenGrows ==
  ASSUME NEW V, NEW p \in Seq(V), NEW q \in Seq(V), IsInjective(p), IsInjective(q),
         \A v \in Range(q) : v \notin Range(p)
  PROVE  /\ p \o q \in Seq(V) /\ IsInjective(p \o q)
         /\ Range(p \o q) = Range(p) \cup Range(q)
  <1>1. /\ Len(p) \in Nat /\ Len(q) \in Nat /\ p \o q \in Seq(V)
        /\ DOMAIN p = 1 .. Len(p) /\ DOMAIN q = 1 .. Len(q)
        /\ DOMAIN (p \o q) = 1 .. Len(p) + Len(q)
        /\ \A i \in 1 .. Len(p) : (p \o q)[i] = p[i]
        /\ \A i \in 1 .. Len(p) + Len(q) : i \notin 1 .. Len(p) => (p \o q)[i] = q[i - Len(p)]
    OBVIOUS
  <1>2. \A i \in 1 .. Len(p) + Len(q) : i \notin 1 .. Len(p) =>
            i - Len(p) \in 1 .. Len(q) /\ (i - Len(p)) + Len(p) = i
    BY <1>1
  <1>3. Range(p \o q) = Range(p) \cup Range(q)
    BY RangesJoin
  <1>6. ASSUME NEW i \in 1 .. Len(p) + Len(q), NEW j \in 1 .. Len(p) + Len(q),
               (p \o q)[i] = (p \o q)[j]
        PROVE  i = j
    <2>1. CASE i \in 1 .. Len(p) /\ j \in 1 .. Len(p)
      BY <1>1, <1>6, <2>1 DEF IsInjective
    <2>2. CASE i \notin 1 .. Len(p) /\ j \notin 1 .. Len(p)
      <3>1. q[i - Len(p)] = q[j - Len(p)]
            /\ i - Len(p) \in 1 .. Len(q) /\ j - Len(p) \in 1 .. Len(q)
        BY <1>1, <1>2, <1>6, <2>2
      <3>2. i - Len(p) = j - Len(p)
        BY <1>1, <3>1 DEF IsInjective
      <3> QED BY <1>1, <3>2
    <2>3. ASSUME NEW k \in 1 .. Len(p), NEW l \in 1 .. Len(p) + Len(q), l \notin 1 .. Len(p),
                 (p \o q)[k] = (p \o q)[l]
          PROVE  FALSE
      <3>1. l - Len(p) \in 1 .. Len(q) /\ p[k] = q[l - Len(p)]
        BY <1>1, <1>2, <2>3
      <3> QED BY <1>1, <3>1 DEF Range
    <2> QED BY <1>6, <2>1, <2>2, <2>3
  <1>7. IsInjective(p \o q)
    BY <1>1, <1>6 DEF IsInjective
  <1> QED BY <1>1, <1>3, <1>7

-----------------------------------------------------------------------------
(* A page of the walk. *)

LEMMA ComingRight ==
  ASSUME ListInv
  PROVE  /\ Coming \in SUBSET ListRow /\ IsFiniteSet(Coming) /\ Coming \subseteq records
         /\ ordered => Apart(Coming)
  BY FS_Subset DEF ListInv, ListTypes, ListRight, Coming, Apart

LEMMA RequestRight ==
  ASSUME ListIdsAssumption, LimitsAssumption, ListInv, Asks
  PROVE  /\ Sought = Coming
         /\ Limit(PageRequest) \in Nat \ {0} /\ PageRequest.skip = 0
         /\ walk.way = "forward" \/ walk.way = "backward"
         /\ PageFails <=> walk.pg /\ walk.ids = None /\ walk.cursor # None
  <1>1. /\ walk.way = "forward" \/ walk.way = "backward"
        /\ walk.size \in Nat \ {0} /\ walk.cursor \in ListIds \cup {None}
        /\ \A r \in records : r.id \in ListIds
    BY DEF Asks, ListInv, ListTypes, WalkTypes, Walk, ListRow
  <1>2. CASE walk.way = "forward"
    <2>1. /\ PageRequest.first = walk.size /\ PageRequest.last = 0 /\ PageRequest.skip = 0
          /\ PageRequest.after = walk.cursor /\ PageRequest.before = None
      BY <1>2 DEF PageRequest, PageParams
    <2>2. Limit(PageRequest) \in Nat \ {0}
      BY <1>1, <2>1, LimitsAssumption DEF Limit
    <2>3. Sought = Coming
      BY <1>1, <1>2, <2>1 DEF Sought, Chosen, HasCursor, Coming, Ahead
    <2> QED BY <1>1, <2>1, <2>2, <2>3 DEF PageFails, Unanswerable, HasCursor
  <1>3. CASE walk.way = "backward"
    <2>1. /\ PageRequest.first = 0 /\ PageRequest.last = walk.size /\ PageRequest.skip = 0
          /\ PageRequest.after = None /\ PageRequest.before = walk.cursor
      BY <1>3 DEF PageRequest, PageParams
    <2>2. Limit(PageRequest) \in Nat \ {0}
      BY <1>1, <2>1 DEF Limit
    <2>3. Sought = Coming
      BY <1>1, <1>3, <2>1 DEF Sought, Chosen, HasCursor, Coming, Ahead
    <2> QED BY <1>1, <2>1, <2>2, <2>3 DEF PageFails, Unanswerable, HasCursor
  <1> QED BY <1>1, <1>2, <1>3

LEMMA WalkUpdated ==
  ASSUME NEW w \in Walk, NEW over \in BOOLEAN, NEW cursor \in ListIds \cup {None},
         NEW seen \in Seq(ListIds)
  PROVE  [w EXCEPT !.pages = w.pages + 1, !.count = None, !.over = over,
                   !.cursor = cursor, !.seen = seen] \in Walk
  <1>1. w.pages + 1 \in Nat /\ None \in Nat \cup {None}
    BY DEF Walk
  <1>2. CASE over = TRUE
    BY <1>1, <1>2 DEF Walk
  <1>3. CASE over = FALSE
    BY <1>1, <1>3 DEF Walk
  <1> QED BY <1>2, <1>3

LEMMA TurnedRight ==
  ASSUME ListIdsAssumption, ListInv, ~walk.over, ~walk.failed,
         walk.way # None, walk.way = "forward" \/ walk.way = "backward",
         walk.pg /\ walk.ids = None => walk.cursor = None,
         UNCHANGED <<records, created, ordered, shrunk>>,
         NEW skip \in Nat, NEW limit \in Nat \ {0}, NEW list \in Sortings(Coming),
         NEW page, page = Window(list, skip, limit), Turned(page),
         \* The page begins with the first record that is ahead, or ends with the last one
         \* that was kept.
         ordered /\ ~shrunk =>
            /\ Cardinality(Coming) <= skip => Coming = {}
            /\ walk.way = "forward" => skip = 0
            /\ walk.way = "backward" =>
                  \A r \in Coming : r.id \in walk.kept => Place(r, Coming) <= skip + limit
  PROVE  ListInv'
  <1> DEFINE k == Len(page)
             ids == [i \in DOMAIN page |-> page[i].id]
             cursor == IF page = <<>> THEN walk.cursor
                       ELSE IF walk.way = "forward" THEN Last(page).id ELSE Head(page).id
  <1>0. /\ Coming \in SUBSET ListRow /\ IsFiniteSet(Coming) /\ Coming \subseteq records
        /\ ordered => Apart(Coming)
    BY ComingRight
  <1>1. page \in Seq(Coming)
    BY <1>0, PageOf
  <1>2. /\ k \in Nat /\ DOMAIN page = 1 .. k /\ (page = <<>> <=> k = 0)
        /\ \A i \in 1 .. k : page[i] \in Coming
        /\ page # <<>> => Last(page) = page[k] /\ Head(page) = page[1]
                          /\ k \in 1 .. k /\ 1 \in 1 .. k
    BY <1>1 DEF Last
  <1>3. /\ ids \in Seq(ListIds) /\ DOMAIN ids = 1 .. k
        /\ \A i \in 1 .. k : ids[i] = page[i].id /\ ids[i] \in ListIds
        /\ Range(ids) = {page[i].id : i \in 1 .. k}
    <2>1. ids \in [1 .. k -> ListIds]
      BY <1>0, <1>1, <1>2 DEF ListRow
    <2>2. Range(ids) = {page[i].id : i \in 1 .. k}
      BY <1>2 DEF Range
    <2> QED BY <1>2, <2>1, <2>2
  <1>4. cursor \in ListIds \cup {None} /\ (page # <<>> => cursor \in ListIds)
    BY <1>0, <1>1, <1>2 DEF ListInv, ListTypes, Walk, ListRow
  <1>5. /\ walk'.way = walk.way /\ walk'.size = walk.size /\ walk'.kept = walk.kept
        /\ walk'.had = walk.had /\ walk'.count = None /\ walk'.over = (page = <<>>)
        /\ walk'.cursor = cursor /\ walk'.seen = walk.seen \o ids
        /\ walk'.pages = walk.pages + 1 /\ walk'.pg = walk.pg /\ walk'.ids = walk.ids
        /\ walk'.failed = walk.failed
    BY DEF Turned, ListInv, ListTypes, Walk
  <1>6. ListTypes' /\ WalkTypes'
    <2>1. walk.seen \in Seq(ListIds) /\ walk.seen \o ids \in Seq(ListIds)
      BY <1>3 DEF ListInv, ListTypes, Walk
    <2> DEFINE over == page = <<>>
               seen == walk.seen \o ids
    <2>2. walk' = [walk EXCEPT !.pages = walk.pages + 1, !.count = None, !.over = over,
                               !.cursor = cursor, !.seen = seen]
      BY DEF Turned
    <2>a. over \in BOOLEAN
      OBVIOUS
    <2>b. seen \in Seq(ListIds)
      BY <2>1
    <2> HIDE DEF cursor, seen, over
    <2>3. walk' \in Walk
      BY <1>4, <2>a, <2>b, <2>2, WalkUpdated DEF ListInv, ListTypes
    <2>4. ListTypes'
      BY <2>3 DEF ListInv, ListTypes
    <2>5. walk.pages + 1 # 0
      BY DEF ListInv, ListTypes, Walk
    <2>6. walk'.cursor = None /\ ~walk'.over => FALSE
      BY <1>4, <1>5, ListIdsAssumption
    <2> HIDE DEF ids, cursor
    <2> QED BY <1>5, <2>4, <2>5, <2>6 DEF ListInv, WalkTypes
  <1>7. ListRight'
    BY <1>5 DEF ListInv, ListRight, Apart
  <1>f. FilterRight'
    <2>1. walk.seen \in Seq(ListIds) /\ walk.pages \in Nat
      BY DEF ListInv, ListTypes, Walk
    <2>2. Range(walk'.seen) = Range(walk.seen) \cup Range(ids)
      <3> HIDE DEF ids
      <3> QED BY <1>3, <1>5, <2>1, RangesJoin
    <2>3. walk.pages + 1 <= 1 => walk.pages = 0
      BY <2>1
    <2>4. ASSUME walk.ids # None, walk.pg \/ walk.pages = 0
          PROVE  Range(walk'.seen) \subseteq walk.ids
      <3>1. Range(walk.seen) \subseteq walk.ids
        BY <2>1, <2>4 DEF ListInv, FilterRight
      <3>2. walk.cursor = None \/ walk.pg
        BY <2>4 DEF ListInv, WalkTypes
      <3>3. \A r \in Coming : r.id \in walk.ids
        BY <2>4, <3>2 DEF Coming
      <3> HIDE DEF ids
      <3> QED BY <1>2, <1>3, <2>2, <3>1, <3>3
    <2>5. walk.pg /\ walk.ids = None => walk.pages = 0
      BY DEF ListInv, WalkTypes
    <2> HIDE DEF ids, cursor
    <2> QED BY <1>5, <2>3, <2>4, <2>5 DEF FilterRight
  <1> HIDE DEF ids, cursor, k
  <1>8. ASSUME ordered', ~shrunk'
        PROVE  (SeenRight /\ CountRight)'
    <2>a. /\ \A i \in 1 .. k : page[i] \in Coming /\ Place(page[i], Coming) = skip + i
          /\ \A r \in Coming : skip < Place(r, Coming) /\ Place(r, Coming) <= skip + limit =>
                                  \E i \in 1 .. k : page[i] = r
          /\ page = <<>> => Cardinality(Coming) <= skip
          /\ ordered /\ Apart(Coming)
      <3>1. IsPage(page, Coming, skip, limit) /\ ordered /\ Apart(Coming)
        BY <1>0, <1>8, PageRight
      <3> QED BY <3>1 DEF IsPage, k
    <2>0. /\ SeenRight /\ ordered /\ ~shrunk
          /\ Cardinality(Coming) <= skip => Coming = {}
          /\ walk.way = "forward" => skip = 0
          /\ walk.way = "backward" =>
                \A r \in Coming : r.id \in walk.kept => Place(r, Coming) <= skip + limit
      BY <1>8 DEF ListInv
    <2>1. CountRight'
      BY <1>5 DEF CountRight
    <2>2. \A id \in walk.kept : Ahead(id) => \E r \in Coming : r.id = id
      BY DEF ListInv, ListRight, Coming
    <2>3. \A r \in Coming : Ahead(r.id) /\ r.id \in Nat /\ r.id \in ListIds
      BY <1>0, <2>a, ListIdsAssumption DEF Coming, ListRow
    <2>4. walk.cursor # None => walk.cursor \in Nat
      BY ListIdsAssumption DEF ListInv, ListTypes, Walk
    <2>5. walk.seen \in Seq(ListIds) /\ DOMAIN walk.seen = 1 .. Len(walk.seen)
      BY DEF ListInv, ListTypes, Walk
    \* What comes later in the list has the greater id.
    <2>6. \A r, s \in Coming : Place(r, Coming) <= Place(s, Coming) => r.id <= s.id
      <3> SUFFICES ASSUME NEW r \in Coming, NEW s \in Coming,
                          Place(r, Coming) <= Place(s, Coming)
                   PROVE  r.id <= s.id
        OBVIOUS
      <3>1. Place(r, Coming) \in Int /\ Place(s, Coming) \in Int
        BY <1>0, <2>a, PlaceRight
      <3>2. ~(s.at < r.at)
        BY <1>0, <2>a, <3>1, PlaceRight
      <3>3. r.at \in Nat /\ s.at \in Nat
        BY <1>0, <2>a DEF ListRow
      <3>4. r.at < s.at \/ r = s
        BY <1>0, <2>a, <3>2, <3>3 DEF Apart
      <3> QED BY <1>0, <2>a, <2>0, <2>3, <3>4 DEF ListInv, ListRight
    <2>r. \A r, s \in Coming : r.id <= s.id => Place(r, Coming) <= Place(s, Coming)
      <3> SUFFICES ASSUME NEW r \in Coming, NEW s \in Coming, r.id <= s.id
                   PROVE  Place(r, Coming) <= Place(s, Coming)
        OBVIOUS
      <3>1. Place(r, Coming) \in Int /\ Place(s, Coming) \in Int
        BY <1>0, <2>a, PlaceRight
      <3>2. r.at \in Nat /\ s.at \in Nat /\ r.id \in Nat /\ s.id \in Nat
        BY <1>0, <2>a, <2>3 DEF ListRow
      <3>3. ~(s.at < r.at)
        <4>1. s.at < r.at => s.id < r.id
          BY <1>0, <2>a, <2>0 DEF ListInv, ListRight
        <4> QED BY <3>2, <4>1
      <3>4. r.at < s.at \/ r = s
        BY <1>0, <2>a, <3>2, <3>3 DEF Apart
      <3> QED BY <1>0, <2>a, <3>1, <3>4, PlaceRight
    <2>7. IsInjective(ids) /\ \A id \in Range(ids) : id \notin Range(walk.seen)
      <3>1. ASSUME NEW i \in 1 .. k, NEW j \in 1 .. k, ids[i] = ids[j]
            PROVE  i = j
        <4>1. page[i] \in Coming /\ page[j] \in Coming /\ page[i].id = page[j].id
          BY <1>1, <2>a, <1>3, <3>1
        <4>2. page[i] = page[j]
          BY <1>0, <2>a, <4>1 DEF Apart
        <4>3. skip + i = skip + j
          BY <1>1, <2>a, <4>2
        <4> QED BY <1>2, <4>3
      <3>2. \A id \in Range(ids) : Ahead(id)
        BY <1>1, <2>a, <1>3, <2>3
      <3> QED BY <1>3, <2>0, <3>1, <3>2 DEF IsInjective, SeenRight
    <2>8. IsInjective(walk'.seen) /\ Range(walk'.seen) = Range(walk.seen) \cup Range(ids)
      BY <1>3, <1>5, <2>0, <2>5, <2>7, SeenGrows DEF SeenRight
    <2>9. CASE page = <<>>
      <3>1. Coming = {} /\ \A id \in walk.kept : ~Ahead(id)
        BY <1>1, <2>a, <2>0, <2>2, <2>9
      <3>2. Range(ids) = {}
        BY <1>2, <1>3, <2>9
      <3>3. \A id : Ahead(id)' <=> Ahead(id)
        BY <1>5, <2>9 DEF Ahead, cursor
      <3> QED BY <1>5, <2>0, <2>1, <2>8, <3>1, <3>2, <3>3 DEF SeenRight
    <2>10. CASE page # <<>>
      <3> DEFINE end == IF walk.way = "forward" THEN page[k] ELSE page[1]
      <3>1. end \in Coming /\ cursor = end.id /\ cursor \in Nat /\ cursor # None /\ Ahead(cursor)
        BY <1>1, <2>a, <1>2, <2>3, <2>10, ListIdsAssumption DEF cursor
      <3>2. \A id \in Nat : Ahead(id)' <=> IF walk.way = "forward" THEN id > cursor
                                           ELSE id < cursor
        BY <1>5, <3>1 DEF Ahead
      <3>3. \A id \in Nat : Ahead(id)' => Ahead(id)
        BY <2>4, <3>1, <3>2 DEF Ahead
      <3>4. \A id \in Range(walk.seen) \cup walk.kept \cup Range(ids) : id \in Nat
        <4>1. Range(walk.seen) \subseteq ListIds
          BY <2>5 DEF Range
        <4>2. walk.kept \subseteq ListIds
          BY DEF ListInv, ListTypes, Walk
        <4>3. Range(ids) \subseteq ListIds
          BY <1>3 DEF Range
        <4> QED BY <4>1, <4>2, <4>3, ListIdsAssumption
      <3>5. ASSUME NEW i \in 1 .. k
            PROVE  ~Ahead(page[i].id)'
        <4>1. page[i] \in Coming /\ page[i].id \in Nat /\ Place(page[i], Coming) = skip + i
          BY <1>1, <2>a, <2>3
        <4>2. CASE walk.way = "forward"
          <5>1. Place(end, Coming) = skip + k
            BY <1>1, <2>a, <1>2, <2>10, <4>2
          <5>2. skip + i <= skip + k
            BY <1>2
          <5>3. page[i].id <= cursor
            BY <2>6, <3>1, <4>1, <5>1, <5>2
          <5> QED BY <3>1, <3>2, <4>1, <4>2, <5>3
        <4>3. CASE walk.way = "backward"
          <5>1. Place(end, Coming) = skip + 1
            BY <1>1, <2>a, <1>2, <2>10, <4>3
          <5>2. skip + 1 <= skip + i
            BY <1>2
          <5>3. cursor <= page[i].id
            BY <2>6, <3>1, <4>1, <5>1, <5>2
          <5> QED BY <3>1, <3>2, <4>1, <4>3, <5>3
        <4> QED BY <4>2, <4>3
      <3>6. \A id \in Range(walk'.seen) : ~Ahead(id)'
        BY <1>3, <2>0, <2>8, <3>3, <3>4, <3>5 DEF SeenRight
      <3>7. ASSUME NEW id \in walk.kept, ~Ahead(id)'
            PROVE  id \in Range(walk'.seen)
        <4>1. CASE ~Ahead(id)
          BY <2>0, <2>8, <4>1 DEF SeenRight
        <4>2. CASE Ahead(id)
          <5>1. PICK r \in Coming : r.id = id
            BY <2>2, <4>2
          <5>2. /\ Place(r, Coming) \in 1 .. Cardinality(Coming)
                /\ Cardinality(Coming) \in Nat /\ Place(end, Coming) \in Int
                /\ \A s \in Coming : Place(r, Coming) = Place(s, Coming) => r = s
            BY <1>0, <2>a, <3>1, PlaceRight
          <5>3. id \in Nat /\ id = r.id
            BY <2>3, <5>1
          <5>4. \E i \in 1 .. k : page[i] = r
            <6>1. CASE walk.way = "forward"
              <7>1. id <= cursor /\ Place(end, Coming) = k /\ skip = 0
                BY <1>1, <2>a, <1>2, <2>0, <2>10, <3>1, <3>2, <3>7, <5>3, <6>1
              <7>2. Place(r, Coming) <= k
                BY <2>r, <3>1, <5>1, <5>3, <7>1
              <7>3. Place(r, Coming) \in 1 .. k
                BY <1>2, <5>2, <7>2
              <7>4. page[Place(r, Coming)] \in Coming
                    /\ Place(page[Place(r, Coming)], Coming) = 0 + Place(r, Coming)
                BY <1>1, <2>a, <7>1, <7>3
              <7>5. 0 + Place(r, Coming) = Place(r, Coming)
                BY <5>2
              <7> QED BY <5>2, <7>3, <7>4, <7>5
            <6>2. CASE walk.way = "backward"
              <7>1. cursor <= id /\ Place(end, Coming) = skip + 1
                BY <1>1, <2>a, <1>2, <2>10, <3>1, <3>2, <3>7, <5>3, <6>2
              <7>2. skip + 1 <= Place(r, Coming)
                BY <2>r, <3>1, <5>1, <5>3, <7>1
              <7>3. skip < Place(r, Coming) /\ Place(r, Coming) <= skip + limit
                BY <2>0, <5>1, <5>2, <6>2, <7>2
              <7> QED BY <1>1, <2>a, <5>1, <7>3
            <6> QED BY <6>1, <6>2
          <5> QED BY <1>3, <2>8, <5>1, <5>4
        <4> QED BY <4>1, <4>2
      <3> QED BY <1>5, <2>1, <2>8, <2>10, <3>6, <3>7 DEF SeenRight
    <2> QED BY <2>9, <2>10
  <1> QED BY <1>6, <1>7, <1>f, <1>8 DEF ListInv

-----------------------------------------------------------------------------
(* The actions. *)

LEMMA ReadForwardRight ==
  ASSUME ListIdsAssumption, LimitsAssumption, ListInv, ReadForward
  PROVE  ListInv'
  <1>1. /\ Asks /\ walk.way = "forward" /\ walk.way # None /\ ~walk.over /\ ~walk.failed
        /\ UNCHANGED <<records, created, ordered, shrunk>>
    BY DEF ReadForward, Asks
  <1>2. /\ Sought = Coming /\ Limit(PageRequest) \in Nat \ {0} /\ PageRequest.skip = 0
        /\ walk.pg /\ walk.ids = None => walk.cursor = None
    BY <1>1, RequestRight DEF ReadForward
  <1>3. PICK list \in Sortings(Coming) : Turned(Window(list, 0, Limit(PageRequest)))
    BY <1>2 DEF ReadForward
  <1>4. 0 \in Nat /\ (Cardinality(Coming) <= 0 => Coming = {})
    <2>1. Cardinality(Coming) \in Nat /\ (Cardinality(Coming) = 0 => Coming = {})
      BY ComingRight, FS_CardinalityType, FS_EmptySet
    <2> QED BY <2>1
  <1>5. ~(walk.way = "backward")
    BY <1>1
  <1> QED BY <1>1, <1>2, <1>3, <1>4, <1>5, TurnedRight

LEMMA CountListedRight ==
  ASSUME ListIdsAssumption, LimitsAssumption, ListInv, CountListed
  PROVE  ListInv'
  <1>1. /\ Sought = Coming /\ walk.way = "backward" /\ walk.way # None
        /\ walk.pg /\ walk.ids = None => walk.cursor = None
        /\ UNCHANGED <<records, created, ordered, shrunk>>
    BY RequestRight DEF CountListed, Asks
  <1>2. walk' = [walk EXCEPT !.count = Cardinality(Coming)] /\ Cardinality(Coming) \in Nat
    BY <1>1, ComingRight, FS_CardinalityType DEF CountListed
  <1>3. /\ walk' \in Walk /\ walk'.count = Cardinality(Coming) /\ walk'.way = walk.way
        /\ walk'.size = walk.size /\ walk'.cursor = walk.cursor /\ walk'.seen = walk.seen
        /\ walk'.over = walk.over /\ walk'.kept = walk.kept /\ walk'.had = walk.had
        /\ walk'.pg = walk.pg /\ walk'.ids = walk.ids /\ walk'.failed = walk.failed
        /\ walk'.pages = walk.pages
    BY <1>2 DEF ListInv, ListTypes, Walk
  <1>4. ListTypes' /\ ListRight' /\ WalkTypes' /\ FilterRight'
    BY <1>1, <1>3 DEF ListInv, ListTypes, ListRight, Apart, WalkTypes, FilterRight
  <1>5. Coming' = Coming /\ \A id : Ahead(id)' <=> Ahead(id)
    BY <1>1, <1>3 DEF Coming, Ahead
  <1>6. SeenRight => SeenRight'
    BY <1>3, <1>5 DEF SeenRight
  <1>7. ordered => CountRight'
    <2> SUFFICES ASSUME ordered PROVE CountRight'
      OBVIOUS
    <2>1. Cardinality(Coming) <= Cardinality(Coming)
      BY <1>2
    <2>2. \A r \in Coming : Place(r, Coming) <= Cardinality(Coming)
      BY <1>2, ComingRight, PlaceRight
    <2>3. \A r : Place(r, Coming)' = Place(r, Coming)
      BY <1>5 DEF Place
    <2> QED BY <1>3, <1>5, <2>1, <2>2, <2>3 DEF CountRight
  <1> QED BY <1>1, <1>4, <1>6, <1>7 DEF ListInv

LEMMA ReadBackwardRight ==
  ASSUME ListIdsAssumption, LimitsAssumption, ListInv, ReadBackward
  PROVE  ListInv'
  <1>1. /\ Asks /\ walk.way = "backward" /\ walk.way # None /\ walk.count # None
        /\ ~walk.over /\ ~walk.failed
        /\ UNCHANGED <<records, created, ordered, shrunk>>
    BY DEF ReadBackward, Asks
  <1>2. /\ Sought = Coming /\ Limit(PageRequest) \in Nat \ {0} /\ PageRequest.skip = 0
        /\ walk.pg /\ walk.ids = None => walk.cursor = None
    BY <1>1, RequestRight DEF ListInv, WalkTypes
  <1>3. walk.count \in Nat /\ Cardinality(Coming) \in Nat
        /\ (Cardinality(Coming) = 0 => Coming = {})
    BY <1>1, ComingRight, FS_CardinalityType, FS_EmptySet DEF ListInv, ListTypes, Walk
  <1> DEFINE limit == Limit(PageRequest)
             skip == SkipFor(walk.count, PageRequest)
  <1>4. skip = IF walk.count > limit THEN walk.count - limit ELSE 0
    BY <1>2, <1>3 DEF SkipFor
  <1>5. PICK list \in Sortings(Coming) : Turned(Window(list, skip, limit))
    BY <1>2 DEF ReadBackward
  <1>6. limit \in Nat \ {0}
    BY <1>2
  <1> HIDE DEF skip, limit
  <1>7. skip \in Nat /\ walk.count <= skip + limit /\ (skip = 0 \/ skip < walk.count)
    BY <1>3, <1>4, <1>6
  <1>8. ASSUME ordered /\ ~shrunk
        PROVE  /\ Cardinality(Coming) <= skip => Coming = {}
               /\ \A r \in Coming : r.id \in walk.kept => Place(r, Coming) <= skip + limit
    <2>1. /\ walk.count <= Cardinality(Coming)
          /\ \A r \in Coming : r.id \in walk.kept => Place(r, Coming) <= walk.count
      BY <1>1, <1>8 DEF ListInv, CountRight
    <2>2. \A r \in Coming : Place(r, Coming) \in Int
      BY <1>8, ComingRight, PlaceRight
    <2>3. Cardinality(Coming) <= skip => Coming = {}
      BY <1>3, <1>7, <2>1
    <2>4. skip + limit \in Int
      BY <1>6, <1>7
    <2> QED BY <1>3, <1>7, <2>1, <2>2, <2>3, <2>4
  <1>9. ~(walk.way = "forward")
    BY <1>1
  <1> QED BY <1>1, <1>2, <1>5, <1>6, <1>7, <1>8, <1>9, TurnedRight

LEMMA FailPageRight ==
  ASSUME ListIdsAssumption, LimitsAssumption, ListInv, FailPage
  PROVE  ListInv'
  <1>1. /\ walk.pg /\ walk.ids = None /\ walk.cursor # None
        /\ UNCHANGED <<records, created, ordered, shrunk>>
    BY RequestRight DEF FailPage
  <1>2. walk' = [walk EXCEPT !.failed = TRUE]
    BY DEF FailPage
  <1>3. /\ walk' \in Walk /\ walk'.count = walk.count /\ walk'.way = walk.way
        /\ walk'.size = walk.size /\ walk'.cursor = walk.cursor /\ walk'.seen = walk.seen
        /\ walk'.over = walk.over /\ walk'.kept = walk.kept /\ walk'.had = walk.had
        /\ walk'.pg = walk.pg /\ walk'.ids = walk.ids /\ walk'.pages = walk.pages
    BY <1>2 DEF ListInv, ListTypes, Walk
  <1>4. ListTypes' /\ ListRight' /\ WalkTypes' /\ FilterRight'
    BY <1>1, <1>3 DEF ListInv, ListTypes, ListRight, Apart, WalkTypes, FilterRight
  <1>5. Coming' = Coming /\ \A id : Ahead(id)' <=> Ahead(id)
    BY <1>1, <1>3 DEF Coming, Ahead
  <1>6. SeenRight => SeenRight'
    BY <1>3, <1>5 DEF SeenRight
  <1>7. CountRight => CountRight'
    BY <1>3, <1>5 DEF CountRight, Place
  <1> QED BY <1>1, <1>4, <1>6, <1>7 DEF ListInv

LEMMA BeginWalkRight ==
  ASSUME ListIdsAssumption, LimitsAssumption, ListInv,
         NEW way \in {"forward", "backward"}, NEW size \in Firsts,
         NEW pg \in BOOLEAN, NEW ids \in IdFilters, BeginWalk(way, size, pg, ids)
  PROVE  ListInv'
  <1> DEFINE had == {r.id : r \in records}
             kept == {r.id : r \in {s \in records : ids = None \/ s.id \in ids}}
  <1>1. /\ walk' = [WalkStart EXCEPT !.way = way, !.size = size, !.pg = pg, !.ids = ids,
                                     !.had = had, !.kept = kept]
        /\ UNCHANGED <<records, created, ordered, shrunk>>
    BY DEF BeginWalk
  <1>2. /\ had \in SUBSET ListIds /\ kept \subseteq had /\ size \in Nat \ {0} /\ way # None
        /\ ids \in {None} \cup SUBSET ListIds
    BY LimitsAssumption, ListIdsAssumption DEF ListInv, ListTypes, ListRow
  <1>3. walk' = [way |-> way, size |-> size, pg |-> pg, ids |-> ids, cursor |-> None,
                 count |-> None, pages |-> 0, had |-> had, kept |-> kept, seen |-> <<>>,
                 over |-> FALSE, failed |-> FALSE]
    BY <1>1 DEF WalkStart
  <1>4. ListTypes'
    <2> HIDE DEF had, kept
    <2>1. <<>> \in Seq(ListIds) /\ 0 \in Nat /\ size \in Nat /\ kept \in SUBSET ListIds
      BY <1>2
    <2>2. walk' \in Walk
      BY <1>2, <1>3, <2>1 DEF Walk
    <2> QED BY <1>1, <2>2 DEF ListInv, ListTypes
  <1>5. ListRight'
    <2>1. \A id \in kept : (\E r \in records : r.id = id) /\ (ids = None \/ id \in ids)
      OBVIOUS
    <2>2. walk'.kept = kept /\ walk'.had = had /\ walk'.ids = ids
      BY <1>3
    <2> HIDE DEF had, kept
    <2> QED BY <1>1, <1>2, <2>1, <2>2 DEF ListInv, ListRight, Apart
  <1>6. WalkTypes' /\ FilterRight'
    BY <1>2, <1>3 DEF WalkTypes, FilterRight, Range
  <1>7. SeenRight' /\ CountRight'
    BY <1>3 DEF SeenRight, CountRight, Ahead, IsInjective, Range
  <1> QED BY <1>4, <1>5, <1>6, <1>7 DEF ListInv

LEMMA InsertListedRight ==
  ASSUME ListIdsAssumption, ListInv, NEW id \in ListIds,
         NEW at \in {created, created + 1}, InsertListed(id, at)
  PROVE  ListInv'
  <1> DEFINE new == [id |-> id, at |-> at]
  <1>1. /\ records' = records \cup {new} /\ created' = created + 1
        /\ ordered' = (ordered /\ \A r \in records : r.id < id /\ r.at < at)
        /\ UNCHANGED <<walk, shrunk>>
        /\ id \notin walk.had
    BY DEF InsertListed
  <1>2. new \in ListRow /\ created \in Nat /\ new.id = id /\ new.at = at /\ at \in Nat
        /\ at <= created + 1
        /\ \A r \in records : r.at \in Nat /\ r.at <= created /\ r.id \in Nat
    <2>1. created \in Nat /\ created + 1 \in Nat /\ at \in Nat /\ at <= created + 1
      BY DEF ListInv, ListTypes
    <2>2. new \in ListRow
      BY <2>1 DEF ListRow
    <2>3. \A r \in records : r.at \in Nat /\ r.at <= created /\ r.id \in ListIds
      BY DEF ListInv, ListTypes, ListRight, ListRow
    <2> QED BY <2>1, <2>2, <2>3, ListIdsAssumption
  <1> HIDE DEF new
  <1>3. ListTypes'
    <2>1. IsFiniteSet(records')
      BY <1>1, FS_AddElement DEF ListInv, ListTypes
    <2>2. ordered' \in BOOLEAN
      BY <1>1 DEF ListInv, ListTypes
    <2> QED BY <1>1, <1>2, <2>1, <2>2 DEF ListInv, ListTypes
  <1>4. ListRight'
    <2>1. \A r \in records' : r.at <= created'
      BY <1>1, <1>2
    <2>2. ASSUME ordered', NEW r \in records', NEW s \in records'
          PROVE  /\ r.id = s.id \/ r.at = s.at => r = s
                 /\ r.at < s.at => r.id < s.id
      <3>1. CASE r \in records /\ s \in records
        BY <1>1, <2>2, <3>1 DEF ListInv, ListRight, Apart
      <3>0. id \in Nat /\ \A q \in records : q.id < id /\ q.at < at
        BY <1>1, <2>2, ListIdsAssumption
      <3>2. CASE r \in records /\ s = new
        <4>1. r.id < s.id /\ r.at < s.at /\ r.id \in Nat /\ s.id \in Nat /\ r.at \in Nat
              /\ s.at \in Nat
          BY <1>2, <3>0, <3>2
        <4>2. r.id # s.id /\ r.at # s.at
          BY <4>1
        <4> QED BY <4>1, <4>2
      <3>3. CASE r = new /\ s \in records
        <4>1. s.id < r.id /\ s.at < r.at /\ r.id \in Nat /\ s.id \in Nat /\ r.at \in Nat
              /\ s.at \in Nat
          BY <1>2, <3>0, <3>3
        <4>2. r.id # s.id /\ r.at # s.at /\ ~(r.at < s.at)
          BY <4>1
        <4> QED BY <4>1, <4>2
      <3>4. CASE r = new /\ s = new
        BY <1>2, <3>4
      <3> QED BY <1>1, <3>1, <3>2, <3>3, <3>4
    <2> QED BY <1>1, <2>1, <2>2 DEF ListInv, ListRight, Apart
  <1>5. WalkTypes' /\ FilterRight' /\ \A i : Ahead(i)' <=> Ahead(i)
    BY <1>1 DEF ListInv, WalkTypes, FilterRight, Ahead
  <1>6. SeenRight => SeenRight'
    BY <1>1, <1>5 DEF SeenRight
  <1>7. ordered' /\ CountRight => CountRight'
    <2>1. Coming \subseteq Coming' /\ \A r \in Coming' : r \in Coming \/ r = new
      BY <1>1, <1>5 DEF Coming
    <2>2. Cardinality(Coming) <= Cardinality(Coming') /\ Cardinality(Coming) \in Nat
          /\ Cardinality(Coming') \in Nat
      <3>1. IsFiniteSet(Coming')
        BY <1>3, FS_Subset DEF ListTypes, Coming
      <3> QED BY <2>1, <3>1, FS_Subset, FS_CardinalityType
    <2>3. new.id \notin walk.kept
      BY <1>1, <1>2 DEF ListInv, ListRight
    <2>4. ASSUME NEW r \in Coming
          PROVE  ordered' => Place(r, Coming)' = Place(r, Coming)
      <3> SUFFICES ASSUME ordered' PROVE Place(r, Coming)' = Place(r, Coming)
        OBVIOUS
      <3>0. r \in records
        BY ComingRight
      <3>a. r.at < at
        BY <1>1, <3>0
      <3>1. r.at \in Nat /\ ~(new.at <= r.at)
        BY <1>2, <3>0, <3>a
      <3>2. {s \in Coming' : s.at <= r.at} = {s \in Coming : s.at <= r.at}
        BY <2>1, <3>1
      <3> QED BY <3>2 DEF Place
    <2> SUFFICES ASSUME ordered', CountRight, walk.count # None
                 PROVE  /\ walk.count <= Cardinality(Coming')
                        /\ \A r \in Coming' : r.id \in walk.kept =>
                                                Place(r, Coming)' <= walk.count
      BY <1>1 DEF CountRight
    <2>5. walk.count \in Nat
      BY DEF ListInv, ListTypes, Walk
    <2> QED BY <2>1, <2>2, <2>3, <2>4, <2>5 DEF CountRight
  <1>8. ordered' => ordered
    BY <1>1
  <1> QED BY <1>1, <1>3, <1>4, <1>5, <1>6, <1>7, <1>8 DEF ListInv

LEMMA DeleteListedRight ==
  ASSUME ListInv, NEW r \in records, DeleteListed(r)
  PROVE  ListInv'
  <1>1. /\ records' = records \ {r} /\ walk' = [walk EXCEPT !.kept = walk.kept \ {r.id}]
        /\ shrunk' = (shrunk \/ walk.count # None)
        /\ UNCHANGED <<created, ordered>>
    BY DEF DeleteListed
  <1>2. /\ walk' \in Walk /\ walk'.count = walk.count /\ walk'.way = walk.way
        /\ walk'.size = walk.size /\ walk'.cursor = walk.cursor /\ walk'.seen = walk.seen
        /\ walk'.over = walk.over /\ walk'.kept = walk.kept \ {r.id} /\ walk'.had = walk.had
        /\ walk'.pg = walk.pg /\ walk'.ids = walk.ids /\ walk'.failed = walk.failed
        /\ walk'.pages = walk.pages
    BY <1>1 DEF ListInv, ListTypes, Walk
  <1>3. ListTypes'
    <2>1. IsFiniteSet(records')
      BY <1>1, FS_RemoveElement DEF ListInv, ListTypes
    <2>2. shrunk' \in BOOLEAN
      BY <1>1 DEF ListInv, ListTypes
    <2> QED BY <1>1, <1>2, <2>1, <2>2 DEF ListInv, ListTypes
  <1>4. ListRight'
    <2>1. ordered => Apart(records')
      BY <1>1 DEF ListInv, ListRight, Apart
    <2>2. \A id \in walk'.kept : \E s \in records' : s.id = id
      BY <1>1, <1>2 DEF ListInv, ListRight
    <2> QED BY <1>1, <1>2, <2>1, <2>2 DEF ListInv, ListRight
  <1>5. WalkTypes' /\ FilterRight' /\ \A i : Ahead(i)' <=> Ahead(i)
    BY <1>2 DEF ListInv, WalkTypes, FilterRight, Ahead
  <1>6. SeenRight => SeenRight'
    BY <1>2, <1>5 DEF SeenRight
  <1>7. ~shrunk' => CountRight'
    BY <1>1, <1>2 DEF CountRight
  <1> QED BY <1>1, <1>3, <1>4, <1>5, <1>6, <1>7 DEF ListInv

-----------------------------------------------------------------------------
LEMMA ListInvHolds == ListSpec => []ListInv
  <1>1. ListInit => ListInv
    <2> SUFFICES ASSUME ListInit
                 PROVE  ListInv
      OBVIOUS
    <2>1. /\ records = {} /\ created = 0 /\ ordered = TRUE /\ shrunk = FALSE
          /\ walk = WalkStart
      BY DEF ListInit
    <2>2. IsFiniteSet({})
      BY FS_EmptySet
    <2>3. ListTypes
      <3>1. <<>> \in Seq(ListIds) /\ {} \in SUBSET ListIds /\ 0 \in Nat
            /\ None \in ListIds \cup {None} /\ None \in Nat \cup {None}
        OBVIOUS
      <3>2. WalkStart \in Walk
        BY <3>1 DEF Walk, WalkStart
      <3> QED BY <2>1, <2>2, <3>2 DEF ListTypes
    <2>4. ListRight /\ WalkTypes /\ FilterRight
      BY <2>1 DEF ListRight, Apart, WalkTypes, FilterRight, WalkStart, Range
    <2>5. SeenRight /\ CountRight
      BY <2>1 DEF SeenRight, CountRight, WalkStart, IsInjective, Range
    <2> QED BY <2>3, <2>4, <2>5 DEF ListInv
  <1>2. ListInv /\ [ListNext]_listVars => ListInv'
    <2> SUFFICES ASSUME ListInv, [ListNext]_listVars
                 PROVE  ListInv'
      OBVIOUS
    <2>1. CASE \E id \in ListIds, at \in {created, created + 1} : InsertListed(id, at)
      BY <2>1, InsertListedRight, ListIdsAssumption
    <2>2. CASE \E r \in records : DeleteListed(r)
      BY <2>2, DeleteListedRight
    <2>3. CASE \E way \in {"forward", "backward"}, size \in Firsts, pg \in BOOLEAN,
                  ids \in IdFilters : BeginWalk(way, size, pg, ids)
      BY <2>3, BeginWalkRight, ListIdsAssumption, LimitsAssumption
    <2>4. CASE ReadForward
      BY <2>4, ReadForwardRight, ListIdsAssumption, LimitsAssumption
    <2>5. CASE CountListed
      BY <2>5, CountListedRight, ListIdsAssumption, LimitsAssumption
    <2>6. CASE ReadBackward
      BY <2>6, ReadBackwardRight, ListIdsAssumption, LimitsAssumption
    <2>7. CASE FailPage
      BY <2>7, FailPageRight, ListIdsAssumption, LimitsAssumption
    <2>8. CASE UNCHANGED listVars
      BY <2>8 DEF listVars, ListInv, ListTypes, ListRight, Apart, WalkTypes, FilterRight,
                  SeenRight, CountRight, Coming, Ahead, Place
    <2> QED BY <2>1, <2>2, <2>3, <2>4, <2>5, <2>6, <2>7, <2>8 DEF ListNext
  <1> QED BY <1>1, <1>2, PTL DEF ListSpec

(* Whatever others add and delete meanwhile, a client that follows the      *)
(* cursor until a page is empty has seen every record that was there all    *)
(* the time and meets its filter, and none twice, where ids and times are   *)
(* in the order of creation and nothing is deleted between a count and its  *)
(* query; on PostgreSQL it sees only what meets the filter, and without one *)
(* it fails at the second page.                                             *)
THEOREM WalksAreComplete == ListSpec => []WalkIsComplete
  <1>1. ListInv => WalkIsComplete
    BY DEF ListInv, SeenRight, FilterRight, WalkIsComplete
  <1> QED BY <1>1, ListInvHolds, PTL
=============================================================================
