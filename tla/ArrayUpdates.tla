---------------------------- MODULE ArrayUpdates ----------------------------
(***************************************************************************)
(* What an update does to the fields of the record it has read:            *)
(* getUpdatedRecordObject and handleArrayField (controllers/utils/         *)
(* utils.js), and the operations on embedded arrays (arrayOperationUtil.js).*)
(*                                                                         *)
(* An element of an array is [val, refs]: what filters see of it, and the  *)
(* ids of the related records that its relation fields refer to.  An       *)
(* operation is [op, arg, where]; the result of one is [to, freed]: the    *)
(* new array and the ids whose records lose their reference to this one.   *)
(***************************************************************************)
EXTENDS Naturals, FiniteSets, SequencesExt

Refs(array) == UNION {e.refs : e \in Range(array)}

Kept(array) == [to |-> array, freed |-> {}]

Fits(e, where) == e.val \in where

(* Variant: the last element is taken off, the references of the first go. *)
PoppedFirst(array) ==
    [to |-> Front(array), freed |-> array[1].refs]

(* popBack *)
Popped(array) ==
    [to |-> Front(array), freed |-> array[Len(array)].refs]

(* popFront *)
Shifted(array) == [to |-> Tail(array), freed |-> array[1].refs]

(* pop: the elements that fit.                                              *)
Pulled(array, where) ==
    LET rest[i \in 0 .. Len(array)] ==
            IF i = 0 THEN <<>>
            ELSE IF Fits(array[i], where) THEN rest[i - 1] ELSE Append(rest[i - 1], array[i])
    IN [to    |-> rest[Len(array)],
        freed |-> UNION {e.refs : e \in {f \in Range(array) : Fits(f, where)}}]

(* customMerge of an element: its value is overwritten, and its references  *)
(* where the input has some.  Nothing is freed.                             *)
Merged(e, with) ==
    [val |-> with.val, refs |-> IF with.refs = {} THEN e.refs ELSE with.refs]

MergedWhere(array, where, with) ==
    Kept([i \in DOMAIN array |-> IF Fits(array[i], where) THEN Merged(array[i], with)
                                 ELSE array[i]])

(* pushToSet calls validateClassItemsUniqueness, which utils.js does not    *)
(* export: it always throws.  What takes elements out calls the toObject of *)
(* each that it looks at, of which plain values have none; and an empty     *)
(* array has no first and no last element to read.                          *)
Fails(array, plain, o) ==
    \/ o.op = "pushToSet"
    \/ o.op \in {"popFront", "popBack"} /\ o.arg # <<>> /\ array = <<>>
    \/ /\ plain /\ array # <<>>
       /\ \/ o.op = "replace"
          \/ o.op \in {"popFront", "popBack", "popAll"} /\ o.arg # <<>>
          \/ o.op = "pop" /\ \E e \in Range(array) : Fits(e, o.where)

(* handleArrayField with the operation as the only key of its object; false *)
(* (here <<>>) for what shortens the array leaves it as it is.  A replace   *)
(* frees what the new array refers to, too.                                 *)
Done(array, o) ==
    CASE o.op \in {"popFront", "popBack", "popAll"} /\ o.arg = <<>> -> Kept(array)
      [] o.op \in {"push", "pushMany"} -> Kept(array \o o.arg)
      [] o.op = "replace" -> [to |-> o.arg, freed |-> Refs(array)]
      [] o.op = "update" -> MergedWhere(array, o.where, o.arg[1])
      [] o.op = "updateAll" -> MergedWhere(array, {e.val : e \in Range(array)}, o.arg[1])
      [] o.op = "popFront" /\ o.arg # <<>> -> Shifted(array)
      [] o.op = "popBack" /\ o.arg # <<>> -> Popped(array)
      [] o.op = "popAll" /\ o.arg # <<>> -> [to |-> <<>>, freed |-> Refs(array)]
      [] o.op = "pop" -> Pulled(array, o.where)

(* The keys of the object decide: the two of an update together, or one of  *)
(* the others; anything else is refused.                                    *)
Operations == {"push", "pushMany", "pushToSet", "replace", "updateAll",
               "popFront", "popBack", "popAll", "pop"}

Pair == {"updateWhere", "updateWith"}

KeysVerdict(keys) ==
    LET n == Cardinality(keys)
    IN CASE keys = Pair -> "update"
         [] n > 2 \/ (n = 2 /\ keys \cap Pair = {}) -> "several operations"
         [] n \in 1 .. 2 /\ keys # Pair /\ keys \cap Pair # {} -> "invalid update"
         [] n = 1 /\ keys \subseteq Operations -> "operation"
         [] OTHER -> "nothing"

=============================================================================
