-------------------------- MODULE OutboxRefinement --------------------------
(***************************************************************************)
(* The outbox of one server implements OutboxContract: the progress of an  *)
(* event is that of its copy, in whichever store the enqueue put it.       *)
(***************************************************************************)
EXTENDS Outbox

(* The refinement mapping.  Without faults an event lives in one store.     *)
Copy(e) == IF Present(mongo[e]) \/ home[e] = None THEN mongo[e] ELSE mem[home[e]][e]

ContractStatus ==
    [e \in Events |->
        IF stage[e] = "absent" THEN "none"
        ELSE CASE Copy(e).status = "DELIVERED" -> "delivered"
               [] Copy(e).status = "FAILED" -> "failed"
               [] OTHER -> "pending"]

Contract == INSTANCE OutboxContract WITH
    Hooks <- [url : Urls, at : Servers, gen : 1 .. (MaxGen + MaxExits + 1)],
    status <- ContractStatus, owed <- owed, got <- acked,
    rounds <- [e \in Events |-> Copy(e).attempts]

(* The outbox of one server keeps the contract, up to its first failed       *)
(* operation or exit: completion only when every subscriber has the event,  *)
(* giving up after exactly MaxAttempts rounds, no acknowledgement after     *)
(* either, and no way back.                                                 *)
KeepsContract ==
    /\ Contract!Init
    /\ [][faults' = 0 /\ exits' = 0 => [Contract!Next]_(Contract!vars)]_vars
=============================================================================
