----------------------------- MODULE EvidenceLog -----------------------------
(***************************************************************************)
(* The evidence of what was done with recorded messages, as its readers    *)
(* see it (the D1 tables of docs/carboti/product-plan.md): a log that is   *)
(* only appended to.  One request appends one run and, in the same step,   *)
(* at most one delivery and one object, derived from objects of the same   *)
(* message that were there before.  ProcessorEvidence implements it.       *)
(***************************************************************************)
EXTENDS Naturals

CONSTANTS Messages, Processors,
          Requests,   \* each gives its id to what it appends
          NoRequest   \* retryOf of a first delivery

VARIABLES objects,     \* the objects of each message
          edges,       \* which object was derived from which
          runs, deliveries

logVars == <<objects, edges, runs, deliveries>>

\* The objects and edges are what the receipt of the messages left.
LogInit == runs = {} /\ deliveries = {}

Attempt(id, m, p, retryOf, attempt, status) ==
  [id |-> id, message |-> m, processor |-> p, retryOf |-> retryOf, attempt |-> attempt,
   status |-> status]

FirstDelivery(id, m, status) ==
  \E p \in Processors :
    deliveries' = deliveries \cup {Attempt(id, m, p, NoRequest, 1, status)}

RetriedDelivery(id, m, status) ==
  \E failed \in deliveries :
    /\ failed.message = m /\ failed.status = "failed"
    /\ deliveries' = deliveries \cup
         {Attempt(id, m, failed.processor, failed.id, failed.attempt + 1, status)}

Deliver(id, m, status) == FirstDelivery(id, m, status) \/ RetriedDelivery(id, m, status)

Derive(id, m) ==
  \E inputs \in (SUBSET objects[m]) \ {{}} :
    /\ objects' = [objects EXCEPT ![m] = @ \cup {id}]
    /\ edges' = edges \cup (inputs \X {id})

Succeed(id, m) ==
  /\ runs' = runs \cup {[id |-> id, message |-> m, status |-> "succeeded"]}
  /\ \/ Derive(id, m) /\ UNCHANGED deliveries
     \/ Derive(id, m) /\ Deliver(id, m, "delivered")
     \/ Deliver(id, m, "delivered") /\ UNCHANGED <<objects, edges>>

Fail(id, m) ==
  /\ runs' = runs \cup {[id |-> id, message |-> m, status |-> "failed"]}
  /\ Deliver(id, m, "failed")
  /\ UNCHANGED <<objects, edges>>

Append(id) ==
  /\ \A run \in runs : run.id # id
  /\ \E m \in Messages : Succeed(id, m) \/ Fail(id, m)

LogSpec == LogInit /\ [][\E id \in Requests : Append(id)]_logVars

=============================================================================
