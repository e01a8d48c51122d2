----------------------------- MODULE DurableMap -----------------------------
(***************************************************************************)
(* What each index of this repository promises its caller: a map from keys *)
(* to value pointers whose operations are atomic with respect to power     *)
(* failure.  kv is the map a restart would find.  An operation that has    *)
(* begun takes effect on kv in one step or, when power is lost first, not  *)
(* at all; it returns only once its effect is on the medium.               *)
(***************************************************************************)
CONSTANTS Keys, Values, NULL
VARIABLES kv,   \* the durable map: NULL where a key is absent
          op    \* the operation in progress, NoOp, or Down after a power loss
vars == <<kv, op>>

NoOp == [kind |-> "none", key |-> NULL, value |-> NULL]
Down == [kind |-> "down", key |-> NULL, value |-> NULL]
Ops  == [kind : {"Insert", "Update"}, key : Keys, value : Values]
          \cup [kind : {"Delete"}, key : Keys, value : {NULL}]

TypeOK == /\ kv \in [Keys -> Values \cup {NULL}]
          /\ op \in Ops \cup {NoOp, Down}

\* The map after operation o: o's value (NULL for a delete) under o's key.
Effect(o) == [kv EXCEPT ![o.key] = o.value]

Init == kv = [k \in Keys |-> NULL] /\ op = NoOp

Begin == /\ op = NoOp
         /\ op' \in Ops
         /\ UNCHANGED kv

Take == /\ op \in Ops
        /\ UNCHANGED op
        /\ kv' = Effect(op)

Return == /\ op \in Ops
          /\ op' = NoOp
          /\ kv = Effect(op)
          /\ UNCHANGED kv

\* An operation cut short leaves the map it had, whether it took effect or not.
PowerLoss == op' = Down /\ UNCHANGED kv
Restart   == op = Down /\ op' = NoOp /\ UNCHANGED kv

Next == Begin \/ Take \/ Return \/ PowerLoss \/ Restart
Spec == Init /\ [][Next]_vars
=============================================================================
