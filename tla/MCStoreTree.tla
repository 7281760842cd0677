----------------------------- MODULE MCStoreTree -----------------------------
(***************************************************************************)
(* Configurations: all with a root and up to two simple stores, and five   *)
(* trees that are started.                                                 *)
(***************************************************************************)
EXTENDS StoreTree

Tree(types, children, success, topics) ==
  [type |-> types, children |-> children, success |-> success, topic |-> topics,
   buffer |-> [i \in DOMAIN types |-> "none"], address |-> [i \in DOMAIN types |-> TRUE]]

(* A network store and a file store, copied to both if need be. *)
Copies(success) ==
  Tree(<<"multiple", "network", "file">>, <<<<2, 3>>, <<>>, <<>>>>,
       <<success, "any", "any">>, <<Topics, Topics, Topics>>)

(* The example of doc/store.md: one topic is discarded, the others go to a *)
(* remote or else to files.                                                *)
Fallback ==
  Tree(<<"priority", "null", "network", "file">>, <<<<2, 3, 4>>, <<>>, <<>>, <<>>>>,
       [i \in 1..4 |-> "any"], <<Topics, {"debug"}, Topics, Topics>>)

(* Two stores, and files if none, or not each of them, takes the message;  *)
(* the root has one topic.                                                 *)
Nested(success, types) ==
  Tree(<<"priority", "multiple">> \o types \o <<"file">>,
       <<<<2, 5>>, <<3, 4>>, <<>>, <<>>, <<>>>>, [i \in 1..5 |-> success],
       <<{"log"}>> \o [i \in 1..4 |-> Topics])

MCStarted == {Copies("any"), Copies("all"), Fallback,
              Nested("any", <<"network", "network">>), Nested("all", <<"null", "network">>)}

SimpleStores == {"network", "file", "null", "nosuch"} \X {"none", "primary", "secondary"} \X BOOLEAN
Small(root, stores) ==
  [type |-> <<root>> \o [k \in DOMAIN stores |-> stores[k][1]],
   children |-> <<[k \in DOMAIN stores |-> k + 1]>> \o [k \in DOMAIN stores |-> <<>>],
   success |-> [k \in 1..(Len(stores) + 1) |-> "any"],
   topic |-> [k \in 1..(Len(stores) + 1) |-> {}],
   buffer |-> <<"none">> \o [k \in DOMAIN stores |-> stores[k][2]],
   address |-> <<TRUE>> \o [k \in DOMAIN stores |-> stores[k][3]]]

MCConfs ==
  MCStarted \cup {[Fallback EXCEPT !.type = <<>>]} \cup
  {Small(root, stores) :
     root \in {"multiple", "priority", "buffer", "file", "nosuch"},
     stores \in UNION {[1..n -> SimpleStores] : n \in 0..2}}
============================================================================
