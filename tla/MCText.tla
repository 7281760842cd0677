------------------------------- MODULE MCText -------------------------------
(***************************************************************************)
(* Statements of configuration files, with the keys where doc/config.md    *)
(* and doc/store.md put them.                                              *)
(***************************************************************************)
EXTENDS Text

One(k, v) == [form |-> "keyvalue", body |-> <<[key |-> k, values |-> <<v>>]>>]
Limit(v) == [form |-> "keyvalue", body |-> <<[key |-> "nlimit", values |-> v]>>]
Block(f, keys) ==
  [form |-> f, body |-> [i \in DOMAIN keys |-> [key |-> keys[i], values |-> <<"some " \o keys[i]>>]]]
Store(type, buffer, items) ==
  [form |-> "store", type |-> type, buffer |-> buffer, items |-> items]

Tree ==
  Store("multiple", "",
    <<Store("buffer", "", <<Store("network", "primary", <<One("host", "h"), One("port", "p")>>),
                            Store("file", "secondary", <<One("path", "q")>>)>>),
      One("topic", "a"), Store("null", "", <<>>)>>)

MCStatements ==
  {One("worker_threads", "3"), One("max_clients", "200"), One("nosuch", "x"),
   Limit(<<"pubsub", <<"9", "k">>, <<"1", "kb">>, <<"1", "0", "s">> >>),
   Limit(<<"networkstore", <<"9", "b">>, <<"b">>, <<"1", "min">> >>),
   Limit(<<"nosuch", <<"9", "b">>, <<"1", "b">>, <<"1", "s">> >>),
   Limit(<<"normal", <<"9", "b">>, <<"1", "h">>, <<"1", "s">> >>),
   Limit(<<"normal", <<"9", "b">>, <<"1", "b">> >>),
   Block("log", <<"level">>), Block("log", <<"level", "file">>),
   Block("listen", <<"host", "port">>), Block("listen", <<"socket">>),
   Store("file", "", <<One("path", "q"), One("name", "n")>>), Tree,
   Store("null", "", <<One("topic", "a"), One("topic", "b")>>),
   Store("file", "", <<One("nosuch", "x")>>),
   [form |-> "error"]}
============================================================================
