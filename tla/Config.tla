------------------------------- MODULE Config -------------------------------
(***************************************************************************)
(* What the configuration parser makes of a file: the actions of the       *)
(* grammar (src/parser.c, generated from parser.y), which call             *)
(* SetKidsConfValue and SetStoreConfValue of src/conf.cc. The first        *)
(* statement of a file is reduced by other rules than those that follow.   *)
(*                                                                         *)
(* A file is a sequence of statements:                                     *)
(*   [form |-> "keyvalue", body |-> <<kv>>]                                *)
(*   [form |-> "log" or "listen", body |-> a sequence of kv]               *)
(*   [form |-> "store", type, buffer, items |-> keyvalues and stores]      *)
(*   [form |-> "error"], something the grammar does not know               *)
(* where kv is [key, values]. Characters are left to the lexer; values are *)
(* strings, except for the quantities of nlimit.                           *)
(***************************************************************************)
EXTENDS Quantities, FiniteSets

Fields == {"level", "file", "socket", "host", "port",
           "max_clients", "worker_threads", "ignore_case"}
LimitTypes == {"normal", "pubsub", "networkstore"}
StoreFields == {"host", "port", "socket", "path", "name", "rotate", "flush", "success", "topic"}

(* new KidsConfig; store has no member or one. *)
EmptyConf == [fields |-> [f \in Fields |-> ""],
              nlimit |-> [t \in LimitTypes |-> <<0, 0, 0>>],
              store |-> {}]

Wrong(ctx) == [ctx EXCEPT !.ok = FALSE]

(* nlimit. What a wrong one has set already is in a configuration that is  *)
(* not used.                                                               *)
SetLimit(ctx, v) ==
  LET amounts == <<ParseSize(v[2]), ParseSize(v[3]), ParseTime(v[4])>>
  IN  IF Len(v) = 4 /\ v[1] \in LimitTypes /\ Failed \notin ToSet(amounts)
        THEN [ctx EXCEPT !.conf.nlimit[v[1]] = amounts]
        ELSE Wrong(ctx)

(* A key that is not known is passed over, in every section. *)
SetKidsConfValue(ctx, kv) ==
  IF kv.key \in Fields THEN [ctx EXCEPT !.conf.fields[kv.key] = kv.values[1]]
  ELSE IF kv.key = "nlimit" THEN SetLimit(ctx, kv.values)
  ELSE ctx

(* log_conf and listen_conf: a configuration of its own. *)
Section(ok, body) ==
  FoldLeft(SetKidsConfValue, [ok |-> ok, first |-> TRUE, conf |-> EmptyConf], body)

SetStoreConfValue(ctx, kv) ==
  IF kv.key \in StoreFields THEN [ctx EXCEPT !.conf.fields[kv.key] = kv.values[1]]
                            ELSE Wrong(ctx)

NewStore(st) == [type |-> st.type, buffer |-> st.buffer,
                 fields |-> [f \in StoreFields |-> ""], stores |-> <<>>]

AddInner(ctx, inner) ==
  [ctx EXCEPT !.ok = @ /\ inner.ok, !.conf.stores = Append(@, inner.conf)]

RECURSIVE StoreConf(_)
StoreConf(st) ==
  FoldLeft(LAMBDA ctx, item : IF item.form = "keyvalue" THEN SetStoreConfValue(ctx, item.body[1])
                              ELSE AddInner(ctx, StoreConf(item)),
           [ok |-> TRUE, conf |-> NewStore(st)], st.items)

(* conf ::= listen, conf ::= conf listen *)
AddListen(ctx, section) ==
  IF ctx.first THEN [section EXCEPT !.first = FALSE]
  ELSE IF ctx.conf.fields["socket"] # "" \/ ctx.conf.fields["host"] # "" THEN Wrong(ctx)
  ELSE [ctx EXCEPT !.ok = section.ok,
          !.conf.fields = [f \in Fields |->
            IF f \in {"socket", "host", "port"} THEN section.conf.fields[f] ELSE @[f]]]


(* conf ::= log, conf ::= conf log *)
AddLog(ctx, section) ==
  IF ctx.first THEN [section EXCEPT !.first = FALSE]
  ELSE [ctx EXCEPT !.ok = section.ok,
          !.conf.fields = [f \in Fields |->
            IF f \in {"level", "file"} THEN section.conf.fields[f] ELSE @[f]]]

(* conf ::= store, conf ::= conf store *)
AddStore(ctx, store) ==
  IF ctx.conf.store # {} THEN Wrong(ctx)
  ELSE [ctx EXCEPT !.ok = @ /\ store.ok, !.first = FALSE, !.conf.store = {store.conf}]

(* One statement; a section that comes first is the configuration.         *)
Reduce(ctx, st) ==
  CASE st.form = "keyvalue" -> [SetKidsConfValue(ctx, st.body[1]) EXCEPT !.first = FALSE]
    [] st.form = "error" -> Wrong(ctx)
    [] st.form = "store" -> AddStore(ctx, StoreConf(st))
    [] st.form = "log" -> AddLog(ctx, Section(ctx.ok, st.body))
    [] st.form = "listen" -> AddListen(ctx, Section(ctx.ok, st.body))

(* ParseConfig, up to CheckKidsConfig; a file must not be empty. *)
ParseConfig(file) ==
  FoldLeft(Reduce, [ok |-> file # <<>>, first |-> TRUE, conf |-> EmptyConf], file)

----------------------------------------------------------------------------
(* What a file says to a reader of its statements.  The modes of nlimit    *)
(* are those the code knows; doc/config.md has only one of them.           *)
IsLimit(v) ==
  /\ Len(v) = 4 /\ v[1] \in LimitTypes
  /\ IsQuantity(v[2], SizeUnit) /\ IsQuantity(v[3], SizeUnit) /\ IsQuantity(v[4], TimeUnit)

HasBody(st) == st.form \in {"keyvalue", "log", "listen"}
Written(file) ==
  UNION {{<<kv.key, kv.values>> : kv \in ToSet(file[i].body)} :
           i \in {j \in DOMAIN file : HasBody(file[j])}}
Limits(file) == {w[2] : w \in {x \in Written(file) : x[1] = "nlimit"}}
Stores(file) == {i \in DOMAIN file : file[i].form = "store"}

RECURSIVE WellWritten(_)
WellWritten(st) ==
  \A k \in DOMAIN st.items :
    IF st.items[k].form = "store" THEN WellWritten(st.items[k])
                                  ELSE st.items[k].body[1].key \in StoreFields

(* The stores in a store, and what its lines with key f say. *)
Inner(st) == SelectSeq(st.items, LAMBDA x : x.form = "store")
Lines(st, f) == {k \in DOMAIN st.items : /\ st.items[k].form = "keyvalue"
                                         /\ st.items[k].body[1].key = f}
Said(st, f) == {st.items[k].body[1].values[1] : k \in Lines(st, f)}

RECURSIVE StoreMeans(_)
StoreMeans(st) ==
  [type |-> st.type, buffer |-> st.buffer,
   fields |-> [f \in StoreFields |-> IF Said(st, f) = {} THEN "" ELSE CHOOSE v \in Said(st, f) : TRUE],
   stores |-> [k \in DOMAIN Inner(st) |-> StoreMeans(Inner(st)[k])]]

Acceptable(file) ==
  /\ file # <<>>
  /\ \A i \in DOMAIN file : file[i].form # "error"
  /\ \A v \in Limits(file) : IsLimit(v)
  /\ Cardinality(Stores(file)) <= 1 /\ \A i \in Stores(file) : WellWritten(file[i])
  /\ Cardinality({i \in DOMAIN file : file[i].form = "listen"}) <= 1

ConfMeans(file) ==
  [fields |-> [f \in Fields |->
     LET ws == {w \in Written(file) : w[1] = f}
     IN  IF ws = {} THEN "" ELSE (CHOOSE w \in ws : TRUE)[2][1]],
   nlimit |-> [t \in LimitTypes |->
     LET vs == {v \in Limits(file) : v[1] = t}
     IN  IF vs = {} THEN <<0, 0, 0>>
         ELSE LET v == CHOOSE v \in vs : TRUE
              IN  <<Quantity(v[2], SizeUnit), Quantity(v[3], SizeUnit), Quantity(v[4], TimeUnit)>>],
   store |-> {StoreMeans(file[i]) : i \in Stores(file)}]

RECURSIVE StoreSaidOnce(_)
StoreSaidOnce(st) ==
  /\ \A f \in StoreFields : Cardinality(Lines(st, f)) <= 1
  /\ \A inner \in ToSet(Inner(st)) : StoreSaidOnce(inner)

(* Nothing is said twice, except stores and listen sections, and no key    *)
(* twice in a store; a second log section would clear what the first one   *)
(* says, and of the lines of a store with the same key only the last is    *)
(* kept.                                                                   *)
SaidOnce(file) ==
  /\ \A i, j \in DOMAIN file : i # j /\ HasBody(file[i]) /\ file[i].form # "listen" =>
       /\ file[i] # file[j]
       /\ ~(file[i].form = "log" /\ file[j].form = "log")
  /\ \A i \in Stores(file) : StoreSaidOnce(file[i])

Agrees(result, file) ==
  /\ result.ok <=> Acceptable(file)
  /\ result.ok => result.conf = ConfMeans(file)
============================================================================
