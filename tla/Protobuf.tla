------------------------------- MODULE Protobuf -------------------------------
(***************************************************************************)
(* The messages of rpc_header.proto and math_service.proto, as protoc's    *)
(* code for them builds, serialises, parses and copies them.               *)
(*                                                                         *)
(* A serialised message is a sequence of entries, one per field on the     *)
(* wire: its number, its wire type and its value. What a class adds to the *)
(* common scheme is its fields and whether presence is explicit: proto2    *)
(* keeps a has bit for every field and serialises the fields that were     *)
(* set; proto3 keeps none and serialises the fields that differ from their *)
(* default, so that a message of defaults has no bytes at all.             *)
(***************************************************************************)
EXTENDS Integers, Sequences

CONSTANT
  NotUtf8   \* texts that are not valid UTF-8
-----------------------------------------------------------------------------
(* The classes.                                                            *)

RpcRequest ==
  [name |-> "rpc.RpcRequest", types |-> <<"string", "string", "bytes">>, explicit |-> FALSE]
RpcResponse ==
  [name |-> "rpc.RpcResponse", types |-> <<"enum", "string", "bytes">>, explicit |-> FALSE]
AddRequest ==
  [name |-> "math.AddRequest", types |-> <<"int32", "int32">>, explicit |-> TRUE]
AddResponseProto3 ==
  [name |-> "math.AddResponse", types |-> <<"int32">>, explicit |-> FALSE]
AddResponse ==
  [name |-> "math.AddResponse", types |-> <<"int32">>, explicit |-> TRUE]
SubRequest ==
  [name |-> "math.SubRequest", types |-> <<"int32", "int32">>, explicit |-> TRUE]
SubResponse ==
  [name |-> "math.SubResponse", types |-> <<"int32">>, explicit |-> TRUE]

Default(type) ==
  CASE type \in {"int32", "enum"} -> 0
    [] type = "string" -> ""
    [] type = "bytes" -> <<>>

Wire(type) == IF type \in {"int32", "enum"} THEN "varint" ELSE "length"

\* A field on the wire, and what is left of one that was cut off: a tag that is not one.
Entry(num, wire, val) == [num |-> num, wire |-> wire, val |-> val]
CutEntry == Entry(0, "varint", 0)
-----------------------------------------------------------------------------
(* Messages of class C: the has bits, the fields, and fields of other      *)
(* classes that were met when parsing.                                     *)

New(C) ==
  [has |-> {}, val |-> [i \in DOMAIN C.types |-> Default(C.types[i])], unknown |-> <<>>]

SetField(C, m, i, v) ==
  [has |-> IF C.explicit THEN m.has \cup {i} ELSE m.has,
   val |-> [m.val EXCEPT ![i] = v], unknown |-> m.unknown]

Get(m, i) == m.val[i]

Has(C, m, i) == IF C.explicit THEN i \in m.has ELSE m.val[i] # Default(C.types[i])

\* The fields with a number up to n that are present, by number.
Fields(C, m, n) ==
  LET written[i \in 0 .. n] ==
        IF i = 0 THEN <<>>
        ELSE IF Has(C, m, i)
        THEN Append(written[i - 1], Entry(i, Wire(C.types[i]), m.val[i]))
        ELSE written[i - 1]
  IN written[n]

\* SerializeAsString: the fields that are present, then the unknown ones.
Serialize(C, m) == Fields(C, m, Len(C.types)) \o m.unknown

\* One turn of the loop of _InternalParse. A field of another wire type is an unknown one;
\* proto3 checks that strings are UTF-8.
ParseEntry(C, p, e) ==
  CASE ~p.ok -> p
    [] p.ok /\ e.num = 0 -> [p EXCEPT !.ok = FALSE]
    [] p.ok /\ e.num \in DOMAIN C.types /\ e.wire = Wire(C.types[e.num]) ->
         [ok |-> C.types[e.num] = "string" => e.val \notin NotUtf8,
          msg |-> SetField(C, p.msg, e.num, e.val)]
    [] OTHER -> [p EXCEPT !.msg.unknown = Append(@, e)]

\* ParseFromString: whether it succeeds, and the message as far as it was parsed.
Parse(C, bytes) ==
  LET after[i \in 0 .. Len(bytes)] ==
        IF i = 0 THEN [ok |-> TRUE, msg |-> New(C)] ELSE ParseEntry(C, after[i - 1], bytes[i])
  IN after[Len(bytes)]

\* The copy constructor.
Copy(from) == [has |-> from.has, val |-> from.val, unknown |-> from.unknown]
=============================================================================
