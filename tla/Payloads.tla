------------------------------ MODULE Payloads ------------------------------
(***************************************************************************)
(* The payloads of the lookup tools: a JSON value, tagged with what it is  *)
(* ("other" is a boolean, or any value of a type no field here has), and   *)
(* what the Go types it is decoded into are made of.                       *)
(***************************************************************************)
EXTENDS Integers, Sequences

Null == [is |-> "null"]
Other == [is |-> "other"]
Text(s) == [is |-> "text", text |-> s]
Number(n) == [is |-> "number", number |-> n]
List(items) == [is |-> "list", items |-> items]
Object(fields) == [is |-> "object", fields |-> fields]

Malformed == [is |-> "malformed"]

-----------------------------------------------------------------------------
(***************************************************************************)
(* The Go types of the fields.  A pointer is a *string.                    *)
(***************************************************************************)
string == [kind |-> "text"]
int == [kind |-> "number"]
pointer == [kind |-> "pointer"]
Slice(type) == [kind |-> "list", of |-> type]
MapOf(type) == [kind |-> "map", of |-> type]
Struct(name) == [kind |-> "struct", name |-> name]

Required(type) == [type |-> type, required |-> TRUE]
Optional(type) == [type |-> type, required |-> FALSE]

\* The keys a field is read under, in this order.
Keys(field) ==
  CASE field = "childCount" -> <<"childCount", "child_count">>
    [] field = "nextCursor" -> <<"nextCursor", "next_cursor">>
    [] OTHER -> <<field>>

-----------------------------------------------------------------------------
(***************************************************************************)
(* What the fields of a struct may be, given the structs it may contain: a *)
(* map is of structs, and a field whose zero value cannot be published is  *)
(* required.                                                               *)
(***************************************************************************)
Single(structs) == {string, int, pointer} \cup {Struct(name) : name \in structs}

FieldTypes(structs) ==
  Single(structs) \cup {Slice(type) : type \in Single(structs)}
                  \cup {MapOf(Struct(name)) : name \in structs}

WellFormed(fields, structs) ==
  \A k \in DOMAIN fields :
    /\ fields[k].type \in FieldTypes(structs)
    /\ fields[k].required \/ fields[k].type.kind \in {"text", "pointer", "list"}
=============================================================================
