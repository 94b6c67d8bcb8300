------------------------------ MODULE MoveFormat ------------------------------
(***************************************************************************)
(* The layout of a Move binary as module_loader.cpp reads it: for each     *)
(* thing it reads, how many bytes or how large a number that is, and what  *)
(* it reads after it.  An item is a name and an argument: the depth of a   *)
(* type in its signature, the bytes of a blob, a count to be used later.   *)
(***************************************************************************)
EXTENDS Integers, Sequences, TLC

Item(name, arg) == [name |-> name, arg |-> arg]
Items(names, arg) == [i \in 1 .. Len(names) |-> Item(names[i], arg)]
Repeat(n, names, arg) == [i \in 1 .. n * Len(names) |-> Item(names[((i - 1) % Len(names)) + 1], arg)]

(* Numbers in ULEB128 and the largest value that is accepted: NoLimit is   *)
(* 2^32-1 or 2^64-1, which no number of the model comes near.              *)
NoLimit == 2147483647
Largest == [index |-> 65535, local |-> 255, offset |-> 65535, ability |-> 15, phantom |-> 1,
            field |-> 255, variant |-> 127, mask |-> NoLimit,
            tables |-> 255, tableOffset |-> NoLimit, tableSize |-> NoLimit,
            abilities |-> 255, parameters |-> 255, signature |-> 255, accesses |-> 64,
            attributes |-> 16, fields |-> 255, variants |-> 128, offsets |-> 128, acquires |-> 255,
            code |-> 65535, typeArguments |-> 255, argumentCount |-> 255, resultCount |-> 255,
            constantBytes |-> 65535, keyBytes |-> 1023, valueBytes |-> 65535, identifier |-> 255]

(* How deep a type may nest, whatever the limits. *)
kMaximumTypeDepth == 256

(* Fixed little-endian fields and their bytes. *)
Width == [magic |-> 4, version |-> 4, tableKind |-> 1, address |-> 32, type |-> 1, structInfo |-> 1,
          accessOption |-> 1, accessKind |-> 1, negated |-> 1, resource |-> 1, addressKind |-> 1,
          derivation |-> 1, attribute |-> 1, visibility |-> 1, flags |-> 1, opcode |-> 1,
          u8 |-> 1, u16 |-> 2, u32 |-> 4, u64 |-> 8, u128 |-> 16, u256 |-> 32]

(* Counts, and what is read once for each. *)
Elements == [abilities |-> <<"ability">>, parameters |-> <<"ability", "phantom">>,
             signature |-> <<"type">>, accesses |-> <<"accessKind", "negated", "resource", "addressKind">>,
             attributes |-> <<"attribute">>, fields |-> <<"index", "type">>,
             variants |-> <<"index", "fields">>, offsets |-> <<"variant">>, acquires |-> <<"index">>,
             code |-> <<"opcode">>, tables |-> <<"tableKind", "tableOffset", "tableSize">>]

Blobs == {"constantBytes", "keyBytes", "valueBytes"}

(* The items that begin an entry of a table or stand in the header or footer. *)
FirstItems == {"magic", "version", "tables", "index", "local", "ability", "parameters", "abilities", "accessOption",
               "attributes", "signature", "type", "constantBytes", "identifier", "address", "structInfo", "visibility",
               "flags", "field", "keyBytes", "valueBytes", "offsets", "variant", "code"}
Names == FirstItems \union DOMAIN Largest \union DOMAIN Width \union {"name", "data"}

Choice(since, then) == [since |-> since, then |-> then]
On(tags, choice) == [tag \in tags |-> choice]

(* Instructions by the encoding of their operands: the table of opcode.cpp. *)
OperandsOf ==
    [None |-> <<>>, Local |-> <<"local">>, Table |-> <<"index">>, Offset |-> <<"offset">>,
     U8 |-> <<"u8">>, U16 |-> <<"u16">>, U32 |-> <<"u32">>, U64 |-> <<"u64">>, U128 |-> <<"u128">>,
     U256 |-> <<"u256">>, TableU64 |-> <<"index", "u64">>, TableMask |-> <<"index", "mask">>]

Encoding ==
       [op \in {3, 4, 5} |-> "Offset"] @@ [op \in {10, 11, 12, 13, 14} |-> "Local"]
    @@ [op \in {7, 15, 16, 17, 18, 19} \union 41 .. 45 \union 54 .. 63 \union {65, 66, 67, 68, 69, 71}
               \union 78 .. 87 \union {90} |-> "Table"]
    @@ [op \in {64, 70} |-> "TableU64"] @@ [op \in {88, 89} |-> "TableMask"]
    @@ [op \in {49, 91} |-> "U8"] @@ [op \in {72, 92} |-> "U16"] @@ [op \in {73, 93} |-> "U32"]
    @@ [op \in {6, 94} |-> "U64"] @@ [op \in {50, 95} |-> "U128"] @@ [op \in {74, 96} |-> "U256"]
    @@ [op \in 1 .. 104 |-> "None"]

Introduced(op) ==
    CASE op <= 63 -> 1 [] op \in 64 .. 71 -> 4 [] op \in 72 .. 77 -> 6 [] op \in 78 .. 87 -> 7
      [] op \in 88 .. 90 -> 8 [] op \in 91 .. 103 -> 9 [] OTHER -> 10

OpcodeTags == [op \in 1 .. 104 |-> Choice(Introduced(op), OperandsOf[Encoding[op]])]

(* Bytes that select what follows, each with the version that brought it. *)
TypeTags ==
       On({1, 2, 3, 4, 5, 12}, Choice(0, <<>>)) @@ On({6, 7, 10}, Choice(0, <<"type">>))
    @@ On({8, 9}, Choice(0, <<"index">>)) @@ On({11}, Choice(0, <<"index", "typeArguments">>))
    @@ On({13, 14, 15}, Choice(6, <<>>)) @@ On({16}, Choice(8, <<"ability", "argumentCount">>))
    @@ On(17 .. 22, Choice(9, <<>>))

Tagged ==
    [type |-> TypeTags, opcode |-> OpcodeTags,
     structInfo |-> On({1}, Choice(0, <<>>)) @@ On({2}, Choice(0, <<"fields">>)) @@ On({3}, Choice(7, <<"variants">>)),
     accessOption |-> On({1}, Choice(0, <<>>)) @@ On({2}, Choice(0, <<"accesses">>)),
     accessKind |-> On({1, 2}, Choice(0, <<>>)), negated |-> On({1, 2}, Choice(0, <<>>)),
     resource |-> On({1}, Choice(0, <<>>)) @@ On({2, 3, 4}, Choice(0, <<"index">>)) @@ On({5}, Choice(0, <<"index", "index">>)),
     addressKind |-> On({1}, Choice(0, <<>>)) @@ On({2}, Choice(0, <<"index">>)) @@ On({3}, Choice(0, <<"local", "derivation">>)),
     derivation |-> On({1}, Choice(0, <<>>)) @@ On({2}, Choice(0, <<"index">>)),
     attribute |-> On({1, 2}, Choice(0, <<>>)) @@ On({3, 5}, Choice(10, <<>>)) @@ On({4, 6, 7, 8, 9}, Choice(10, <<"u16">>)),
     visibility |-> On({0, 1, 3}, Choice(0, <<>>)),
     flags |-> On({0, 4}, Choice(0, <<"acquires", "index", "code">>)) @@ On({2, 6}, Choice(0, <<"acquires">>))]

(* The entries of each table, in the order their fields are read. *)
TableKinds == 1 .. 8 \union 10 .. 20
(* Mutant of SinceVersion: variant field handles are always allowed.       *)
SinceVersionOne(kind) == IF kind \in 18 .. 20 THEN 7 ELSE 5

SinceVersion(kind) == IF kind \in 17 .. 20 THEN 7 ELSE 5
ModuleOnly == 10 .. 15 \union 17 .. 20

EntryOf(kind, version) ==
    CASE kind \in {1, 4, 11, 14, 15, 18, 20} -> <<"index", "index">>
      [] kind = 2 -> <<"index", "index", "ability", "parameters">>
      [] kind = 3 -> <<"index", "index", "index", "index", "abilities">>
                     \o (IF version >= 7 THEN <<"accessOption">> ELSE <<>>)
                     \o (IF version >= 8 THEN <<"attributes">> ELSE <<>>)
      [] kind = 5 -> <<"signature">>
      [] kind = 6 -> <<"type", "constantBytes">>
      [] kind = 7 -> <<"identifier">>
      [] kind = 8 -> <<"address">>
      [] kind = 10 -> <<"index", "structInfo">>
      [] kind = 12 -> <<"index", "visibility", "flags">>
      [] kind = 13 -> <<"index", "field">>
      [] kind = 16 -> <<"keyBytes", "valueBytes">>
      [] kind = 17 -> <<"index", "field", "offsets">>
      [] kind = 19 -> <<"index", "variant">>

ModuleFooter == <<"index">>
ScriptFooter(version) == <<"abilities", "index">> \o (IF version >= 8 THEN <<"accessOption">> ELSE <<>>) \o <<"index", "code">>

(* What is read after an item whose value is v. *)
After(item, v) ==
    CASE item.name \in DOMAIN Elements -> Repeat(v, Elements[item.name], 1)
      [] item.name = "identifier" -> <<Item("name", v)>>
      [] item.name \in Blobs -> <<Item("data", v)>>
      [] item.name = "type" -> Items(Tagged.type[v].then, item.arg + 1)
      [] item.name \in DOMAIN Tagged \ {"type"} -> Items(Tagged[item.name][v].then, 1)
      [] item.name \in {"typeArguments", "resultCount"} -> Repeat(v, <<"type">>, item.arg)
      [] item.name = "argumentCount" -> <<Item("resultCount", item.arg)>> \o Repeat(v, <<"type">>, item.arg)
      [] OTHER -> <<>>

(* What the tables above must be for the reader to make sense of them: a   *)
(* count is a number, a tag is not, and what follows is again named items. *)
ASSUME FormatAssumption ==
    /\ \A name \in DOMAIN Width : Width[name] \in Nat
    /\ Width["tableKind"] = 1 /\ "tableKind" \in DOMAIN Width \ DOMAIN Largest
    /\ {"tableOffset", "tableSize", "identifier", "typeArguments", "resultCount", "argumentCount"} \union Blobs
         \union DOMAIN Elements \subseteq DOMAIN Largest
    /\ \A name \in DOMAIN Elements : Elements[name] \in Seq(Names)
    /\ \A name \in DOMAIN Tagged : \A v \in DOMAIN Tagged[name] : Tagged[name][v].then \in Seq(Names)
    /\ "type" \in DOMAIN Tagged
===============================================================================
