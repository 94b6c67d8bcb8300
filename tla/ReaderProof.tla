----------------------------- MODULE ReaderProof ------------------------------
(***************************************************************************)
(* Proofs about ModuleReader: the layout check makes every decoder stay in *)
(* the bytes of its own table, no bit of a number is lost and a number is  *)
(* read in one way only, and every byte of an accepted file is accounted   *)
(* for by exactly one item.                                                *)
(***************************************************************************)
EXTENDS ModuleReader, ControlFlowProof

Bytes == 0 .. 2 * Radix - 1
ItemType == [name : Names, arg : Nat]
TableType == [kind : TableKinds, offset : Nat, size : Nat]

(* What every step keeps, whatever is read. *)
Typed ==
    /\ file \in Seq(Bytes)
    /\ pos \in Nat /\ end \in Nat /\ content \in Nat /\ total \in Nat /\ current \in Nat
    /\ todo \in Seq(ItemType)
    /\ header \in [kind : TableKinds, offset : Nat]
    /\ tables \in Seq(TableType)
    /\ digits \in [value : Nat, count : 0 .. MaxBytes - 1]
    /\ pos <= end /\ end <= Len(file)

(* Tables found contiguous so far lie below total, apart from each other.  *)
Apart ==
    /\ placed \subseteq DOMAIN tables
    /\ \A i \in placed : tables[i].offset + tables[i].size <= total
    /\ \A i, j \in placed : \/ i = j
                            \/ tables[i].offset + tables[i].size <= tables[j].offset
                            \/ tables[j].offset + tables[j].size <= tables[i].offset

(* What holds from one stage to the next. *)
Staged ==
    /\ stage \in {"start", "header", "number"} => placed = {} /\ total = 0
    /\ stage \in {"start", "header", "number", "layout"} => current = 0
    /\ stage \in {"start", "layout"} => todo = <<>>
    /\ stage = "layout" => content <= Len(file)
    /\ stage = "entries" /\ current = 0 => pos = end /\ todo = <<>>
    /\ stage \in {"entries", "footer"} =>
          placed = DOMAIN tables /\ content + total <= Len(file) /\ current <= Len(tables)
    /\ stage = "entries" /\ current > 0 => pos >= Place1(current) /\ end = Place1(current) + tables[current].size
    /\ stage = "footer" => pos >= content + total

IInv == Typed /\ Apart /\ Staged

-------------------------------------------------------------------------------
(* Sequences of items and what is read after one. *)
LEMMA ItemsAreItems ==
    ASSUME NEW names \in Seq(Names), NEW arg \in Nat
    PROVE  Items(names, arg) \in Seq(ItemType)
BY DEF Items, Item, ItemType

LEMMA RepeatedItems ==
    ASSUME NEW n \in Nat, NEW names \in Seq(Names), NEW arg \in Nat
    PROVE  Repeat(n, names, arg) \in Seq(ItemType)
<1>1. CASE Len(names) = 0
  <2>1. n * Len(names) = 0  BY <1>1
  <2>2. 1 .. n * Len(names) = {}  BY <2>1
  <2>3. Repeat(n, names, arg) = <<>>  BY <2>2 DEF Repeat
  <2> QED  BY <2>3
<1>2. CASE Len(names) # 0
  <2>0. Len(names) \in Nat /\ Len(names) > 0  BY <1>2
  <2>1. n * Len(names) \in Nat  BY <2>0
  <2>2. \A i \in 1 .. n * Len(names) : ((i - 1) % Len(names)) + 1 \in 1 .. Len(names)
    <3> SUFFICES ASSUME NEW i \in 1 .. n * Len(names) PROVE ((i - 1) % Len(names)) + 1 \in 1 .. Len(names)
      OBVIOUS
    <3> DEFINE L == Len(names)
    <3>1. L \in Nat /\ L > 0 /\ i - 1 \in Int  BY <2>0, <2>1
    <3> HIDE DEF L
    <3>2. (i - 1) % L \in 0 .. L - 1  BY <3>1
    <3> QED  BY <3>1, <3>2 DEF L
  <2>3. \A i \in 1 .. n * Len(names) : Item(names[((i - 1) % Len(names)) + 1], arg) \in ItemType
    BY <2>2 DEF Item, ItemType
  <2> QED  BY <2>1, <2>3 DEF Repeat
<1> QED  BY <1>1, <1>2

LEMMA FirstNames == FirstItems \subseteq Names
BY DEF Names

LEMMA EntryNames ==
    ASSUME NEW k \in TableKinds, NEW v
    PROVE  EntryOf(k, v) \in Seq(Names)
<1>1. \A a \in FirstItems : a \in Names
  BY FirstNames
<1>2. CASE k = 3
  <2> DEFINE a == IF v >= 7 THEN <<"accessOption">> ELSE <<>>
             b == IF v >= 8 THEN <<"attributes">> ELSE <<>>
             c == <<"index", "index", "index", "index", "abilities">>
  <2>1. {"index", "abilities", "accessOption", "attributes"} \subseteq Names  BY <1>1 DEF FirstItems
  <2>2. a \in Seq(Names) /\ b \in Seq(Names) /\ c \in Seq(Names)  BY <2>1
  <2>3. EntryOf(k, v) = (c \o a) \o b  BY <1>2 DEF EntryOf
  <2> HIDE DEF a, b, c
  <2> QED  BY <2>2, <2>3
<1>3. CASE k # 3
  <2>1. {"index", "abilities", "ability", "parameters", "signature", "type", "constantBytes", "identifier", "address",
         "structInfo", "visibility", "flags", "field", "keyBytes", "valueBytes", "offsets", "variant"} \subseteq Names
    BY <1>1 DEF FirstItems
  <2> QED  BY <1>3, <2>1 DEF EntryOf, TableKinds
<1> QED  BY <1>2, <1>3

LEMMA FooterNames ==
    ASSUME NEW v
    PROVE  ModuleFooter \in Seq(Names) /\ ScriptFooter(v) \in Seq(Names)
<1> DEFINE a == <<"abilities", "index">>
           b == IF v >= 8 THEN <<"accessOption">> ELSE <<>>
           c == <<"index", "code">>
<1>1. {"abilities", "index", "accessOption", "code"} \subseteq Names  BY FirstNames DEF FirstItems
<1>2. a \in Seq(Names) /\ b \in Seq(Names) /\ c \in Seq(Names)  BY <1>1
<1>3. ScriptFooter(v) = (a \o b) \o c  BY DEF ScriptFooter
<1> HIDE DEF a, b, c
<1>4. ScriptFooter(v) \in Seq(Names)  BY <1>2, <1>3
<1> QED  BY <1>1, <1>4 DEF ModuleFooter

LEMMA AfterIsItems ==
    ASSUME NEW item \in ItemType, NEW v,
           item.name \in DOMAIN Largest => v \in Nat,
           item.name \in DOMAIN Tagged => v \in DOMAIN Tagged[item.name]
    PROVE  After(item, v) \in Seq(ItemType)
<1>1. item.name \in Names /\ item.arg \in Nat /\ item.arg + 1 \in Nat  BY DEF ItemType
<1>2. \A arg \in Nat, names \in Seq(Names) : Items(names, arg) \in Seq(ItemType)
  BY ItemsAreItems
<1>3. \A n \in Nat, arg \in Nat, names \in Seq(Names) : Repeat(n, names, arg) \in Seq(ItemType)
  BY RepeatedItems
<1>4. {"type", "resultCount"} \subseteq Names /\ {"name", "data"} \subseteq Names
  BY FormatAssumption, FirstNames DEF FirstItems, Names
<1>5. item.name \in DOMAIN Elements => Repeat(v, Elements[item.name], 1) \in Seq(ItemType)
  BY <1>3, FormatAssumption
<1>6. item.name \in DOMAIN Largest => Item("name", v) \in ItemType /\ Item("data", v) \in ItemType
  BY <1>4 DEF Item, ItemType
<1>7. item.name = "identifier" => <<Item("name", v)>> \in Seq(ItemType)
  BY <1>6, FormatAssumption
<1>8. item.name \in Blobs => <<Item("data", v)>> \in Seq(ItemType)
  BY <1>6, FormatAssumption
<1>9. item.name = "type" => Items(Tagged["type"][v].then, item.arg + 1) \in Seq(ItemType)
  BY <1>1, <1>2, FormatAssumption
<1>10. item.name \in DOMAIN Tagged \ {"type"} => Items(Tagged[item.name][v].then, 1) \in Seq(ItemType)
  BY <1>2, FormatAssumption
<1>11. item.name \in {"typeArguments", "resultCount", "argumentCount"} => Repeat(v, <<"type">>, item.arg) \in Seq(ItemType)
  <2>1. <<"type">> \in Seq(Names)  BY <1>4
  <2> QED  BY <1>1, <1>3, <2>1, FormatAssumption
<1>12. item.name = "argumentCount" => <<Item("resultCount", item.arg)>> \o Repeat(v, <<"type">>, item.arg) \in Seq(ItemType)
  <2>1. <<Item("resultCount", item.arg)>> \in Seq(ItemType)  BY <1>1, <1>4 DEF Item, ItemType
  <2> QED  BY <1>11, <2>1
<1>13. <<>> \in Seq(ItemType)
  OBVIOUS
<1> QED  BY <1>5, <1>7, <1>8, <1>9, <1>10, <1>11, <1>12, <1>13 DEF After

LEMMA NotRefused ==
    ASSUME NEW item, NEW v, Refuses(item, v) = ""
    PROVE  /\ item.name \in DOMAIN Tagged => v \in DOMAIN Tagged[item.name]
           /\ item.name = "tableKind" => v \in TableKinds
BY DEF Refuses

-------------------------------------------------------------------------------
(* Numbers: what is kept of a number fits, whatever bytes there are. *)
LEMMA CapacityIsPositive == Capacity \in Nat /\ Capacity > 0
<1>1. Weight[0] <= Weight[MaxBytes - 1] /\ Weight[MaxBytes - 1] \in Nat /\ Weight[0] = 1
  BY NumberAssumption
<1>2. \A m, w \in Nat : w >= 1 => (m + 1) * w \in Nat /\ (m + 1) * w > 0
  OBVIOUS
<1> QED  BY <1>1, <1>2, NumberAssumption DEF Capacity

LEMMA ByteIsByte ==
    ASSUME Typed, pos < end
    PROVE  Byte(pos) \in Bytes /\ Byte(pos) \in Nat /\ Payload \in 0 .. Radix - 1
<1>1. pos + 1 \in 1 .. Len(file)  BY DEF Typed
<1>2. Byte(pos) \in Bytes  BY <1>1 DEF Typed, Byte
<1>3. \A b \in Nat : b % Radix \in 0 .. Radix - 1  BY NumberAssumption
<1>4. Byte(pos) \in Nat  BY <1>2, NumberAssumption DEF Bytes
<1> QED  BY <1>2, <1>3, <1>4 DEF Payload

LEMMA ShiftedIsNumber ==
    ASSUME Typed, pos < end
    PROVE  Shifted(digits, Payload) \in Nat
<1>1. Payload \in Nat  BY ByteIsByte, NumberAssumption
<1>2. digits.value \in Nat /\ digits.count \in 0 .. MaxBytes - 1  BY NumberAssumption DEF Typed
<1>3. Weight[digits.count] \in Nat  BY <1>2, NumberAssumption
<1>4. \A a, b, c \in Nat : a + b * c \in Nat  OBVIOUS
<1>5. \A n, c \in Nat : c > 0 => n % c \in Nat  OBVIOUS
<1>6. digits.value + Payload * Weight[digits.count] \in Nat  BY <1>1, <1>2, <1>3, <1>4
<1> QED  BY <1>5, <1>6, CapacityIsPositive DEF Shifted

-------------------------------------------------------------------------------
LEMMA TableFields ==
    ASSUME Typed
    PROVE  \A i \in DOMAIN tables : tables[i].kind \in TableKinds /\ tables[i].offset \in Nat /\ tables[i].size \in Nat
<1>1. \A i \in DOMAIN tables : tables[i] \in TableType  BY DEF Typed
<1> QED  BY <1>1 DEF TableType

(* An item is read: the reader moves on inside its range. *)
LEMMA PlaceIsNumber ==
    ASSUME Typed, NEW i \in Nat, i > 0, i <= Len(tables)
    PROVE  i \in DOMAIN tables /\ Place1(i) \in Nat /\ tables[i].offset \in Nat /\ tables[i].size \in Nat
<1>1. tables[i] \in TableType /\ i \in DOMAIN tables  BY DEF Typed
<1> QED  BY <1>1 DEF Typed, TableType, Place1

LEMMA TakeKeeps ==
    ASSUME IInv, todo # <<>>, NEW value, NEW next \in Nat, Take(value, next),
           pos <= next, next <= end,
           Head(todo).name \in DOMAIN Largest => value \in Nat
    PROVE  IInv'
<1> DEFINE item == Head(todo)
<1>0. stage \notin {"start", "layout"} /\ ~ (stage = "entries" /\ current = 0)
  BY DEF IInv, Staged
<1>1. item \in ItemType /\ Tail(todo) \in Seq(ItemType)
  BY DEF IInv, Typed
<1>2. digits' \in [value : Nat, count : 0 .. MaxBytes - 1]
  <2>1. digits' = [value |-> 0, count |-> 0]  BY DEF Take, NoDigits
  <2>2. 0 \in 0 .. MaxBytes - 1  BY NumberAssumption
  <2> QED  BY <2>1, <2>2
<1>3. CASE Refuses(item, value) # ""
  <2>1. UNCHANGED <<file, end, content, total, current, placed, todo, header, tables>> /\ pos' = next /\ stage' = "done"
    BY <1>3 DEF Take
  <2>2. Typed'  BY <1>2, <2>1 DEF IInv, Typed
  <2>3. Apart'  BY <2>1 DEF IInv, Apart
  <2>4. Staged'  BY <2>1 DEF Staged
  <2> QED  BY <2>2, <2>3, <2>4 DEF IInv
<1>4. CASE Refuses(item, value) = ""
  <2>1. /\ UNCHANGED <<file, end, content, total, current, placed, stage>> /\ pos' = next
        /\ todo' = After(item, value) \o Tail(todo)
    BY <1>4 DEF Take
  <2>2. todo' \in Seq(ItemType)
    <3>1. After(item, value) \in Seq(ItemType)  BY <1>1, <1>4, NotRefused, AfterIsItems
    <3> QED  BY <1>1, <2>1, <3>1
  <2>3. header' \in [kind : TableKinds, offset : Nat]
    <3>1. item.name = "tableKind" => value \in TableKinds  BY <1>4, NotRefused
    <3>2. item.name = "tableOffset" => value \in Nat  BY FormatAssumption
    <3>3. header \in [kind : TableKinds, offset : Nat]  BY DEF IInv, Typed
    <3>4. header' = CASE item.name = "tableKind" -> [header EXCEPT !.kind = value]
                      [] item.name = "tableOffset" -> [header EXCEPT !.offset = value]
                      [] OTHER -> header
      BY <1>4 DEF Take
    <3> HIDE DEF item
    <3> QED  BY <3>1, <3>2, <3>3, <3>4
  <2>4. CASE stage = "header" /\ item.name = "tableSize"
    <3>1. tables' = Append(tables, [kind |-> header.kind, offset |-> header.offset, size |-> value])
      BY <1>4, <2>4 DEF Take
    <3>2. value \in Nat  BY <2>4, FormatAssumption
    <3>3. tables' \in Seq(TableType)  BY <3>1, <3>2 DEF IInv, Typed, TableType
    <3>4. placed = {} /\ total = 0  BY <2>4 DEF IInv, Staged
    <3>5. Typed'  BY <1>2, <2>1, <2>2, <2>3, <3>3 DEF IInv, Typed
    <3>6. Apart'  BY <2>1, <3>4 DEF Apart
    <3>7. Staged'  BY <2>1, <2>4, <3>4 DEF IInv, Staged
    <3> QED  BY <3>5, <3>6, <3>7 DEF IInv
  <2>5. CASE ~ (stage = "header" /\ item.name = "tableSize")
    <3>1. tables' = tables  BY <1>4, <2>5 DEF Take
    <3>2. Typed'  BY <1>2, <2>1, <2>2, <2>3, <3>1 DEF IInv, Typed
    <3>3. Apart'  BY <2>1, <3>1 DEF IInv, Apart
    <3>4. Staged'
      <4>1. current > 0 /\ current <= Len(tables) => Place1(current) \in Nat /\ Place1(current)' = Place1(current)
        BY <2>1, <3>1, PlaceIsNumber DEF IInv, Typed, Place1
      <4>2. pos \in Nat /\ content + total \in Nat  BY DEF IInv, Typed
      <4>3. pos' >= pos  BY <2>1
      <4> QED  BY <1>0, <2>1, <3>1, <4>1, <4>2, <4>3 DEF IInv, Typed, Staged
    <3> QED  BY <3>2, <3>3, <3>4 DEF IInv
  <2> QED  BY <2>4, <2>5
<1> QED  BY <1>3, <1>4

-------------------------------------------------------------------------------
LEMMA InitHolds == Init => IInv
<1> SUFFICES ASSUME Init PROVE IInv
  OBVIOUS
<1>1. file \in Seq(Bytes)  BY JobsAssumption DEF Init, Bytes
<1>2. todo \in Seq(ItemType)
  <2>1. Item("local", 1) \in ItemType  BY FirstNames DEF FirstItems, Item, ItemType
  <2> QED  BY <2>1 DEF Init
<1>3. header \in [kind : TableKinds, offset : Nat]  BY DEF Init, TableKinds
<1>4. digits \in [value : Nat, count : 0 .. MaxBytes - 1]  BY NumberAssumption DEF Init, NoDigits
<1>5. Typed  BY <1>1, <1>2, <1>3, <1>4 DEF Init, Typed
<1>6. Apart /\ Staged  BY <1>1 DEF Init, Apart, Staged
<1> QED  BY <1>5, <1>6 DEF IInv

LEMMA StopKeeps ==
    ASSUME IInv, NEW why, Stop(why)
    PROVE  IInv'
BY DEF IInv, Typed, Apart, Staged, Stop

(* Opening the file, and every step that reads or refuses an item. *)
LEMMA ItemsKeep ==
    ASSUME IInv, \/ Open \/ Ahead \/ OutOfBytes \/ BadNumber \/ MoreDigits \/ LastDigit \/ FieldOutOfBytes \/ ReadField
    PROVE  IInv'
<1>1. CASE Open
  <2>1. CASE Len(file) > Limits.file  BY <1>1, <2>1, StopKeeps DEF Open
  <2>2. CASE ~ (Len(file) > Limits.file)
    <3>1. todo' \in Seq(ItemType)
      <4>1. <<"magic", "version", "tables">> \in Seq(Names)  BY FirstNames DEF FirstItems
      <4> QED  BY <1>1, <2>2, <4>1, ItemsAreItems DEF Open
    <3>2. /\ UNCHANGED <<file, pos, end, content, total, current, placed, header, tables, digits>>
          /\ stage = "start" /\ stage' = "header"
      BY <1>1, <2>2 DEF Open
    <3> QED  BY <3>1, <3>2 DEF IInv, Typed, Apart, Staged
  <2> QED  BY <2>1, <2>2
<1>2. CASE Ahead  BY <1>2, StopKeeps DEF Ahead
<1>3. CASE OutOfBytes  BY <1>3, StopKeeps DEF OutOfBytes
<1>4. CASE BadNumber  BY <1>4, StopKeeps DEF BadNumber
<1>5. CASE MoreDigits
  <2>1. pos < end  BY <1>5 DEF MoreDigits
  <2>2. Shifted(digits, Payload) \in Nat  BY <2>1, ShiftedIsNumber DEF IInv
  <2>3. digits' \in [value : Nat, count : 0 .. MaxBytes - 1]
    <3>1. digits.count \in Nat /\ digits.count < MaxBytes - 1  BY <1>5, NumberAssumption DEF MoreDigits, IInv, Typed
    <3>2. digits' = [value |-> Shifted(digits, Payload), count |-> digits.count + 1]  BY <1>5 DEF MoreDigits
    <3> QED  BY <2>2, <3>1, <3>2, NumberAssumption
  <2>4. UNCHANGED <<file, end, stage, todo, header, tables, content, placed, total, current>> /\ pos' = pos + 1
    BY <1>5 DEF MoreDigits
  <2>5. Typed'  BY <2>1, <2>3, <2>4 DEF IInv, Typed
  <2>6. Apart'  BY <2>4 DEF IInv, Apart
  <2>7. Staged'
    <3>1. current > 0 /\ current <= Len(tables) => Place1(current) \in Nat /\ Place1(current)' = Place1(current)
      BY <2>4, PlaceIsNumber DEF IInv, Typed, Place1
    <3>2. pos \in Nat /\ content + total \in Nat /\ todo # <<>>  BY <1>5 DEF IInv, Typed, MoreDigits, Reading
    <3>3. stage \notin {"start", "layout"} /\ ~ (stage = "entries" /\ current = 0)  BY <3>2 DEF IInv, Staged
    <3> QED  BY <2>4, <3>1, <3>2, <3>3 DEF IInv, Staged
  <2> QED  BY <2>5, <2>6, <2>7 DEF IInv
<1>6. CASE LastDigit
  <2>1. pos < end /\ todo # <<>> /\ Take(Shifted(digits, Payload), pos + 1)  BY <1>6 DEF LastDigit, Reading
  <2>2. Shifted(digits, Payload) \in Nat  BY <2>1, ShiftedIsNumber DEF IInv
  <2>3. pos \in Nat /\ end \in Nat  BY DEF IInv, Typed
  <2>4. pos + 1 \in Nat /\ pos <= pos + 1 /\ pos + 1 <= end  BY <2>1, <2>3
  <2> QED  BY <2>1, <2>2, <2>4, TakeKeeps
<1>7. CASE FieldOutOfBytes  BY <1>7, StopKeeps DEF FieldOutOfBytes
<1>8. CASE ReadField
  <2> DEFINE item == Head(todo)
             size == SizeOf(item)
  <2>1. todo # <<>> /\ item.name \notin DOMAIN Largest /\ size <= end - pos /\ Take(FieldValue(size), pos + size)
    BY <1>8 DEF ReadField, Reading
  <2>2. item \in ItemType  BY <2>1 DEF IInv, Typed
  <2>3. size \in Nat  BY <2>2, FormatAssumption DEF SizeOf, ItemType
  <2>4. pos \in Nat /\ end \in Nat  BY DEF IInv, Typed
  <2> HIDE DEF size
  <2>5. pos + size \in Nat /\ pos <= pos + size /\ pos + size <= end  BY <2>1, <2>3, <2>4
  <2> QED  BY <2>1, <2>5, TakeKeeps
<1> QED  BY <1>1, <1>2, <1>3, <1>4, <1>5, <1>6, <1>7, <1>8

(* The check of the headers, and of where the tables lie. *)
LEMMA LayoutKeeps ==
    ASSUME IInv, CheckTables \/ CheckContent \/ \E i \in DOMAIN tables : Place(i) \/ Misplaced(i)
    PROVE  IInv'
<1>1. CASE CheckTables
  <2>1. CASE \E why \in {"version", "layout", "duplicate"} : Stop(why)  BY <2>1, StopKeeps
  <2>2. CASE /\ stage = "header" /\ stage' = "layout" /\ content' = pos
             /\ todo = <<>>
             /\ UNCHANGED <<file, pos, end, todo, digits, header, tables, placed, total, current>>
    BY <2>2 DEF IInv, Typed, Apart, Staged
  <2> QED  BY <1>1, <2>1, <2>2 DEF CheckTables
<1>2. CASE CheckContent
  <2>1. CASE \E why \in {"eof", "limit"} : Stop(why)  BY <2>1, StopKeeps
  <2>2. CASE ~ \E why \in {"eof", "limit"} : Stop(why)
    <3>1. /\ stage = "layout" /\ stage' = "entries" /\ end' = pos /\ todo = <<>> /\ Unplaced = {}
          /\ UNCHANGED <<file, pos, todo, digits, header, tables, content, placed, total, current>>
          /\ ~ (total > Len(file) - content)
      BY <1>2, <2>2 DEF CheckContent, IInv, Staged
    <3>2. Typed'  BY <3>1 DEF IInv, Typed
    <3>3. Apart'  BY <3>1 DEF IInv, Apart
    <3>4. total \in Nat /\ content \in Nat /\ Len(file) \in Nat  BY DEF IInv, Typed
    <3>5. placed = DOMAIN tables /\ content + total <= Len(file)
      <4>1. placed \subseteq DOMAIN tables  BY DEF IInv, Apart
      <4>2. placed = DOMAIN tables  BY <3>1, <4>1 DEF Unplaced
      <4>3. total <= Len(file) - content  BY <3>1, <3>4
      <4> QED  BY <3>4, <4>2, <4>3
    <3>6. current = 0 /\ current <= Len(tables)  BY <3>1 DEF IInv, Typed, Staged
    <3>7. Staged'  BY <3>1, <3>5, <3>6 DEF Staged
    <3> QED  BY <3>2, <3>3, <3>7 DEF IInv
  <2> QED  BY <2>1, <2>2
<1>3. ASSUME NEW i \in DOMAIN tables, Place(i) PROVE IInv'
  <2>1. /\ stage = "layout" /\ tables[i].offset = total /\ placed' = placed \union {i}
        /\ total' = total + tables[i].size
        /\ UNCHANGED <<file, pos, end, stage, todo, digits, header, tables, content, current>>
    BY <1>3 DEF Place
  <2>2. \A j \in DOMAIN tables : tables[j].offset \in Nat /\ tables[j].size \in Nat
    BY TableFields DEF IInv
  <2>3. Typed'  BY <2>1, <2>2 DEF IInv, Typed
  <2>4. Apart'
    <3>1. \A j \in placed : j \in DOMAIN tables /\ tables[j].offset + tables[j].size <= total
      BY DEF IInv, Apart
    <3>2. total \in Nat  BY DEF IInv, Typed
    <3>3. \A j \in placed' : tables[j].offset + tables[j].size <= total'
      BY <2>1, <2>2, <3>1, <3>2
    <3>4. \A j, k \in placed' : \/ j = k
                              \/ tables[j].offset + tables[j].size <= tables[k].offset
                              \/ tables[k].offset + tables[k].size <= tables[j].offset
      BY <2>1, <2>2, <3>1, <3>2 DEF IInv, Apart
    <3>5. placed' \subseteq DOMAIN tables  BY <2>1, <3>1
    <3> QED  BY <2>1, <3>3, <3>4, <3>5 DEF Apart
  <2>5. Staged'  BY <2>1 DEF IInv, Staged
  <2> QED  BY <2>3, <2>4, <2>5 DEF IInv
<1>4. ASSUME NEW i \in DOMAIN tables, Misplaced(i) PROVE IInv'
  BY <1>4, StopKeeps DEF Misplaced
<1> QED  BY <1>1, <1>2, <1>3, <1>4

(* The decoders of the tables and the footer. *)
LEMMA TablesKeep ==
    ASSUME IInv, OpenTable \/ StartEntry \/ OpenFooter \/ Finish
    PROVE  IInv'
<1>0. content \in Nat /\ total \in Nat /\ current \in Nat /\ Len(file) \in Nat  BY DEF IInv, Typed
<1>1. CASE OpenTable
  <2> DEFINE i == current + 1
  <2>1. /\ stage = "entries" /\ i <= Len(tables) /\ current' = i
        /\ pos' = Place1(i) /\ end' = Place1(i) + tables[i].size
        /\ UNCHANGED <<file, stage, todo, digits, header, tables, content, placed, total>>
    <3>1. Len(tables) \in Nat  BY DEF IInv, Typed
    <3> QED  BY <1>0, <1>1, <3>1 DEF OpenTable, BetweenEntries, Place1
  <2>2. i \in Nat /\ i > 0  BY <1>0
  <2> HIDE DEF i
  <2>3. i \in DOMAIN tables /\ Place1(i) \in Nat /\ tables[i].offset \in Nat /\ tables[i].size \in Nat
    BY <2>1, <2>2, PlaceIsNumber DEF IInv
  <2>4. tables[i].offset + tables[i].size <= total /\ content + total <= Len(file)
    BY <2>1, <2>3 DEF IInv, Apart, Staged
  <2>5. Place1(i) + tables[i].size <= Len(file)  BY <1>0, <2>3, <2>4 DEF Place1
  <2>6. Typed'  BY <2>1, <2>2, <2>3, <2>5 DEF IInv, Typed
  <2>7. Apart'  BY <2>1 DEF IInv, Apart
  <2>8. Place1(current)' = Place1(i)  BY <2>1 DEF Place1
  <2>9. Staged'
    <3>1. pos' >= Place1(current)' /\ end' = Place1(current)' + tables'[current'].size
      BY <2>1, <2>3, <2>8 DEF Place1
    <3> QED  BY <1>0, <2>1, <2>2, <3>1 DEF IInv, Staged
  <2> QED  BY <2>6, <2>7, <2>9 DEF IInv
<1>2. CASE StartEntry
  <2>1. CASE entries >= Limits.entries  BY <1>2, <2>1, StopKeeps DEF StartEntry
  <2>2. CASE ~ (entries >= Limits.entries)
    <3>1. /\ stage = "entries" /\ pos < end /\ todo' = Items(EntryOf(tables[current].kind, Version), 1)
          /\ UNCHANGED <<file, pos, end, stage, digits, header, tables, content, placed, total, current>>
      BY <1>2, <2>2 DEF StartEntry, BetweenEntries
    <3>2. current > 0 /\ current <= Len(tables)  BY <1>0, <3>1 DEF IInv, Typed, Staged
    <3>3. todo' \in Seq(ItemType)
      <4>2. current \in DOMAIN tables  BY <1>0, <3>2, PlaceIsNumber DEF IInv
      <4>3. tables[current].kind \in TableKinds  BY <4>2, TableFields DEF IInv
      <4>4. EntryOf(tables[current].kind, Version) \in Seq(Names)  BY <4>3, EntryNames
      <4> QED  BY <3>1, <4>4, ItemsAreItems
    <3>4. Typed'  BY <3>1, <3>3 DEF IInv, Typed
    <3>5. Apart'  BY <3>1 DEF IInv, Apart
    <3>6. Place1(current)' = Place1(current)  BY <3>1 DEF Place1
    <3>7. Staged'  BY <1>0, <3>1, <3>2, <3>6 DEF IInv, Staged
    <3> QED  BY <3>4, <3>5, <3>7 DEF IInv
  <2> QED  BY <2>1, <2>2
<1>3. CASE OpenFooter
  <2>1. /\ stage = "entries" /\ stage' = "footer" /\ pos' = content + total /\ end' = Len(file)
        /\ UNCHANGED <<file, digits, header, tables, content, placed, total, current>>
    BY <1>3 DEF OpenFooter, BetweenEntries
  <2>2. todo' \in Seq(ItemType)
    <3>1. \A names \in Seq(Names) : Items(names, 1) \in Seq(ItemType)  BY ItemsAreItems
    <3>2. ModuleFooter \in Seq(Names) /\ ScriptFooter(Version) \in Seq(Names)  BY FooterNames
    <3> QED  BY <1>3, <3>1, <3>2 DEF OpenFooter
  <2>3. Typed'  BY <1>0, <2>1, <2>2 DEF IInv, Typed, Staged
  <2>4. Apart'  BY <2>1 DEF IInv, Apart
  <2>5. Staged'  BY <1>0, <2>1 DEF IInv, Staged
  <2> QED  BY <2>3, <2>4, <2>5 DEF IInv
<1>4. CASE Finish  BY <1>4, StopKeeps DEF Finish
<1> QED  BY <1>1, <1>2, <1>3, <1>4

LEMMA NextHolds == IInv /\ [Next]_vars => IInv'
<1> SUFFICES ASSUME IInv, [Next]_vars PROVE IInv'
  OBVIOUS
<1>1. CASE \/ Open \/ Ahead \/ OutOfBytes \/ BadNumber \/ MoreDigits \/ LastDigit \/ FieldOutOfBytes \/ ReadField
  BY <1>1, ItemsKeep
<1>2. CASE CheckTables \/ CheckContent \/ \E i \in DOMAIN tables : Place(i) \/ Misplaced(i)
  BY <1>2, LayoutKeeps
<1>3. CASE OpenTable \/ StartEntry \/ OpenFooter \/ Finish
  BY <1>3, TablesKeep
<1>4. CASE UNCHANGED vars
  BY <1>4 DEF vars, IInv, Typed, Apart, Staged, Place1
<1> QED  BY <1>1, <1>2, <1>3, <1>4 DEF Next

LEMMA InvariantImplies == IInv => StaysInside
<1> SUFFICES ASSUME IInv PROVE StaysInside
  OBVIOUS
<1>1. content \in Nat /\ total \in Nat /\ Len(file) \in Nat  BY DEF IInv, Typed
<1>2. \A i \in DOMAIN tables : Place1(i) = content + tables[i].offset /\ tables[i].offset \in Nat /\ tables[i].size \in Nat
  BY TableFields DEF IInv, Place1
<1>3. TablesAreApart
  <2> SUFFICES ASSUME stage \in {"entries", "footer"} PROVE TablesAreApart!2
    BY DEF TablesAreApart
  <2>1. placed = DOMAIN tables /\ content + total <= Len(file)  BY DEF IInv, Staged
  <2>2. \A i \in DOMAIN tables : tables[i].offset + tables[i].size <= total  BY <2>1 DEF IInv, Apart
  <2>3. \A i \in DOMAIN tables : Place1(i) >= content /\ Place1(i) + tables[i].size <= content + total
    BY <1>1, <1>2, <2>2
  <2>4. \A i, j \in DOMAIN tables : \/ i = j
                                    \/ tables[i].offset + tables[i].size <= tables[j].offset
                                    \/ tables[j].offset + tables[j].size <= tables[i].offset
    BY <2>1 DEF IInv, Apart
  <2>5. \A i, j \in DOMAIN tables : i = j \/ Place1(i) + tables[i].size <= Place1(j) \/ Place1(j) + tables[j].size <= Place1(i)
    <3> SUFFICES ASSUME NEW i \in DOMAIN tables, NEW j \in DOMAIN tables, i # j
                 PROVE  Place1(i) + tables[i].size <= Place1(j) \/ Place1(j) + tables[j].size <= Place1(i)
      OBVIOUS
    <3>1. /\ Place1(i) = content + tables[i].offset /\ tables[i].offset \in Nat /\ tables[i].size \in Nat
          /\ Place1(j) = content + tables[j].offset /\ tables[j].offset \in Nat /\ tables[j].size \in Nat
      BY <1>2
    <3>2. \/ tables[i].offset + tables[i].size <= tables[j].offset
          \/ tables[j].offset + tables[j].size <= tables[i].offset
      BY <2>4
    <3>3. \A c, a, b, m, n \in Nat : a + m <= b \/ b + n <= a => (c + a) + m <= c + b \/ (c + b) + n <= c + a
      OBVIOUS
    <3> QED  BY <1>1, <3>1, <3>2, <3>3
  <2> QED  BY <2>1, <2>3, <2>5
<1>4. StaysInItsTable
  BY DEF StaysInItsTable, IInv, Typed, Staged
<1> QED  BY <1>3, <1>4 DEF StaysInside

(* The decoder of a table reads that table's bytes and no other's, and the *)
(* footer comes after all of them, for every file, every set of limits and *)
(* every width of numbers (validateTables, tableBytes, parseTables).       *)
THEOREM ReaderStaysInside == Spec => []StaysInside
<1>1. Init => IInv  BY InitHolds
<1>2. IInv /\ [Next]_vars => IInv'  BY NextHolds
<1>3. IInv => StaysInside  BY InvariantImplies
<1> QED  BY <1>1, <1>2, <1>3, PTL DEF Spec

-------------------------------------------------------------------------------
(* A number of n bytes is below what its next byte counts. *)
Below == digits.value < Weight[digits.count]

LEMMA WeightIsPositive == \A i \in 0 .. MaxBytes - 1 : Weight[i] \in Nat
BY NumberAssumption

LEMMA Digit1 ==
    ASSUME NEW v \in Nat, NEW p \in Nat, NEW w \in Nat, NEW r \in Nat, v < w, p < r
    PROVE  v + p * w < r * w
<1>1. p + 1 <= r  OBVIOUS
<1>2. (p + 1) * w <= r * w  BY <1>1
<1>3. (p + 1) * w = p * w + w /\ p * w \in Nat /\ r * w \in Nat  OBVIOUS
<1>4. v + p * w < p * w + w  BY <1>3
<1> QED  BY <1>2, <1>3, <1>4

LEMMA ShiftedIsExact ==
    ASSUME Typed, Below, pos < end, ~ Overflows
    PROVE  /\ Shifted(digits, Payload) = digits.value + Payload * Weight[digits.count]
           /\ digits.count < MaxBytes - 1 => Shifted(digits, Payload) < Weight[digits.count + 1]
<1> DEFINE v == digits.value
           c == digits.count
           w == Weight[c]
           sum == v + Payload * w
<1>1. Payload \in Nat /\ Payload < Radix  BY ByteIsByte, NumberAssumption
<1>2. v \in Nat /\ c \in Nat /\ c <= MaxBytes - 1 /\ w \in Nat /\ v < w
  BY NumberAssumption, WeightIsPositive DEF Typed, Below
<1>3. sum \in Nat  BY <1>1, <1>2
<1>4. CASE c < MaxBytes - 1
  <2>1. Weight[c + 1] = Radix * w /\ Weight[c + 1] \in Nat /\ Weight[c + 1] <= Weight[MaxBytes - 1]
    BY <1>2, <1>4, NumberAssumption
  <2>2. sum < Weight[c + 1]
    <3>1. Radix \in Nat /\ Payload < Radix  BY <1>1, NumberAssumption
    <3> HIDE DEF v, c, w
    <3>2. v + Payload * w < Radix * w  BY <1>1, <1>2, <3>1, Digit1
    <3> QED  BY <2>1, <3>2
  <2>3. Weight[MaxBytes - 1] <= Capacity
    <3>1. \A m, x \in Nat : x <= (m + 1) * x
      <4> SUFFICES ASSUME NEW m \in Nat, NEW x \in Nat PROVE x <= (m + 1) * x
        OBVIOUS
      <4>1. (m + 1) * x = m * x + x /\ m * x \in Nat  OBVIOUS
      <4> QED  BY <4>1
    <3>2. Weight[MaxBytes - 1] \in Nat /\ LastMax \in Nat  BY NumberAssumption
    <3> QED  BY <3>1, <3>2 DEF Capacity
  <2>4. sum < Capacity
    <3>1. Weight[MaxBytes - 1] \in Nat  BY NumberAssumption
    <3> HIDE DEF sum
    <3> QED  BY <1>3, <2>1, <2>2, <2>3, <3>1, CapacityIsPositive
  <2>5. sum % Capacity = sum
    <3> HIDE DEF sum
    <3> QED  BY <1>3, <2>4, CapacityIsPositive
  <2> QED  BY <2>2, <2>5 DEF Shifted
<1>5. CASE c = MaxBytes - 1
  <2>1. Payload < LastMax + 1  BY <1>1, <1>5, NumberAssumption DEF Overflows
  <2>2. sum < (LastMax + 1) * w
    <3>1. LastMax + 1 \in Nat  BY NumberAssumption
    <3> HIDE DEF v, c, w
    <3>2. v + Payload * w < (LastMax + 1) * w  BY <1>1, <1>2, <2>1, <3>1, Digit1
    <3> QED  BY <3>2
  <2>3. sum < Capacity  BY <1>5, <2>2 DEF Capacity
  <2>4. sum % Capacity = sum
    <3> HIDE DEF sum
    <3> QED  BY <1>3, <2>3, CapacityIsPositive
  <2> QED  BY <1>2, <1>5, <2>4, NumberAssumption DEF Shifted
<1>6. c < MaxBytes - 1 \/ c = MaxBytes - 1  BY <1>2, NumberAssumption
<1> QED  BY <1>4, <1>5, <1>6

LEMMA BelowHolds == IInv /\ Below /\ [Next]_vars => Below'
<1> SUFFICES ASSUME IInv, Below, [Next]_vars PROVE Below'
  OBVIOUS
<1>1. NoDigits.value < Weight[NoDigits.count]
  BY NumberAssumption DEF NoDigits
<1>2. CASE MoreDigits
  <2>1. pos < end /\ digits' = [value |-> Shifted(digits, Payload), count |-> digits.count + 1]
        /\ digits.count < MaxBytes - 1
    BY <1>2 DEF MoreDigits
  <2>2. ~ Overflows
    <3>1. digits.count # MaxBytes - 1  BY <2>1, NumberAssumption DEF IInv, Typed
    <3> QED  BY <3>1 DEF Overflows
  <2> QED  BY <2>1, <2>2, ShiftedIsExact DEF IInv, Below
<1>3. CASE \E value, next : Take(value, next)
  BY <1>1, <1>3 DEF Take, Below
<1>4. CASE digits' = digits
  BY <1>4 DEF Below
<1>5. digits' = digits \/ MoreDigits \/ \E value, next : Take(value, next)
  <2>1. CASE Open  BY <2>1 DEF Open, Stop
  <2>2. CASE Ahead \/ OutOfBytes \/ BadNumber \/ FieldOutOfBytes \/ Finish
    BY <2>2 DEF Ahead, OutOfBytes, BadNumber, FieldOutOfBytes, Finish, Stop
  <2>3. CASE LastDigit \/ ReadField  BY <2>3 DEF LastDigit, ReadField
  <2>4. CASE CheckTables \/ CheckContent  BY <2>4 DEF CheckTables, CheckContent, Stop
  <2>5. CASE OpenTable \/ StartEntry \/ OpenFooter  BY <2>5 DEF OpenTable, StartEntry, OpenFooter, Stop
  <2>6. CASE \E i \in DOMAIN tables : Place(i) \/ Misplaced(i)  BY <2>6 DEF Place, Misplaced, Stop
  <2>7. CASE UNCHANGED vars  BY <2>7 DEF vars
  <2> QED  BY <2>1, <2>2, <2>3, <2>4, <2>5, <2>6, <2>7 DEF Next
<1> QED  BY <1>2, <1>3, <1>4, <1>5

(* No bit of a number is lost, however many bytes it has and whatever they *)
(* are: only the refused ones would need a wider number (readUleb128).     *)
THEOREM ReaderKeepsBits == Spec => []NoBitIsLost
<1>1. Init => IInv /\ Below
  <2>1. Init => Below  BY NumberAssumption DEF Init, NoDigits, Below
  <2> QED  BY <2>1, InitHolds
<1>2. IInv /\ Below /\ [Next]_vars => (IInv /\ Below)'  BY NextHolds, BelowHolds
<1>3. IInv /\ Below => NoBitIsLost
  BY ShiftedIsExact DEF NoBitIsLost, IInv, Below
<1> QED  BY <1>1, <1>2, <1>3, PTL DEF Spec

-------------------------------------------------------------------------------
(* Numbers and the bytes they are written in. *)
LEMMA Division ==
    ASSUME NEW R \in Nat, R > 1, NEW v \in Nat
    PROVE  /\ v \div R \in Nat /\ v % R \in 0 .. R - 1
           /\ v = R * (v \div R) + (v % R)
           /\ v >= R => v \div R < v /\ v \div R > 0
<1>1. v \div R \in Int /\ v % R \in 0 .. R - 1 /\ v = R * (v \div R) + (v % R)
  OBVIOUS
<1> DEFINE q == v \div R
           m == v % R
<1>2. q \in Int /\ m \in 0 .. R - 1 /\ v = R * q + m  BY <1>1
<1> HIDE DEF q, m
<1>3. q >= 0
  <2> SUFFICES ASSUME q <= -1 PROVE FALSE  BY <1>2
  <2>1. R * q <= -R  BY <1>2
  <2> QED  BY <1>2, <2>1
<1>4. v >= R => q > 0
  <2> SUFFICES ASSUME q = 0 PROVE v < R  BY <1>2, <1>3
  <2> QED  BY <1>2
<1>5. q > 0 => q < v
  <2> SUFFICES ASSUME q > 0 PROVE q < R * q  BY <1>2
  <2>1. R * q >= 2 * q  BY <1>2
  <2> QED  BY <1>2, <2>1
<1> QED  BY <1>1, <1>2, <1>3, <1>4, <1>5 DEF q, m

LEMMA DivisionIsUnique ==
    ASSUME NEW R \in Nat, R > 1, NEW p \in Nat, p < R, NEW t \in Nat
    PROVE  (p + R * t) \div R = t /\ (p + R * t) % R = p /\ p + R * t \in Nat
<1> DEFINE v == p + R * t
<1>1. v \in Nat  OBVIOUS
<1> HIDE DEF v
<1>2. v \div R \in Nat /\ v % R \in 0 .. R - 1 /\ v = R * (v \div R) + (v % R)
  BY <1>1, Division
<1> DEFINE q == v \div R
           m == v % R
<1>3. q \in Nat /\ m \in 0 .. R - 1 /\ p + R * t = R * q + m  BY <1>2 DEF v
<1> HIDE DEF q, m
<1>4. ~ (q < t)
  <2> SUFFICES ASSUME q + 1 <= t PROVE FALSE  BY <1>3
  <2>1. R * (q + 1) <= R * t  BY <1>3
  <2>2. R * (q + 1) = R * q + R  BY <1>3
  <2> QED  BY <1>3, <2>1, <2>2
<1>5. ~ (t < q)
  <2> SUFFICES ASSUME t + 1 <= q PROVE FALSE  BY <1>3
  <2>1. R * (t + 1) <= R * q  BY <1>3
  <2>2. R * (t + 1) = R * t + R  BY <1>3
  <2> QED  BY <1>3, <2>1, <2>2
<1>6. q = t  BY <1>3, <1>4, <1>5
<1>7. m = p  BY <1>3, <1>6
<1> QED  BY <1>1, <1>6, <1>7 DEF q, m, v

LEMMA BytesAreNumbers ==
    ASSUME NEW bytes \in Seq(Bytes), NEW k \in 1 .. Len(bytes)
    PROVE  bytes[k] \in Nat /\ bytes[k] < 2 * Radix /\ bytes[k] % Radix \in Nat /\ bytes[k] % Radix < Radix
           /\ (bytes[k] < Radix => bytes[k] % Radix = bytes[k])
           /\ (bytes[k] >= Radix => bytes[k] = Radix + (bytes[k] % Radix))
<1>1. bytes[k] \in Bytes /\ Radix \in Nat /\ Radix > 1  BY NumberAssumption
<1> DEFINE b == bytes[k]
           q == b \div Radix
           m == b % Radix
<1>2. b \in Nat /\ b < 2 * Radix  BY <1>1 DEF Bytes
<1> HIDE DEF b
<1>3. q \in Nat /\ m \in 0 .. Radix - 1 /\ b = Radix * q + m  BY <1>1, <1>2, Division
<1> HIDE DEF q, m
<1>4. q < 2
  <2> SUFFICES ASSUME q >= 2 PROVE FALSE  BY <1>3
  <2>1. Radix * q >= Radix * 2  BY <1>1, <1>3
  <2> QED  BY <1>1, <1>2, <1>3, <2>1
<1>5. q = 0 \/ q = 1  BY <1>3, <1>4
<1>6. m \in Nat /\ m < Radix /\ (b < Radix => m = b) /\ (b >= Radix => b = Radix + m)
  BY <1>1, <1>2, <1>3, <1>5
<1> QED  BY <1>2, <1>6 DEF b, m

LEMMA TailsUnfold ==
    ASSUME NEW bytes \in Seq(Bytes), NEW n \in 0 .. Len(bytes)
    PROVE  /\ Tails(bytes, n) \in [0 .. n -> Nat] /\ Tails(bytes, n)[0] = 0
           /\ \A k \in 0 .. n - 1 : Tails(bytes, n)[k + 1] = (bytes[n - k] % Radix) + Radix * Tails(bytes, n)[k]
<1> DEFINE step == [p \in Nat \X (0 .. n - 1) |-> (bytes[n - p[2]] % Radix) + Radix * p[1]]
           Eq(f) == f = [i \in 0 .. n |-> IF i = 0 THEN 0 ELSE (bytes[n + 1 - i] % Radix) + Radix * f[i - 1]]
           t == Tails(bytes, n)
<1>0. n \in Nat /\ Radix \in Nat /\ \A k \in 1 .. Len(bytes) : bytes[k] % Radix \in Nat
  BY NumberAssumption, BytesAreNumbers
<1>1. step \in [Nat \X (0 .. n - 1) -> Nat]
  <2> SUFFICES ASSUME NEW p \in Nat \X (0 .. n - 1)
               PROVE  (bytes[n - p[2]] % Radix) + Radix * p[1] \in Nat
    OBVIOUS
  <2>1. p[1] \in Nat /\ p[2] \in 0 .. n - 1  OBVIOUS
  <2>2. n - p[2] \in 1 .. Len(bytes)  BY <1>0, <2>1
  <2>3. bytes[n - p[2]] % Radix \in Nat  BY <1>0, <2>2
  <2>4. \A a, b, c \in Nat : a + b * c \in Nat  OBVIOUS
  <2> QED  BY <1>0, <2>1, <2>3, <2>4
<1>2. PICK f : LoopsTo(f, n, Nat, step, 0)
  <2>1. 0 \in Nat  OBVIOUS
  <2> HIDE DEF step
  <2> QED  BY <1>0, <1>1, <2>1, LoopToExists
<1>3. f \in [0 .. n -> Nat] /\ f[0] = 0
      /\ \A k \in 0 .. n - 1 : f[k + 1] = (bytes[n - k] % Radix) + Radix * f[k]
  <2>1. f \in [0 .. n -> Nat] /\ f[0] = 0 /\ \A k \in 0 .. n - 1 : f[k + 1] = step[<<f[k], k>>]
    BY <1>2 DEF LoopsTo
  <2>2. ASSUME NEW k \in 0 .. n - 1 PROVE step[<<f[k], k>>] = (bytes[n - k] % Radix) + Radix * f[k]
    <3>1. k \in 0 .. n  BY <1>0
    <3>2. f[k] \in Nat  BY <2>1, <3>1
    <3>3. <<f[k], k>> \in Nat \X (0 .. n - 1)  BY <3>2
    <3> QED  BY <3>3
  <2> QED  BY <2>1, <2>2
<1>4. Eq(f)
  <2>1. ASSUME NEW i \in 0 .. n
        PROVE  f[i] = IF i = 0 THEN 0 ELSE (bytes[n + 1 - i] % Radix) + Radix * f[i - 1]
    <3>1. CASE i = 0  BY <1>3, <3>1
    <3>2. CASE i # 0
      <4>1. i - 1 \in 0 .. n - 1 /\ i - 1 + 1 = i /\ n - (i - 1) = n + 1 - i  BY <1>0, <3>2
      <4>2. f[i - 1 + 1] = (bytes[n - (i - 1)] % Radix) + Radix * f[i - 1]  BY <1>3, <4>1
      <4> QED  BY <3>2, <4>1, <4>2
    <3> QED  BY <3>1, <3>2
  <2> QED  BY <1>3, <2>1
<1>5. Eq(t)
  <2>1. t = CHOOSE g : Eq(g)  BY Zenon DEF Tails
  <2> HIDE DEF Eq, t
  <2> QED  BY <1>4, <2>1
<1>6. t[0] = 0 /\ \A k \in 0 .. n - 1 : t[k + 1] = (bytes[n - k] % Radix) + Radix * t[k]
  <2> HIDE DEF t
  <2>1. \A i \in 0 .. n : t[i] = IF i = 0 THEN 0 ELSE (bytes[n + 1 - i] % Radix) + Radix * t[i - 1]
    BY <1>5
  <2>2. t[0] = 0  BY <1>0, <2>1
  <2>3. ASSUME NEW k \in 0 .. n - 1 PROVE t[k + 1] = (bytes[n - k] % Radix) + Radix * t[k]
    <3>1. k + 1 \in 0 .. n /\ k + 1 # 0 /\ k + 1 - 1 = k /\ n + 1 - (k + 1) = n - k  BY <1>0
    <3>2. t[k + 1] = (bytes[n + 1 - (k + 1)] % Radix) + Radix * t[k + 1 - 1]  BY <2>1, <3>1
    <3> QED  BY <3>1, <3>2
  <2> QED  BY <2>2, <2>3
<1>7. t \in [0 .. n -> Nat]
  <2> DEFINE T == {i \in 0 .. n : t[i] \in Nat}
  <2>1. 0 \in T  BY <1>0, <1>6
  <2>2. ASSUME NEW k \in 0 .. n - 1, k \in T PROVE k + 1 \in T
    <3>1. k + 1 \in 0 .. n /\ n - k \in 1 .. Len(bytes) /\ t[k] \in Nat  BY <1>0, <2>2
    <3>2. bytes[n - k] % Radix \in Nat  BY <1>0, <3>1
    <3>3. t[k + 1] = (bytes[n - k] % Radix) + Radix * t[k]  BY <1>6
    <3> HIDE DEF t
    <3>4. \A a, b, c \in Nat : a + b * c \in Nat  OBVIOUS
    <3>5. t[k + 1] \in Nat  BY <1>0, <3>1, <3>2, <3>3, <3>4
    <3> QED  BY <3>1, <3>5
  <2> HIDE DEF T
  <2>3. 0 .. n \subseteq T  BY <1>0, <2>1, <2>2, ClosedUpTo
  <2>4. \A i \in 0 .. n : t[i] \in Nat  BY <2>3 DEF T
  <2> HIDE DEF t
  <2> QED  BY <1>5, <2>4
<1> QED  BY <1>6, <1>7

(* What Uleb defines exists: n rounds settle it for the numbers below n.   *)
Group(f, v) == IF v < Radix THEN <<v>> ELSE <<Radix + (v % Radix)>> \o f[v \div Radix]

LEMMA UlebUnfolds == \A v \in Nat : Uleb[v] = Group(Uleb, v) /\ Uleb[v] \in Seq(Bytes)
<1> DEFINE S == [Nat -> Seq(Bytes)]
           step == [g \in S |-> [v \in Nat |-> Group(g, v)]]
           start == [v \in Nat |-> <<>>]
           Eq(f) == f = [v \in Nat |-> Group(f, v)]
<1>0. Radix \in Nat /\ Radix > 1  BY NumberAssumption
<1>b. ASSUME NEW m \in 0 .. Radix - 1 PROVE Radix + m \in Bytes /\ m \in Bytes
  BY <1>0 DEF Bytes
<1>1. ASSUME NEW g \in S, NEW v \in Nat PROVE Group(g, v) \in Seq(Bytes)
  <2>1. v \div Radix \in Nat /\ v % Radix \in 0 .. Radix - 1  BY <1>0, Division
  <2>2. g[v \div Radix] \in Seq(Bytes)  BY <2>1
  <2>3. Radix + (v % Radix) \in Bytes /\ (v < Radix => v \in Bytes)
    <3>1. v < Radix => v \in 0 .. Radix - 1  BY <1>0
    <3> QED  BY <1>b, <2>1, <3>1
  <2>4. <<Radix + (v % Radix)>> \in Seq(Bytes) /\ (v < Radix => <<v>> \in Seq(Bytes))  BY <2>3
  <2> QED  BY <2>2, <2>4 DEF Group
<1>2. step \in [S -> S] /\ start \in S
  <2>1. ASSUME NEW g \in S PROVE [v \in Nat |-> Group(g, v)] \in S  BY <1>1
  <2>2. <<>> \in Seq(Bytes)  OBVIOUS
  <2> QED  BY <2>1, <2>2
<1>3. PICK f : Iterates(f, S, step, start)
  <2> HIDE DEF S, step, start
  <2> QED  BY <1>2, IterationExists
<1>4. f \in [Nat -> S] /\ \A k \in Nat : f[k + 1] = step[f[k]]
  BY <1>3 DEF Iterates
<1>5. ASSUME NEW k \in Nat, NEW v \in Nat PROVE f[k + 1][v] = Group(f[k], v) /\ f[k] \in S
  <2>1. f[k] \in S /\ f[k + 1] = step[f[k]]  BY <1>4
  <2>2. step[f[k]] = [w \in Nat |-> Group(f[k], w)]  BY <2>1
  <2> QED  BY <2>1, <2>2
<1> HIDE DEF S, step, start
<1>6. ASSUME NEW k \in Nat PROVE \A v \in Nat : v < k => f[k + 1][v] = f[k][v]
  <2> DEFINE T == {m \in Nat : \A v \in Nat : v < m => f[m + 1][v] = f[m][v]}
  <2>1. 0 \in T  OBVIOUS
  <2>2. ASSUME NEW m \in Nat, m \in T PROVE m + 1 \in T
    <3> SUFFICES ASSUME NEW v \in Nat, v < m + 1 PROVE f[m + 1 + 1][v] = f[m + 1][v]
      OBVIOUS
    <3>1. f[m + 1 + 1][v] = Group(f[m + 1], v) /\ f[m + 1][v] = Group(f[m], v)  BY <1>5
    <3>2. v \div Radix \in Nat /\ (v >= Radix => v \div Radix < v)  BY <1>0, Division
    <3>3. v >= Radix => f[m + 1][v \div Radix] = f[m][v \div Radix]
      <4> SUFFICES ASSUME v >= Radix PROVE f[m + 1][v \div Radix] = f[m][v \div Radix]  OBVIOUS
      <4>1. v \div Radix \in Nat /\ v \div Radix < m  BY <3>2
      <4> QED  BY <2>2, <4>1
    <3>4. v < Radix \/ v >= Radix  BY <1>0
    <3> QED  BY <3>1, <3>3, <3>4 DEF Group
  <2> HIDE DEF T
  <2>3. Nat \subseteq T  BY <2>1, <2>2, NatClosed
  <2> QED  BY <2>3 DEF T
<1> DEFINE u == [v \in Nat |-> f[v + 1][v]]
<1>7. ASSUME NEW w \in Nat, NEW m \in Nat, w + 1 <= m PROVE f[m][w] = u[w]
  <2> DEFINE T == {k \in Nat : w + 1 <= k => f[k][w] = u[w]}
  <2>1. 0 \in T  OBVIOUS
  <2>2. ASSUME NEW k \in Nat, k \in T PROVE k + 1 \in T
    <3> SUFFICES ASSUME w + 1 <= k + 1 PROVE f[k + 1][w] = u[w]  OBVIOUS
    <3>1. CASE k = w  BY <3>1
    <3>2. CASE k # w
      <4>1. w + 1 <= k /\ w < k  BY <3>2
      <4>2. f[k][w] = u[w]  BY <2>2, <4>1
      <4>3. f[k + 1][w] = f[k][w]  BY <1>6, <4>1
      <4> QED  BY <4>2, <4>3
    <3> QED  BY <3>1, <3>2
  <2> HIDE DEF T
  <2>3. Nat \subseteq T  BY <2>1, <2>2, NatClosed
  <2> QED  BY <1>7, <2>3 DEF T
<1>8. Eq(u)
  <2>1. ASSUME NEW v \in Nat PROVE u[v] = Group(u, v)
    <3>1. u[v] = Group(f[v], v)  BY <1>5
    <3>2. v \div Radix \in Nat /\ (v >= Radix => v \div Radix < v)  BY <1>0, Division
    <3>3. v >= Radix => f[v][v \div Radix] = u[v \div Radix]
      <4> SUFFICES ASSUME v >= Radix PROVE f[v][v \div Radix] = u[v \div Radix]  OBVIOUS
      <4>1. v \div Radix \in Nat /\ v \div Radix + 1 <= v  BY <3>2
      <4> HIDE DEF u
      <4> QED  BY <1>7, <4>1
    <3>4. v < Radix \/ v >= Radix  BY <1>0
    <3> HIDE DEF u
    <3> QED  BY <3>1, <3>3, <3>4 DEF Group
  <2>2. u = [v \in Nat |-> u[v]]  OBVIOUS
  <2> HIDE DEF u
  <2> QED  BY <2>1, <2>2
<1>9. Eq(Uleb)
  <2>1. Uleb = CHOOSE g : Eq(g)  BY Zenon DEF Uleb, Group
  <2> HIDE DEF u, Eq
  <2> QED  BY <1>8, <2>1
<1>10. \A v \in Nat : Uleb[v] = Group(Uleb, v)
  <2> DEFINE h == Uleb
  <2>1. h = [v \in Nat |-> Group(h, v)]  BY <1>9
  <2> HIDE DEF h
  <2>2. \A v \in Nat : h[v] = Group(h, v)  BY <2>1
  <2> QED  BY <2>2 DEF h
<1>11. \A v \in Nat : Uleb[v] \in Seq(Bytes)
  <2> DEFINE T == {m \in Nat : \A v \in Nat : v < m => Uleb[v] \in Seq(Bytes)}
  <2>1. 0 \in T  OBVIOUS
  <2>2. ASSUME NEW m \in Nat, m \in T PROVE m + 1 \in T
    <3> SUFFICES ASSUME NEW v \in Nat, v < m + 1 PROVE Uleb[v] \in Seq(Bytes)
      OBVIOUS
    <3>1. v \div Radix \in Nat /\ v % Radix \in 0 .. Radix - 1 /\ (v >= Radix => v \div Radix < v)
      BY <1>0, Division
    <3>2. v >= Radix => Uleb[v \div Radix] \in Seq(Bytes)
      <4> SUFFICES ASSUME v >= Radix PROVE Uleb[v \div Radix] \in Seq(Bytes)  OBVIOUS
      <4>1. v \div Radix \in Nat /\ v \div Radix < m  BY <3>1
      <4> QED  BY <2>2, <4>1
    <3>3. Radix + (v % Radix) \in Bytes /\ (v < Radix => v \in Bytes)  BY <1>0, <3>1 DEF Bytes
    <3>4. <<Radix + (v % Radix)>> \in Seq(Bytes) /\ (v < Radix => <<v>> \in Seq(Bytes))  BY <3>3
    <3>5. v < Radix \/ v >= Radix  BY <1>0
    <3>6. Group(Uleb, v) \in Seq(Bytes)  BY <3>2, <3>4, <3>5 DEF Group
    <3> QED  BY <1>10, <3>6
  <2> HIDE DEF T
  <2>3. Nat \subseteq T  BY <2>1, <2>2, NatClosed
  <2>4. ASSUME NEW v \in Nat PROVE Uleb[v] \in Seq(Bytes)
    <3>1. v + 1 \in T /\ v < v + 1  BY <2>3
    <3> QED  BY <3>1 DEF T
  <2> QED  BY <2>4
<1> QED  BY <1>10, <1>11

(* A written number has one byte without the mark that more follow, its    *)
(* last, which is 0 for the number 0 only.                                 *)
Shaped(s, v) ==
    /\ Len(s) > 0 /\ \A i \in 1 .. Len(s) - 1 : s[i] >= Radix
    /\ s[Len(s)] < Radix
    /\ v > 0 => s[Len(s)] > 0
    /\ Len(s) > 1 => v > 0

LEMMA UlebIsShaped == \A v \in Nat : Shaped(Uleb[v], v)
<1> DEFINE T == {m \in Nat : \A v \in Nat : v < m => Shaped(Uleb[v], v)}
<1>0. Radix \in Nat /\ Radix > 1  BY NumberAssumption
<1>1. 0 \in T  OBVIOUS
<1>2. ASSUME NEW m \in Nat, m \in T PROVE m + 1 \in T
  <2> SUFFICES ASSUME NEW v \in Nat, v < m + 1 PROVE Shaped(Uleb[v], v)
    OBVIOUS
  <2> DEFINE w == v \div Radix
             b == Radix + (v % Radix)
  <2>1. w \in Nat /\ v % Radix \in 0 .. Radix - 1 /\ (v >= Radix => w < v /\ w > 0)
    BY <1>0, Division
  <2>2. Uleb[v] = IF v < Radix THEN <<v>> ELSE <<b>> \o Uleb[w]  BY UlebUnfolds DEF Group
  <2>3. Uleb[w] \in Seq(Bytes)  BY <2>1, UlebUnfolds
  <2>4. b >= Radix /\ b \in Nat  BY <1>0, <2>1
  <2> HIDE DEF w, b
  <2>5. CASE v < Radix
    <3>1. Uleb[v] = <<v>>  BY <2>2, <2>5
    <3> DEFINE s == <<v>>
    <3>2. Len(s) = 1 /\ s[1] = v  OBVIOUS
    <3> HIDE DEF s
    <3>3. Shaped(s, v)  BY <1>0, <2>5, <3>2 DEF Shaped
    <3> QED  BY <3>1, <3>3 DEF s
  <2>6. CASE ~ (v < Radix)
    <3> DEFINE t == Uleb[w]
               s == <<b>> \o t
    <3>1. v >= Radix  BY <1>0, <2>6
    <3>2. Shaped(t, w)
      <4>1. w \in Nat /\ w < m  BY <2>1, <3>1
      <4> QED  BY <1>2, <4>1
    <3>3. Uleb[v] = s /\ t \in Seq(Bytes)  BY <2>2, <2>3, <2>6
    <3> HIDE DEF t
    <3>4. Len(t) \in Nat /\ Len(t) > 0 /\ \A i \in 1 .. Len(t) : t[i] \in Nat
      <4>1. \A i \in 1 .. Len(t) : t[i] \in Bytes  BY <3>3
      <4> QED  BY <1>0, <3>2, <3>3, <4>1 DEF Shaped, Bytes
    <3>5. Len(s) = Len(t) + 1 /\ s[1] = b /\ \A i \in 1 .. Len(t) : s[i + 1] = t[i]
      BY <2>4, <3>3, <3>4
    <3> HIDE DEF s
    <3>6. ASSUME NEW i \in 1 .. Len(s) - 1 PROVE s[i] >= Radix
      <4>1. CASE i = 1  BY <2>4, <3>5, <4>1
      <4>2. CASE i # 1
        <5>1. i - 1 \in 1 .. Len(t) - 1 /\ i - 1 \in 1 .. Len(t) /\ i - 1 + 1 = i  BY <3>4, <3>5, <4>2
        <5>2. s[i] = t[i - 1]  BY <3>5, <5>1
        <5>3. t[i - 1] >= Radix  BY <3>2, <5>1 DEF Shaped
        <5> QED  BY <5>2, <5>3
      <4> QED  BY <4>1, <4>2
    <3>7. s[Len(s)] = t[Len(t)]
      <4>1. Len(t) \in 1 .. Len(t)  BY <3>4
      <4> QED  BY <3>5, <4>1
    <3>8. t[Len(t)] < Radix /\ t[Len(t)] > 0  BY <2>1, <3>1, <3>2 DEF Shaped
    <3>9. Len(s) > 0 /\ v > 0  BY <1>0, <3>1, <3>4, <3>5
    <3>10. Shaped(s, v)  BY <3>6, <3>7, <3>8, <3>9 DEF Shaped
    <3> QED  BY <3>3, <3>10
  <2> QED  BY <2>5, <2>6
<1> HIDE DEF T
<1>3. Nat \subseteq T  BY <1>1, <1>2, NatClosed
<1>4. ASSUME NEW v \in Nat PROVE Shaped(Uleb[v], v)
  <2>1. v + 1 \in T /\ v < v + 1  BY <1>3
  <2> QED  BY <2>1 DEF T
<1> QED  BY <1>4

LEMMA SubSeqStep ==
    ASSUME NEW S, NEW s \in Seq(S), NEW n \in 1 .. Len(s), NEW k \in 1 .. n
    PROVE  SubSeq(s, k, n) = <<s[k]>> \o SubSeq(s, k + 1, n)
OBVIOUS

LEMMA TailsArePositive ==
    ASSUME NEW bytes \in Seq(Bytes), NEW n \in 1 .. Len(bytes), bytes[n] % Radix > 0
    PROVE  \A i \in 1 .. n : Tails(bytes, n)[i] > 0
<1> DEFINE t == Tails(bytes, n)
           T == {i \in 0 .. n : i > 0 => t[i] > 0}
<1>0. n \in Nat /\ n \in 0 .. Len(bytes) /\ Radix \in Nat /\ Radix > 1  BY NumberAssumption
<1>1. /\ t \in [0 .. n -> Nat] /\ t[0] = 0
      /\ \A k \in 0 .. n - 1 : t[k + 1] = (bytes[n - k] % Radix) + Radix * t[k]
  BY <1>0, TailsUnfold
<1> HIDE DEF t
<1>2. 0 \in T  BY <1>0
<1>3. ASSUME NEW k \in 0 .. n - 1, k \in T PROVE k + 1 \in T
  <2>1. k + 1 \in 0 .. n /\ k \in 0 .. n /\ n - k \in 1 .. Len(bytes)  BY <1>0
  <2> DEFINE p == bytes[n - k] % Radix
             r == t[k]
  <2>2. p \in Nat  BY <2>1, BytesAreNumbers
  <2>3. r \in Nat /\ (k > 0 => r > 0)  BY <1>1, <1>3, <2>1
  <2>4. t[k + 1] = p + Radix * r  BY <1>1
  <2>5. k = 0 => p > 0  BY <1>0
  <2> HIDE DEF p, r
  <2>6. p + Radix * r > 0
    <3>1. CASE k = 0
      <4>1. Radix * r \in Nat  BY <1>0, <2>3
      <4> QED  BY <2>2, <2>5, <3>1, <4>1
    <3>2. CASE k # 0
      <4>1. Radix * r \in Nat /\ Radix * r > 0  BY <1>0, <2>3, <3>2
      <4> QED  BY <2>2, <4>1
    <3> QED  BY <3>1, <3>2
  <2> QED  BY <2>1, <2>4, <2>6
<1> HIDE DEF T
<1>4. 0 .. n \subseteq T  BY <1>0, <1>2, <1>3, ClosedUpTo
<1> QED  BY <1>4 DEF T, t

(* Bytes that all but the last say that more follow, the last no group of  *)
(* zeros unless it is alone, are the way their number is written.          *)
LEMMA WrittenAsRead ==
    ASSUME NEW bytes \in Seq(Bytes), NEW n \in 1 .. Len(bytes), NEW s \in 0 .. n - 1,
           \A k \in s + 1 .. n - 1 : bytes[k] >= Radix,
           bytes[n] < Radix, n = s + 1 \/ bytes[n] > 0
    PROVE  Uleb[Tails(bytes, n)[n - s]] = SubSeq(bytes, s + 1, n)
<1> DEFINE t == Tails(bytes, n)
           T == {i \in 0 .. n - s : i > 0 => Uleb[t[i]] = SubSeq(bytes, n + 1 - i, n)}
<1>0. n \in Nat /\ s \in Nat /\ n - s \in Nat /\ n \in 0 .. Len(bytes) /\ Radix \in Nat /\ Radix > 1
  BY NumberAssumption
<1>1. /\ t \in [0 .. n -> Nat] /\ t[0] = 0
      /\ \A k \in 0 .. n - 1 : t[k + 1] = (bytes[n - k] % Radix) + Radix * t[k]
  BY <1>0, TailsUnfold
<1>p. n > s + 1 => \A i \in 1 .. n : t[i] > 0
  <2> SUFFICES ASSUME n > s + 1 PROVE \A i \in 1 .. n : t[i] > 0  OBVIOUS
  <2>1. bytes[n] % Radix > 0  BY <1>0, BytesAreNumbers
  <2> QED  BY <2>1, TailsArePositive
<1> HIDE DEF t
<1>2. 0 \in T  BY <1>0
<1>3. ASSUME NEW k \in 0 .. (n - s) - 1, k \in T PROVE k + 1 \in T
  <2>1. k + 1 \in 0 .. n - s /\ k \in 0 .. n - 1 /\ k \in 0 .. n /\ n - k \in 1 .. Len(bytes)
        /\ n - k \in 1 .. n /\ n + 1 - (k + 1) = n - k
    BY <1>0
  <2> DEFINE b == bytes[n - k]
             p == b % Radix
             r == t[k]
  <2>2. p \in Nat /\ p < Radix /\ b \in Nat /\ (b < Radix => p = b) /\ (b >= Radix => b = Radix + p)
    BY <2>1, BytesAreNumbers
  <2>3. r \in Nat  BY <1>1, <2>1
  <2>4. t[k + 1] = p + Radix * r  BY <1>1, <2>1
  <2>5. SubSeq(bytes, n - k, n) = <<b>> \o SubSeq(bytes, n - k + 1, n)
    <3>1. ASSUME NEW j \in 1 .. n PROVE SubSeq(bytes, j, n) = <<bytes[j]>> \o SubSeq(bytes, j + 1, n)
      BY SubSeqStep
    <3> QED  BY <2>1, <3>1
  <2>6. (p + Radix * r) \div Radix = r /\ (p + Radix * r) % Radix = p /\ p + Radix * r \in Nat
    <3> HIDE DEF p, r
    <3> QED  BY <1>0, <2>2, <2>3, DivisionIsUnique
  <2>7. Uleb[p + Radix * r] = IF p + Radix * r < Radix THEN <<p + Radix * r>> ELSE <<Radix + p>> \o Uleb[r]
    <3> DEFINE v == p + Radix * r
    <3>1. v \in Nat /\ v \div Radix = r /\ v % Radix = p  BY <2>6
    <3> HIDE DEF v
    <3>2. Uleb[v] = IF v < Radix THEN <<v>> ELSE <<Radix + p>> \o Uleb[r]  BY <3>1, UlebUnfolds DEF Group
    <3> QED  BY <3>2 DEF v
  <2>8. CASE k = 0
    <3>1. b = bytes[n] /\ r = 0 /\ b < Radix  BY <1>0, <1>1, <2>8
    <3>2. p + Radix * r = b  BY <1>0, <2>2, <3>1
    <3>3. Uleb[p + Radix * r] = <<b>>  BY <2>7, <3>1, <3>2
    <3>4. SubSeq(bytes, n - k + 1, n) = <<>>
      <4>1. n - k + 1 = n + 1  BY <1>0, <2>8
      <4> QED  BY <1>0, <4>1
    <3>5. SubSeq(bytes, n - k, n) = <<b>>
      <4>1. \A x : <<x>> \o <<>> = <<x>>  OBVIOUS
      <4> QED  BY <2>5, <3>4, <4>1
    <3> QED  BY <2>1, <2>4, <3>3, <3>5
  <2>9. CASE k # 0
    <3>1. k > 0 /\ n > s + 1 /\ k \in 1 .. n /\ n - k \in s + 1 .. n - 1  BY <1>0, <2>9
    <3>2. r > 0  BY <1>p, <3>1
    <3>3. b >= Radix  BY <3>1
    <3>4. ~ (p + Radix * r < Radix)
      <4> HIDE DEF p, r
      <4>1. Radix * r \in Nat /\ Radix * r >= Radix  BY <1>0, <2>3, <3>2
      <4> QED  BY <1>0, <2>2, <4>1
    <3>5. Uleb[p + Radix * r] = <<b>> \o Uleb[r]  BY <2>2, <2>7, <3>3, <3>4
    <3>6. Uleb[r] = SubSeq(bytes, n - k + 1, n)
      <4>1. n + 1 - k = n - k + 1  BY <1>0
      <4>2. k \in T  BY <1>3
      <4>3. Uleb[r] = SubSeq(bytes, n + 1 - k, n)  BY <3>1, <4>2
      <4> QED  BY <4>1, <4>3
    <3> QED  BY <2>1, <2>4, <2>5, <3>5, <3>6
  <2> QED  BY <2>8, <2>9
<1> HIDE DEF T
<1>4. 0 .. n - s \subseteq T  BY <1>0, <1>2, <1>3, ClosedUpTo
<1>5. n - s \in T /\ n - s > 0 /\ n + 1 - (n - s) = s + 1  BY <1>0, <1>4
<1>6. Uleb[t[n - s]] = SubSeq(bytes, n + 1 - (n - s), n)  BY <1>5 DEF T
<1> QED  BY <1>5, <1>6 DEF t

(* And there are no others.                                                *)
LEMMA ReadAsWritten ==
    ASSUME NEW bytes \in Seq(Bytes), NEW n \in 1 .. Len(bytes),
           Uleb[Tails(bytes, n)[n]] = SubSeq(bytes, 1, n)
    PROVE  /\ \A k \in 1 .. n - 1 : bytes[k] >= Radix
           /\ bytes[n] < Radix
           /\ n > 1 => bytes[n] > 0
<1> DEFINE v == Tails(bytes, n)[n]
           s == SubSeq(bytes, 1, n)
<1>1. v \in Nat
  <2>1. n \in 0 .. Len(bytes) /\ n \in 0 .. n  OBVIOUS
  <2> QED  BY <2>1, TailsUnfold
<1>2. s = Uleb[v]  OBVIOUS
<1>3. Len(s) = n /\ \A k \in 1 .. n : s[k] = bytes[k]  OBVIOUS
<1> HIDE DEF v, s
<1>4. Shaped(s, v)  BY <1>1, <1>2, UlebIsShaped
<1>5. /\ \A i \in 1 .. n - 1 : s[i] >= Radix
      /\ s[n] < Radix /\ (v > 0 => s[n] > 0) /\ (n > 1 => v > 0)
  BY <1>3, <1>4 DEF Shaped
<1>6. n \in Nat /\ n \in 1 .. n /\ \A k \in 1 .. n - 1 : k \in 1 .. n  OBVIOUS
<1> QED  BY <1>3, <1>5, <1>6

-------------------------------------------------------------------------------
(* The number under way: the bytes taken of it say that more follow, and   *)
(* with those that may come it is what is kept of it and what they add.    *)
Started == pos - digits.count
UnderWay ==
    /\ digits.count <= pos
    /\ digits.count > 0 => todo # <<>> /\ Head(todo).name \in DOMAIN Largest
    /\ \A k \in Started + 1 .. pos : file[k] >= Radix
    /\ \A n \in pos .. Len(file) :
          Tails(file, n)[n - Started] = digits.value + Weight[digits.count] * Tails(file, n)[n - pos]

LEMMA TailIsNumber ==
    ASSUME NEW bytes \in Seq(Bytes), NEW n \in 0 .. Len(bytes), NEW i \in 0 .. n
    PROVE  Tails(bytes, n)[i] \in Nat
BY TailsUnfold

(* No number is under way. *)
LEMMA NothingUnderWay == Typed /\ digits = NoDigits => UnderWay
<1> SUFFICES ASSUME Typed, digits.count = 0, digits.value = 0 PROVE UnderWay
  BY DEF NoDigits
<1>1. Started = pos /\ pos \in Nat  BY DEF Started, Typed
<1>2. Weight[0] = 1  BY NumberAssumption
<1>3. \A k \in Started + 1 .. pos : file[k] >= Radix
  <2>1. Started + 1 .. pos = {}  BY <1>1
  <2> QED  BY <2>1
<1>4. ASSUME NEW n \in pos .. Len(file)
      PROVE  Tails(file, n)[n - Started] = digits.value + Weight[digits.count] * Tails(file, n)[n - pos]
  <2>1. n \in 0 .. Len(file) /\ n - pos \in 0 .. n  BY <1>1 DEF Typed
  <2>2. Tails(file, n)[n - pos] \in Nat  BY <2>1, TailIsNumber DEF Typed
  <2>3. \A t \in Nat : t = 0 + 1 * t  OBVIOUS
  <2> QED  BY <1>1, <1>2, <2>2, <2>3
<1> QED  BY <1>1, <1>3, <1>4 DEF UnderWay

LEMMA NoneUnderWay ==
    ASSUME Typed, Below, UnderWay, todo = <<>>
    PROVE  digits.count = 0 /\ digits.value = 0 /\ Started = pos
<1>1. digits.count \in Nat /\ digits.value \in Nat /\ Weight[0] = 1  BY NumberAssumption DEF Typed
<1>2. digits.count = 0  BY <1>1 DEF UnderWay
<1>3. digits.value < 1  BY <1>1, <1>2 DEF Below
<1> QED  BY <1>1, <1>2, <1>3 DEF Started, Typed

LEMMA NextTail ==
    ASSUME Typed, pos < end, NEW n \in pos + 1 .. Len(file)
    PROVE  /\ Tails(file, n)[n - pos] = Payload + Radix * Tails(file, n)[n - (pos + 1)]
           /\ Tails(file, n)[n - (pos + 1)] \in Nat
<1>1. pos \in Nat /\ Len(file) \in Nat /\ file \in Seq(Bytes)  BY DEF Typed
<1> DEFINE k == n - (pos + 1)
<1>2. k \in 0 .. n - 1 /\ k + 1 = n - pos /\ n - k = pos + 1 /\ n \in 0 .. Len(file) /\ k \in 0 .. n  BY <1>1
<1> HIDE DEF k
<1>3. Tails(file, n)[k + 1] = (file[n - k] % Radix) + Radix * Tails(file, n)[k]  BY <1>1, <1>2, TailsUnfold
<1>4. Tails(file, n)[k] \in Nat  BY <1>1, <1>2, TailIsNumber
<1> QED  BY <1>2, <1>3, <1>4 DEF k, Payload, Byte

LEMMA Grown ==
    ASSUME NEW v \in Nat, NEW p \in Nat, NEW w \in Nat, NEW r \in Nat, NEW t \in Nat
    PROVE  v + w * (p + r * t) = (v + p * w) + (r * w) * t
<1>1. w * (p + r * t) = w * p + w * (r * t)  OBVIOUS
<1>2. w * (r * t) = (r * w) * t  OBVIOUS
<1>3. w * p = p * w /\ w * p \in Nat /\ (r * w) * t \in Nat  OBVIOUS
<1> QED  BY <1>1, <1>2, <1>3

(* What the bytes from the start of the number on come to, if one more is  *)
(* taken.                                                                  *)
LEMMA OneMore ==
    ASSUME Typed, Below, UnderWay, pos < end, ~ Overflows, NEW n \in pos + 1 .. Len(file)
    PROVE  Tails(file, n)[n - Started]
             = Shifted(digits, Payload) + (Radix * Weight[digits.count]) * Tails(file, n)[n - (pos + 1)]
<1> DEFINE v == digits.value
           w == Weight[digits.count]
           p == Payload
           t == Tails(file, n)[n - (pos + 1)]
           s == Shifted(digits, Payload)
           all == Tails(file, n)[n - Started]
<1>1. v \in Nat /\ w \in Nat /\ Radix \in Nat  BY NumberAssumption, WeightIsPositive DEF Typed
<1>2. p \in Nat  BY ByteIsByte, NumberAssumption
<1>3. t \in Nat /\ Tails(file, n)[n - pos] = p + Radix * t  BY NextTail
<1>4. all = v + w * Tails(file, n)[n - pos]
  <2>1. n \in pos .. Len(file)  BY DEF Typed
  <2> QED  BY <2>1 DEF UnderWay
<1>5. s = v + p * w  BY ShiftedIsExact
<1> HIDE DEF v, w, p, t, s, all
<1>6. all = s + (Radix * w) * t  BY <1>1, <1>2, <1>3, <1>4, <1>5, Grown
<1> QED  BY <1>6 DEF all, s, w, t

LEMMA MoreStaysUnderWay ==
    ASSUME IInv, Below, UnderWay, MoreDigits
    PROVE  UnderWay'
<1>1. /\ pos < end /\ Byte(pos) >= Radix /\ digits.count < MaxBytes - 1
      /\ todo # <<>> /\ Head(todo).name \in DOMAIN Largest
      /\ digits' = [value |-> Shifted(digits, Payload), count |-> digits.count + 1]
      /\ pos' = pos + 1 /\ UNCHANGED <<file, todo>>
  BY DEF MoreDigits, Reading, More
<1>2. Typed /\ pos \in Nat /\ digits.count \in 0 .. MaxBytes - 1 /\ digits.count \in Nat /\ end <= Len(file) /\ end \in Nat
  BY NumberAssumption DEF IInv, Typed
<1>3. Started' = Started /\ digits'.count = digits.count + 1 /\ digits'.value = Shifted(digits, Payload)
  BY <1>1, <1>2 DEF Started
<1>4. digits'.count <= pos'  BY <1>1, <1>2 DEF UnderWay
<1>5. \A k \in Started' + 1 .. pos' : file'[k] >= Radix
  <2> SUFFICES ASSUME NEW k \in Started + 1 .. pos + 1 PROVE file[k] >= Radix
    BY <1>1, <1>3
  <2>1. k \in Started + 1 .. pos \/ k = pos + 1  BY <1>2 DEF Started
  <2> QED  BY <1>1, <2>1 DEF UnderWay, Byte
<1>6. ~ Overflows  BY <1>1, <1>2, NumberAssumption DEF Overflows
<1>7. Weight[digits.count + 1] = Radix * Weight[digits.count]
  <2> DEFINE c == digits.count
  <2>1. MaxBytes \in Nat /\ c \in Nat /\ c < MaxBytes - 1  BY <1>1, <1>2, NumberAssumption
  <2> HIDE DEF c
  <2>2. c \in 0 .. MaxBytes - 2  BY <2>1
  <2> QED  BY <2>2, NumberAssumption DEF c
<1>8. \A n \in pos + 1 .. Len(file) :
         Tails(file, n)[n - Started] = Shifted(digits, Payload) + Weight[digits.count + 1] * Tails(file, n)[n - (pos + 1)]
  BY <1>1, <1>2, <1>6, <1>7, OneMore
<1>9. \A n \in pos' .. Len(file') :
         Tails(file', n)[n - Started'] = digits'.value + Weight[digits'.count] * Tails(file', n)[n - pos']
  BY <1>1, <1>3, <1>8
<1> QED  BY <1>1, <1>4, <1>5, <1>9 DEF UnderWay

(* At its last byte, the number is the one its bytes are the groups of,    *)
(* and they are the way it is written.                                     *)
LEMMA LastIsWritten ==
    ASSUME Typed, Below, UnderWay, pos < end, ~ More, ~ Overflows, ~ Padded
    PROVE  /\ Shifted(digits, Payload) = Tails(file, pos + 1)[(pos + 1) - Started]
           /\ Uleb[Shifted(digits, Payload)] = SubSeq(file, Started + 1, pos + 1)
           /\ Started \in 0 .. pos
<1> DEFINE n == pos + 1
<1>1. /\ pos \in Nat /\ digits.count \in Nat /\ digits.count <= pos /\ n \in 1 .. Len(file)
      /\ file \in Seq(Bytes) /\ Radix \in Nat /\ Radix > 1
  BY NumberAssumption DEF Typed, UnderWay
<1>2. Started \in 0 .. pos /\ Started \in 0 .. n - 1  BY <1>1 DEF Started
<1>3. file[n] \in Nat /\ file[n] < Radix /\ Payload = file[n]
  <2>1. file[n] \in Nat /\ (file[n] < Radix => file[n] % Radix = file[n])  BY <1>1, BytesAreNumbers
  <2>2. ~ (file[n] >= Radix)  BY DEF More, Byte
  <2> QED  BY <1>1, <2>1, <2>2 DEF Payload, Byte
<1>4. \A k \in Started + 1 .. n - 1 : file[k] >= Radix
  <2>1. n - 1 = pos  BY <1>1
  <2> QED  BY <2>1 DEF UnderWay
<1>5. n = Started + 1 \/ file[n] > 0
  BY <1>1, <1>3 DEF Padded, Started
<1>6. Tails(file, n)[n - Started] = Shifted(digits, Payload)
  <2>1. n \in pos + 1 .. Len(file) /\ n - n = 0 /\ n \in 0 .. Len(file)  BY <1>1
  <2>2. Tails(file, n)[n - Started] = Shifted(digits, Payload) + (Radix * Weight[digits.count]) * Tails(file, n)[n - n]
    BY <2>1, OneMore
  <2>3. Tails(file, n)[n - n] = 0  BY <1>1, <2>1, TailsUnfold
  <2>4. Radix * Weight[digits.count] \in Nat /\ Shifted(digits, Payload) \in Nat
    <3>1. Weight[digits.count] \in Nat  BY WeightIsPositive DEF Typed
    <3>2. \A a, b \in Nat : a * b \in Nat  OBVIOUS
    <3> QED  BY <1>1, <3>1, <3>2, ShiftedIsNumber
  <2>5. \A a, b \in Nat : a + b * 0 = a  OBVIOUS
  <2> QED  BY <2>2, <2>3, <2>4, <2>5
<1>7. Uleb[Tails(file, n)[n - Started]] = SubSeq(file, Started + 1, n)
  <2> HIDE DEF n
  <2> QED  BY <1>1, <1>2, <1>3, <1>4, <1>5, WrittenAsRead
<1> QED  BY <1>2, <1>6, <1>7

LEMMA UnderWayHolds == IInv /\ Below /\ UnderWay /\ [Next]_vars => UnderWay'
<1> SUFFICES ASSUME IInv, Below, UnderWay, [Next]_vars PROVE UnderWay'
  OBVIOUS
<1>0. Typed /\ Typed' /\ digits = [value |-> digits.value, count |-> digits.count]
  BY NextHolds DEF IInv, Typed
<1>1. (Typed /\ digits = NoDigits)' => UnderWay'  BY NothingUnderWay, PTL
<1>2. todo = <<>> => digits = NoDigits
  BY <1>0, NoneUnderWay DEF NoDigits
<1>3. CASE MoreDigits  BY <1>3, MoreStaysUnderWay
<1>4. CASE LastDigit \/ ReadField
  <2>1. digits' = NoDigits  BY <1>4 DEF LastDigit, ReadField, Take
  <2> QED  BY <1>0, <1>1, <2>1 DEF NoDigits
<1>5. CASE Open \/ CheckTables \/ CheckContent \/ OpenTable \/ StartEntry \/ OpenFooter \/ \E i \in DOMAIN tables : Place(i) \/ Misplaced(i)
  <2>1. todo = <<>>
    <3>1. stage \in {"start", "header", "layout", "entries"} /\ (stage \in {"header", "entries"} => todo = <<>>)
      BY <1>5 DEF Open, CheckTables, CheckContent, OpenTable, StartEntry, OpenFooter, BetweenEntries, Place, Misplaced
    <3> QED  BY <3>1 DEF IInv, Staged
  <2>2. digits' = digits
    <3>1. CASE Open \/ CheckTables \/ CheckContent  BY <3>1 DEF Open, CheckTables, CheckContent, Stop
    <3>2. CASE OpenTable \/ StartEntry \/ OpenFooter  BY <3>2 DEF OpenTable, StartEntry, OpenFooter, Stop
    <3>3. CASE \E i \in DOMAIN tables : Place(i) \/ Misplaced(i)  BY <3>3 DEF Place, Misplaced, Stop
    <3> QED  BY <1>5, <3>1, <3>2, <3>3
  <2> QED  BY <1>0, <1>1, <1>2, <2>1, <2>2 DEF NoDigits
<1>6. CASE UNCHANGED <<file, pos, digits, todo>>
  BY <1>6 DEF UnderWay, Started
<1>7. \/ MoreDigits \/ LastDigit \/ ReadField
      \/ Open \/ CheckTables \/ CheckContent \/ OpenTable \/ StartEntry \/ OpenFooter \/ \E i \in DOMAIN tables : Place(i) \/ Misplaced(i)
      \/ UNCHANGED <<file, pos, digits, todo>>
  <2>1. CASE Ahead \/ OutOfBytes \/ BadNumber \/ FieldOutOfBytes \/ Finish
    BY <2>1 DEF Ahead, OutOfBytes, BadNumber, FieldOutOfBytes, Finish, Stop
  <2>2. CASE UNCHANGED vars  BY <2>2 DEF vars
  <2> QED  BY <2>1, <2>2 DEF Next
<1> QED  BY <1>3, <1>4, <1>5, <1>6, <1>7

-------------------------------------------------------------------------------
(* A file that is one number. *)
LEMMA LocalIsNumber ==
    /\ "local" \in DOMAIN Largest /\ "local" \notin Counts /\ "local" \notin Blobs
    /\ "local" \notin DOMAIN Elements /\ "local" \notin DOMAIN Tagged
<1>1. "local" \in DOMAIN Largest  BY DEF Largest
<1>2. "local" \notin DOMAIN Elements  BY DEF Elements
<1>3. "local" \notin DOMAIN Tagged  BY DEF Tagged
<1>4. "local" \notin Blobs  BY DEF Blobs
<1>5. "local" \notin Counts  BY <1>2 DEF Counts
<1> QED  BY <1>1, <1>2, <1>3, <1>4, <1>5

LEMMA OneLocal ==
    ASSUME NEW v
    PROVE  /\ After(Item("local", 1), v) = <<>>
           /\ Refuses(Item("local", 1), v) = (IF v > Largest.local THEN "range" ELSE "")
           /\ RefusesAhead(Item("local", 1)) = ""
<1> DEFINE item == Item("local", 1)
<1>1. item.name = "local"  BY DEF Item
<1> HIDE DEF item
<1>2. After(item, v) = <<>>  BY <1>1, LocalIsNumber DEF After
<1>3. Refuses(item, v) = IF v > Largest.local THEN "range" ELSE ""
  BY <1>1, LocalIsNumber DEF Refuses
<1>4. RefusesAhead(item) = ""  BY <1>1 DEF RefusesAhead
<1> QED  BY <1>2, <1>3, <1>4 DEF item

LEMMA AcceptableAhead ==
    ASSUME Typed, UnderWay, Started = 0, NEW n \in 1 .. Len(file), Acceptable(n)
    PROVE  /\ n > pos /\ n \in pos + 1 .. Len(file)
           /\ \A k \in 1 .. n - 1 : file[k] >= Radix
           /\ file[n] < Radix /\ (n > 1 => file[n] > 0)
<1>1. /\ \A k \in 1 .. n - 1 : file[k] >= Radix
      /\ file[n] < Radix /\ (n > 1 => file[n] > 0)
  <2>1. file \in Seq(Bytes) /\ Uleb[Tails(file, n)[n]] = SubSeq(file, 1, n)  BY DEF Typed, Acceptable, Groups
  <2> QED  BY <2>1, ReadAsWritten
<1>2. pos \in Nat /\ Len(file) \in Nat /\ Radix \in Nat /\ file[n] \in Nat
  BY NumberAssumption, BytesAreNumbers DEF Typed
<1>3. n > pos
  <2> SUFFICES ASSUME n <= pos PROVE FALSE  BY <1>2
  <2>1. n \in Started + 1 .. pos  BY <1>2
  <2>2. file[n] >= Radix  BY <2>1 DEF UnderWay
  <2> QED  BY <1>1, <1>2, <2>2
<1> QED  BY <1>1, <1>2, <1>3

(* Past the last byte there is room for no more than LastMax.              *)
LEMMA TooMuch ==
    ASSUME Typed, Below, UnderWay, Started = 0, digits.count = MaxBytes - 1,
           NEW n \in pos .. Len(file), Tails(file, n)[n - pos] > LastMax
    PROVE  ~ Acceptable(n)
<1> DEFINE t == Tails(file, n)[n - pos]
           w == Weight[MaxBytes - 1]
<1>1. pos \in Nat /\ Len(file) \in Nat /\ n \in 0 .. Len(file) /\ n - pos \in 0 .. n /\ n - Started = n
  BY DEF Typed
<1>2. t \in Nat /\ w \in Nat /\ LastMax \in Nat /\ digits.value \in Nat
  BY <1>1, TailIsNumber, WeightIsPositive, NumberAssumption DEF Typed
<1>3. Groups(n) = digits.value + w * t
  <2>1. Tails(file, n)[n - Started] = digits.value + w * t  BY DEF UnderWay
  <2> QED  BY <1>1, <2>1 DEF Groups
<1>4. t >= LastMax + 1  BY <1>2
<1> HIDE DEF t, w
<1>5. w * t >= (LastMax + 1) * w
  <2>1. w * t >= w * (LastMax + 1)  BY <1>2, <1>4
  <2> QED  BY <1>2, <2>1
<1>6. Capacity = (LastMax + 1) * w  BY DEF Capacity, w
<1>7. w * t \in Nat /\ (LastMax + 1) * w \in Nat  BY <1>2
<1>8. Groups(n) >= Capacity  BY <1>2, <1>3, <1>5, <1>6, <1>7
<1>9. ~ (Groups(n) < Capacity)
  <2>1. Groups(n) \in Nat /\ Capacity \in Nat  BY <1>2, <1>3, <1>7, CapacityIsPositive
  <2> QED  BY <1>8, <2>1
<1> QED  BY <1>9 DEF Acceptable

LEMMA BadNumberIsNone ==
    ASSUME IInv, Below, UnderWay, Started = 0, pos < end,
           Overflows \/ Padded \/ (More /\ digits.count = MaxBytes - 1),
           NEW n \in 1 .. Len(file)
    PROVE  ~ Acceptable(n)
<1> SUFFICES ASSUME Acceptable(n) PROVE FALSE
  OBVIOUS
<1>1. Typed /\ pos \in Nat /\ Len(file) \in Nat /\ Radix \in Nat /\ LastMax \in Nat /\ LastMax < Radix
      /\ file \in Seq(Bytes) /\ digits.count \in Nat /\ Started = pos - digits.count
      /\ pos + 1 \in 1 .. Len(file)
  BY NumberAssumption DEF IInv, Typed, Started
<1>2. /\ n \in pos + 1 .. Len(file)
      /\ \A k \in 1 .. n - 1 : file[k] >= Radix
      /\ file[n] < Radix /\ (n > 1 => file[n] > 0)
  BY <1>1, AcceptableAhead
<1>3. /\ Tails(file, n)[n - pos] = Payload + Radix * Tails(file, n)[n - (pos + 1)]
      /\ Tails(file, n)[n - (pos + 1)] \in Nat /\ Payload \in Nat
  <2>1. Payload \in Nat  BY <1>1, ByteIsByte, NumberAssumption
  <2> QED  BY <1>1, <1>2, <2>1, NextTail
<1>4. Byte(pos) = file[pos + 1] /\ file[pos + 1] \in Nat /\ Payload = file[pos + 1] % Radix
  BY <1>1, BytesAreNumbers DEF Byte, Payload
<1> DEFINE t == Tails(file, n)[n - (pos + 1)]
           all == Tails(file, n)[n - pos]
<1>5. CASE Overflows
  <2>1. digits.count = MaxBytes - 1 /\ Payload > LastMax  BY <1>5 DEF Overflows
  <2>2. t \in Nat /\ all = Payload + Radix * t  BY <1>3
  <2> HIDE DEF t, all
  <2>3. Radix * t \in Nat  BY <1>1, <2>2
  <2>4. all > LastMax  BY <1>1, <1>3, <2>1, <2>2, <2>3
  <2>5. n \in pos .. Len(file)  BY <1>1, <1>2
  <2> QED  BY <1>1, <2>1, <2>4, <2>5, TooMuch DEF all
<1>6. CASE Padded
  <2>1. digits.count > 0 /\ Payload = 0 /\ ~ (file[pos + 1] >= Radix)  BY <1>4, <1>6 DEF Padded, More
  <2>2. file[pos + 1] = 0
    <3>1. file[pos + 1] < Radix  BY <1>1, <1>4, <2>1
    <3>2. file[pos + 1] % Radix = file[pos + 1]  BY <1>1, <3>1, BytesAreNumbers
    <3> QED  BY <1>4, <2>1, <3>2
  <2>3. n = pos + 1
    <3> SUFFICES ASSUME n # pos + 1 PROVE FALSE  OBVIOUS
    <3>1. pos + 1 \in 1 .. n - 1  BY <1>1, <1>2
    <3> QED  BY <1>2, <2>1, <3>1
  <2>4. pos > 0  BY <1>1, <2>1
  <2>5. n > 1  BY <1>1, <2>3, <2>4
  <2>6. file[n] > 0 /\ file[n] = 0  BY <1>2, <2>2, <2>3, <2>5
  <2> QED  BY <2>6
<1>7. CASE More /\ digits.count = MaxBytes - 1
  <2>1. file[pos + 1] >= Radix  BY <1>4, <1>7 DEF More
  <2>2. n # pos + 1
    <3> SUFFICES ASSUME n = pos + 1 PROVE FALSE  OBVIOUS
    <3> QED  BY <1>1, <1>2, <1>4, <2>1
  <2>3. n > 1 /\ n - (pos + 1) \in 1 .. n  BY <1>1, <1>2, <2>2
  <2>4. file[n] % Radix > 0
    <3>1. file[n] % Radix = file[n]  BY <1>1, <1>2, BytesAreNumbers
    <3> QED  BY <1>2, <2>3, <3>1
  <2>5. t > 0  BY <1>1, <2>3, <2>4, TailsArePositive
  <2>6. t \in Nat /\ all = Payload + Radix * t  BY <1>3
  <2> HIDE DEF t, all
  <2>7. Radix * t \in Nat /\ Radix * t >= Radix  BY <1>1, <2>5, <2>6
  <2>8. all > LastMax  BY <1>1, <1>3, <2>6, <2>7
  <2>9. n \in pos .. Len(file)  BY <1>1, <1>2
  <2> QED  BY <1>1, <1>7, <2>8, <2>9, TooMuch DEF all
<1> QED  BY <1>5, <1>6, <1>7

(* Such a file is either not read to its end or read and not yet accepted, *)
(* and decided once the reader stops.                                      *)
Unread == todo = <<Item("local", 1)>> /\ read = <<>> /\ Started = 0 /\ end = Len(file)
Taken == todo = <<>> /\ pos \in 1 .. Len(file) /\ Acceptable(pos) /\ read[1].value = Groups(pos)
OneNumber == kind = "number" => IF Going THEN stage = "number" /\ (Unread \/ Taken) ELSE NumbersAreExact

LEMMA OneNumberBegins == Init => OneNumber
<1> SUFFICES ASSUME Init, kind = "number" PROVE OneNumber
  BY DEF OneNumber
<1>1. Going /\ stage = "number" /\ todo = <<Item("local", 1)>> /\ read = <<>> /\ end = Len(file)
  BY DEF Init, Going
<1>2. Started = 0  BY DEF Init, NoDigits, Started
<1> QED  BY <1>1, <1>2 DEF OneNumber, Unread

(* What is refused is the way no number is written.                        *)
NoneAcceptable == \A n \in 1 .. Len(file) : ~ Acceptable(n)

LEMMA RefusedNumber ==
    ASSUME NoneAcceptable, UNCHANGED file, outcome' \notin {"reading", "accepted"}
    PROVE  OneNumber'
<1>1. NoneAcceptable'
  <2>1. \A n : Acceptable(n)' <=> Acceptable(n)
    BY DEF Acceptable, Groups
  <2> QED  BY <2>1 DEF NoneAcceptable
<1>2. ~ Going' /\ outcome' # "accepted"  BY DEF Going
<1>3. NumbersAreExact'  BY <1>1, <1>2 DEF NumbersAreExact, NoneAcceptable
<1> QED  BY <1>2, <1>3 DEF OneNumber

LEMMA LastOfNumber ==
    ASSUME IInv, Below, UnderWay, kind = "number", Going, Unread, LastDigit
    PROVE  \/ NoneAcceptable /\ outcome' = "range"
           \/ Going' /\ stage' = stage /\ Taken'
<1> DEFINE n == pos + 1
           v == Shifted(digits, Payload)
<1>1. Typed /\ pos < end /\ ~ More /\ ~ Overflows /\ ~ Padded /\ Take(v, n) /\ Started = 0 /\ pos \in Nat
      /\ n \in 1 .. Len(file) /\ n \in Nat /\ file \in Seq(Bytes) /\ Len(file) \in Nat
  BY DEF LastDigit, Unread, IInv, Typed
<1>2. v = Groups(n) /\ Uleb[v] = SubSeq(file, 1, n) /\ v < Capacity
  <2>1. v = Tails(file, n)[n - Started] /\ Uleb[v] = SubSeq(file, Started + 1, n)  BY <1>1, LastIsWritten
  <2>2. n - Started = n /\ Started + 1 = 1  BY <1>1
  <2>3. v < Capacity
    <3>1. digits.value + Payload * Weight[digits.count] \in Nat
      <4>1. Payload \in Nat /\ digits.value \in Nat /\ Weight[digits.count] \in Nat
        BY <1>1, ByteIsByte, WeightIsPositive, NumberAssumption DEF Typed
      <4>2. \A a, b, c \in Nat : a + b * c \in Nat  OBVIOUS
      <4> QED  BY <4>1, <4>2
    <3>2. \A a, c \in Nat : c > 0 => a % c < c  OBVIOUS
    <3> QED  BY <3>1, <3>2, CapacityIsPositive DEF Shifted
  <2> QED  BY <2>1, <2>2, <2>3 DEF Groups
<1>3. Head(todo) = Item("local", 1) /\ Tail(todo) = <<>> /\ Item("local", 1).name = "local"
  BY DEF Unread, Item
<1>4. UNCHANGED file /\ pos' = n /\ digits' = NoDigits
      /\ read' = Append(read, [name |-> "local", value |-> v, at |-> pos - digits.count])
  <2> HIDE DEF v, n
  <2> QED  BY <1>1, <1>3 DEF Take
<1>5. CASE v > Largest.local
  <2>1. outcome' = "range"
    <3> HIDE DEF v, n
    <3>1. Refuses(Head(todo), v) = "range"  BY <1>3, <1>5, OneLocal
    <3> QED  BY <1>1, <3>1 DEF Take
  <2>2. ASSUME NEW k \in 1 .. Len(file), Acceptable(k) PROVE FALSE
    <3>1. k \in pos + 1 .. Len(file) /\ (\A j \in 1 .. k - 1 : file[j] >= Radix)
      BY <1>1, <2>2, AcceptableAhead
    <3>2. k = n
      <4> SUFFICES ASSUME k # n PROVE FALSE  OBVIOUS
      <4>1. n \in 1 .. k - 1  BY <1>1, <3>1
      <4>2. file[n] >= Radix  BY <3>1, <4>1
      <4> QED  BY <1>1, <4>2 DEF More, Byte
    <3>3. v <= Largest.local  BY <1>2, <2>2, <3>2 DEF Acceptable
    <3>4. v \in Nat /\ Largest.local \in Nat  BY <1>1, ShiftedIsNumber DEF Largest
    <3> QED  BY <1>5, <3>3, <3>4
  <2> QED  BY <2>1, <2>2 DEF NoneAcceptable
<1>6. CASE ~ (v > Largest.local)
  <2> HIDE DEF v, n
  <2>1. Refuses(Head(todo), v) = "" /\ After(Head(todo), v) = <<>>  BY <1>3, <1>6, OneLocal
  <2>2. /\ todo' = After(Head(todo), v) \o Tail(todo) /\ UNCHANGED <<outcome, stage>>
    BY <1>1, <2>1 DEF Take
  <2>3. todo' = <<>>
    <3>1. \A x : x = <<>> => x \o <<>> = <<>>  OBVIOUS
    <3> QED  BY <1>3, <2>1, <2>2, <3>1
  <2>4. Acceptable(n)
    <3>1. v \in Nat /\ Largest.local \in Nat
      <4>1. v \in Nat  BY <1>1, ShiftedIsNumber DEF v
      <4> QED  BY <4>1 DEF Largest
    <3>2. v <= Largest.local  BY <1>6, <3>1
    <3> QED  BY <1>2, <3>2 DEF Acceptable
  <2>5. pos' \in 1 .. Len(file') /\ Acceptable(pos)' /\ Groups(pos)' = Groups(n)
    <3>1. pos' = n /\ file' = file /\ n \in 1 .. Len(file)  BY <1>1, <1>4
    <3> QED  BY <2>4, <3>1 DEF Acceptable, Groups
  <2>6. read'[1].value = v
    <3>1. \A r : Append(<<>>, r)[1] = r  OBVIOUS
    <3>2. read' = Append(<<>>, [name |-> "local", value |-> v, at |-> pos - digits.count])  BY <1>4 DEF Unread
    <3> QED  BY <3>1, <3>2
  <2> QED  BY <1>2, <2>2, <2>3, <2>5, <2>6 DEF Taken, Going
<1> QED  BY <1>5, <1>6

LEMMA OnlyGoing == Next => Going
BY DEF Next, Open, Ahead, OutOfBytes, BadNumber, MoreDigits, LastDigit, FieldOutOfBytes, ReadField, Reading, CheckTables,
       CheckContent, OpenTable, StartEntry, OpenFooter, BetweenEntries, Finish, Place, Misplaced

LEMMA UnreadSteps ==
    ASSUME IInv, Below, UnderWay, kind = "number", Going, stage = "number", Unread, Next
    PROVE  OneNumber'
<1>1. todo # <<>> /\ Head(todo) = Item("local", 1) /\ Head(todo).name \in DOMAIN Largest
  <2>1. todo # <<>> /\ Head(todo) = Item("local", 1)  BY DEF Unread
  <2>2. Item("local", 1).name = "local"  BY DEF Item
  <2> QED  BY <2>1, <2>2, LocalIsNumber
<1>2. MoreDigits \/ LastDigit \/ OutOfBytes \/ BadNumber
  <2>1. ~ Ahead  BY <1>1, OneLocal DEF Ahead
  <2>2. ~ FieldOutOfBytes /\ ~ ReadField  BY <1>1 DEF FieldOutOfBytes, ReadField, Reading
  <2>3. ~ Open /\ ~ CheckTables /\ ~ CheckContent /\ ~ OpenTable /\ ~ StartEntry /\ ~ OpenFooter
        /\ ~ (\E i \in DOMAIN tables : Place(i) \/ Misplaced(i))
    BY DEF Open, CheckTables, CheckContent, OpenTable, StartEntry, OpenFooter, BetweenEntries, Place, Misplaced
  <2>4. ~ Finish  BY <1>1 DEF Finish
  <2> QED  BY <2>1, <2>2, <2>3, <2>4 DEF Next
<1>3. Started = 0 /\ Typed /\ pos \in Nat /\ Len(file) \in Nat  BY DEF Unread, IInv, Typed
<1>4. CASE MoreDigits
  <2>1. Started' = Started
    <3>1. digits' = [value |-> Shifted(digits, Payload), count |-> digits.count + 1] /\ pos' = pos + 1
      BY <1>4 DEF MoreDigits
    <3>2. digits.count \in Nat  BY <1>3, NumberAssumption DEF Typed
    <3> QED  BY <1>3, <3>1, <3>2 DEF Started
  <2>2. UNCHANGED <<file, kind, end, stage, todo, read, outcome>>  BY <1>4 DEF MoreDigits
  <2>3. Unread'  BY <2>1, <2>2 DEF Unread
  <2> QED  BY <2>2, <2>3 DEF OneNumber, Going
<1>5. CASE LastDigit
  <2>1. CASE NoneAcceptable /\ outcome' = "range"
    <3>1. UNCHANGED file  BY <1>5 DEF LastDigit, Take
    <3> QED  BY <2>1, <3>1, RefusedNumber
  <2>2. CASE Going' /\ stage' = stage /\ Taken'
    BY <2>2 DEF OneNumber
  <2> QED  BY <1>5, <2>1, <2>2, LastOfNumber
<1>6. CASE OutOfBytes
  <2>1. outcome' = "eof" /\ UNCHANGED file /\ pos = Len(file)  BY <1>6 DEF OutOfBytes, Stop, Unread
  <2>2. ASSUME NEW n \in 1 .. Len(file), Acceptable(n) PROVE FALSE
    <3>1. n > pos  BY <1>3, <2>2, AcceptableAhead
    <3> QED  BY <1>3, <2>1, <3>1
  <2>3. NoneAcceptable  BY <2>2 DEF NoneAcceptable
  <2> QED  BY <2>1, <2>3, RefusedNumber
<1>7. CASE BadNumber
  <2>1. /\ outcome' = "uleb" /\ UNCHANGED file /\ pos < end
        /\ Overflows \/ Padded \/ (More /\ digits.count = MaxBytes - 1)
    BY <1>7 DEF BadNumber, Stop
  <2>2. NoneAcceptable  BY <1>3, <2>1, BadNumberIsNone DEF NoneAcceptable
  <2> QED  BY <2>1, <2>2, RefusedNumber
<1> QED  BY <1>2, <1>4, <1>5, <1>6, <1>7

LEMMA TakenSteps ==
    ASSUME kind = "number", Going, stage = "number", Taken, Next
    PROVE  OneNumber'
<1>1. todo = <<>>  BY DEF Taken
<1>2. Finish
  <2>1. ~ Ahead /\ ~ OutOfBytes /\ ~ BadNumber /\ ~ MoreDigits /\ ~ LastDigit /\ ~ FieldOutOfBytes /\ ~ ReadField
    BY <1>1 DEF Ahead, OutOfBytes, BadNumber, MoreDigits, LastDigit, FieldOutOfBytes, ReadField, Reading
  <2>2. ~ Open /\ ~ CheckTables /\ ~ CheckContent /\ ~ OpenTable /\ ~ StartEntry /\ ~ OpenFooter
        /\ ~ (\E i \in DOMAIN tables : Place(i) \/ Misplaced(i))
    BY DEF Open, CheckTables, CheckContent, OpenTable, StartEntry, OpenFooter, BetweenEntries, Place, Misplaced
  <2> QED  BY <2>1, <2>2 DEF Next
<1>3. outcome' = "accepted" /\ UNCHANGED <<file, pos, read, kind>>
  BY <1>2 DEF Finish, Stop
<1>4. Acceptable(pos)' /\ (read[1].value = Groups(pos))'
  BY <1>3 DEF Taken, Acceptable, Groups
<1>5. ~ Going'  BY <1>3 DEF Going
<1> QED  BY <1>3, <1>4, <1>5 DEF OneNumber, NumbersAreExact

LEMMA OneNumberHolds == IInv /\ Below /\ UnderWay /\ OneNumber /\ [Next]_vars => OneNumber'
<1> SUFFICES ASSUME IInv, Below, UnderWay, OneNumber, [Next]_vars PROVE OneNumber'
  OBVIOUS
<1>1. UNCHANGED kind
  <2>1. CASE Open \/ Ahead \/ OutOfBytes \/ BadNumber \/ FieldOutOfBytes \/ Finish
    BY <2>1 DEF Open, Ahead, OutOfBytes, BadNumber, FieldOutOfBytes, Finish, Stop
  <2>2. CASE MoreDigits \/ LastDigit \/ ReadField  BY <2>2 DEF MoreDigits, LastDigit, ReadField, Take
  <2>3. CASE CheckTables \/ CheckContent  BY <2>3 DEF CheckTables, CheckContent, Stop
  <2>4. CASE OpenTable \/ StartEntry \/ OpenFooter  BY <2>4 DEF OpenTable, StartEntry, OpenFooter, Stop
  <2>5. CASE \E i \in DOMAIN tables : Place(i) \/ Misplaced(i)  BY <2>5 DEF Place, Misplaced, Stop
  <2>6. CASE UNCHANGED vars  BY <2>6 DEF vars
  <2> QED  BY <2>1, <2>2, <2>3, <2>4, <2>5, <2>6 DEF Next
<1>2. CASE kind # "number"  BY <1>1, <1>2 DEF OneNumber
<1>3. CASE kind = "number" /\ Next
  <2>1. stage = "number" /\ (Unread \/ Taken) /\ Going  BY <1>3, OnlyGoing DEF OneNumber
  <2> QED  BY <1>3, <2>1, UnreadSteps, TakenSteps
<1>4. CASE UNCHANGED vars
  <2>1. UNCHANGED <<file, kind, pos, end, stage, todo, digits, read, outcome>>  BY <1>4 DEF vars
  <2>2. /\ Going' <=> Going
        /\ Unread' <=> Unread
        /\ Taken' <=> Taken
        /\ NumbersAreExact' <=> NumbersAreExact
    <3>1. Going' <=> Going  BY <2>1 DEF Going
    <3>2. Unread' <=> Unread  BY <2>1 DEF Unread, Started
    <3>3. Taken' <=> Taken  BY <2>1 DEF Taken, Acceptable, Groups
    <3>4. NumbersAreExact' <=> NumbersAreExact  BY <2>1 DEF NumbersAreExact, Acceptable, Groups, Going
    <3> QED  BY <3>1, <3>2, <3>3, <3>4
  <2> QED  BY <2>1, <2>2 DEF OneNumber
<1> QED  BY <1>2, <1>3, <1>4

LEMMA UnderWayBegins == Init => UnderWay
<1> SUFFICES ASSUME Init PROVE UnderWay  OBVIOUS
<1>1. Typed /\ digits = NoDigits  BY InitHolds DEF IInv, Init
<1> QED  BY <1>1, NothingUnderWay

(* Whatever its bytes, a number is accepted exactly if they are the one    *)
(* way to write a number that is small enough, and then it is that number  *)
(* (readUleb128).                                                          *)
THEOREM NumbersExact == Spec => []NumbersAreExact
<1> DEFINE Inv == IInv /\ Below /\ UnderWay /\ OneNumber
<1>1. Init => Inv
  <2>1. Init => Below  BY NumberAssumption DEF Init, NoDigits, Below
  <2> QED  BY <2>1, InitHolds, UnderWayBegins, OneNumberBegins
<1>2. Inv /\ [Next]_vars => Inv'
  BY NextHolds, BelowHolds, UnderWayHolds, OneNumberHolds
<1>3. Inv => NumbersAreExact
  BY DEF OneNumber, NumbersAreExact
<1> QED  BY <1>1, <1>2, <1>3, PTL DEF Spec

-------------------------------------------------------------------------------
(* Every byte: those that the items read so far stand for are the ones     *)
(* that the reader has left behind, and no byte is of two of them.         *)
ReadType == [name : Names, value : Nat \union Seq(Bytes), at : Nat]
Exact(r) == Written(r) = SubSeq(file, r.at + 1, r.at + Len(Written(r))) /\ Len(Written(r)) \in Nat
TableBytes(i) == Place1(i) + 1 .. Place1(i) + tables[i].size

Behind(b) ==
    IF stage = "entries"
    THEN \/ b \in 1 .. content
         \/ \E i \in 1 .. current - 1 : b \in TableBytes(i)
         \/ current > 0 /\ b \in Place1(current) + 1 .. Started
    ELSE b \in 1 .. Started

Accounted ==
    /\ read \in Seq(ReadType) /\ \A i \in DOMAIN read : Exact(read[i])
    /\ \A b \in Nat : (\E i \in DOMAIN read : b \in Extent(read[i])) <=> Behind(b)
    /\ \A b \in Nat : \A i, j \in DOMAIN read : b \in Extent(read[i]) /\ b \in Extent(read[j]) => i = j

(* Where the reader is, and that the tables leave no gap.                  *)
Covered == \A b \in 1 .. total : \E i \in placed : b \in tables[i].offset + 1 .. tables[i].offset + tables[i].size
Located ==
    /\ stage = "number" <=> kind = "number"
    /\ stage = "layout" => content = pos
    /\ stage = "entries" /\ current > 0 => Started >= Place1(current)
    /\ stage = "footer" => end = Len(file)
    /\ stage # "done"

AllAccounted == (Going => Accounted /\ Located /\ Covered) /\ EveryByteIsAccountedFor

(* An item that stands right behind the last one.                          *)
LEMMA NextExtent ==
    ASSUME Typed, NEW r \in ReadType, NEW next \in Nat, r.at <= next, next <= Len(file),
           Written(r) = SubSeq(file, r.at + 1, next)
    PROVE  Exact(r) /\ Extent(r) = r.at + 1 .. next
<1>1. r.at \in Nat /\ file \in Seq(Bytes) /\ Len(file) \in Nat  BY DEF Typed, ReadType
<1> DEFINE a == r.at
           w == Written(r)
<1>2. a \in Nat /\ a <= next /\ w = SubSeq(file, a + 1, next)  BY <1>1
<1> HIDE DEF a, w
<1>3. Len(w) = next - a  BY <1>1, <1>2
<1>4. a + Len(w) = next /\ Len(w) \in Nat  BY <1>2, <1>3
<1> QED  BY <1>2, <1>4 DEF a, w, Exact, Extent

(* The next item is not one of those behind.                               *)
LEMMA NotYetBehind ==
    ASSUME IInv, Located, UnderWay, todo # <<>>, NEW next \in Nat, next <= end, NEW b \in Started + 1 .. next
    PROVE  ~ Behind(b)
<1>1. /\ pos \in Nat /\ end \in Nat /\ digits.count \in Nat /\ content \in Nat /\ current \in Nat
      /\ digits.count <= pos /\ Started \in Nat /\ b \in Nat /\ b > Started /\ b <= end
  <2>1. pos \in Nat /\ end \in Nat /\ digits.count \in Nat /\ content \in Nat /\ current \in Nat
    BY NumberAssumption DEF IInv, Typed
  <2>2. digits.count <= pos  BY DEF UnderWay
  <2>3. Started \in Nat  BY <2>1, <2>2 DEF Started
  <2> QED  BY <2>1, <2>2, <2>3
<1>2. CASE stage # "entries"  BY <1>1, <1>2 DEF Behind
<1>3. CASE stage = "entries"
  <2>1. current > 0 /\ current <= Len(tables) /\ placed = DOMAIN tables
        /\ end = Place1(current) + tables[current].size /\ Started >= Place1(current)
    BY <1>1, <1>3 DEF IInv, Staged, Located
  <2>2. current \in DOMAIN tables /\ Place1(current) \in Nat /\ tables[current].offset \in Nat /\ tables[current].size \in Nat
    BY <1>1, <2>1, PlaceIsNumber DEF IInv
  <2>3. b > Place1(current) /\ b <= Place1(current) + tables[current].size  BY <1>1, <2>1, <2>2
  <2>4. ~ (b \in 1 .. content)
    <3>1. Place1(current) >= content  BY <1>1, <2>2 DEF Place1
    <3> QED  BY <1>1, <2>2, <2>3, <3>1
  <2>5. ASSUME NEW i \in 1 .. current - 1, b \in TableBytes(i) PROVE FALSE
    <3>1. i \in Nat /\ i > 0 /\ i <= Len(tables) /\ i # current
      <4>1. Len(tables) \in Nat  BY DEF IInv, Typed
      <4> QED  BY <1>1, <2>1, <4>1
    <3>2. i \in DOMAIN tables /\ Place1(i) \in Nat /\ tables[i].offset \in Nat /\ tables[i].size \in Nat
      BY <3>1, PlaceIsNumber DEF IInv
    <3>3. \/ tables[i].offset + tables[i].size <= tables[current].offset
          \/ tables[current].offset + tables[current].size <= tables[i].offset
      BY <2>1, <2>2, <3>1, <3>2 DEF IInv, Apart
    <3>4. b > Place1(i) /\ b <= Place1(i) + tables[i].size  BY <2>5, <3>2 DEF TableBytes
    <3>5. \A c, o, m, p, n, x \in Nat :
             (o + m <= p \/ p + n <= o) /\ x > c + o /\ x <= (c + o) + m => ~ (x > c + p /\ x <= (c + p) + n)
      OBVIOUS
    <3> QED  BY <1>1, <2>2, <2>3, <3>2, <3>3, <3>4, <3>5 DEF Place1
  <2>6. ~ (b \in Place1(current) + 1 .. Started)  BY <1>1, <2>2
  <2> QED  BY <1>3, <2>4, <2>5, <2>6 DEF Behind
<1> QED  BY <1>2, <1>3

LEMMA BehindGrows ==
    ASSUME IInv, Located, UnderWay, todo # <<>>, NEW next \in Nat, Started <= next,
           UNCHANGED <<content, current, stage>>, stage = "entries" => UNCHANGED tables, Started' = next, NEW b \in Nat
    PROVE  Behind(b)' <=> Behind(b) \/ b \in Started + 1 .. next
<1>1. Started \in Nat
  <2>1. pos \in Nat /\ digits.count \in Nat  BY NumberAssumption DEF IInv, Typed
  <2> QED  BY <2>1 DEF UnderWay, Started
<1>2. \A m \in Nat : m <= Started => (b \in m + 1 .. next <=> b \in m + 1 .. Started \/ b \in Started + 1 .. next)
  BY <1>1
<1>3. CASE stage # "entries"
  <2>1. 0 \in Nat /\ 0 <= Started /\ 0 + 1 = 1  BY <1>1
  <2>2. b \in 1 .. next <=> b \in 1 .. Started \/ b \in Started + 1 .. next  BY <1>2, <2>1
  <2> QED  BY <1>3, <2>2 DEF Behind
<1>4. CASE stage = "entries"
  <2>1. current > 0 /\ current \in Nat /\ current <= Len(tables) /\ Started >= Place1(current)
    BY <1>4 DEF IInv, Typed, Staged, Located
  <2>2. Place1(current) \in Nat  BY <2>1, PlaceIsNumber DEF IInv
  <2>3. b \in Place1(current) + 1 .. next <=> b \in Place1(current) + 1 .. Started \/ b \in Started + 1 .. next
    BY <1>1, <1>2, <2>1, <2>2
  <2>4. UNCHANGED <<content, current, stage, tables>> /\ current' > 0  BY <1>4, <2>1
  <2>5. Place1(current)' = Place1(current)  BY <2>4 DEF Place1
  <2>6. \A i : TableBytes(i)' = TableBytes(i)  BY <2>4 DEF TableBytes, Place1
  <2>7. Behind(b)' <=> \/ b \in 1 .. content
                       \/ \E i \in 1 .. current - 1 : b \in TableBytes(i)
                       \/ b \in Place1(current) + 1 .. next
    BY <1>4, <2>1, <2>4, <2>5, <2>6 DEF Behind
  <2>8. Behind(b) <=> \/ b \in 1 .. content
                      \/ \E i \in 1 .. current - 1 : b \in TableBytes(i)
                      \/ b \in Place1(current) + 1 .. Started
    BY <1>4, <2>1 DEF Behind
  <2> QED  BY <2>3, <2>7, <2>8
<1> QED  BY <1>3, <1>4

LEMMA ItemAccounted ==
    ASSUME IInv, Located, UnderWay, Accounted, todo # <<>>,
           NEW r \in ReadType, NEW next \in Nat, r.at = Started, Started <= next, next <= end,
           Written(r) = SubSeq(file, Started + 1, next), read' = Append(read, r), Started' = next,
           UNCHANGED <<file, content, current, stage>>, stage = "entries" => UNCHANGED tables
    PROVE  Accounted'
<1> DEFINE n == Len(read) + 1
<1>1. Typed /\ next <= Len(file)  BY DEF IInv, Typed
<1>2. Exact(r) /\ Extent(r) = Started + 1 .. next  BY <1>1, NextExtent
<1>3. read \in Seq(ReadType) /\ Len(read) \in Nat  BY DEF Accounted
<1>4. /\ read' \in Seq(ReadType) /\ DOMAIN read' = 1 .. n
      /\ read'[n] = r /\ \A i \in 1 .. Len(read) : read'[i] = read[i]
  BY <1>3
<1>5. /\ n \in 1 .. n /\ \A i \in 1 .. n : i = n \/ i \in 1 .. Len(read)
      /\ DOMAIN read = 1 .. Len(read) /\ \A i \in 1 .. Len(read) : i \in 1 .. n
  BY <1>3
<1> HIDE DEF n
<1>6. \A x : Exact(x)' <=> Exact(x)  BY DEF Exact
<1>7. \A i \in DOMAIN read' : Exact(read'[i])
  BY <1>2, <1>4, <1>5 DEF Accounted
<1>8. \A b \in Nat : (\E i \in DOMAIN read' : b \in Extent(read'[i])) <=> Behind(b)'
  <2> SUFFICES ASSUME NEW b \in Nat PROVE (\E i \in DOMAIN read' : b \in Extent(read'[i])) <=> Behind(b)'
    OBVIOUS
  <2>1. (\E i \in DOMAIN read' : b \in Extent(read'[i])) <=> (\E i \in DOMAIN read : b \in Extent(read[i])) \/ b \in Extent(r)
    BY <1>4, <1>5
  <2>2. (\E i \in DOMAIN read : b \in Extent(read[i])) <=> Behind(b)  BY DEF Accounted
  <2>3. Behind(b)' <=> Behind(b) \/ b \in Started + 1 .. next  BY BehindGrows
  <2> QED  BY <1>2, <2>1, <2>2, <2>3
<1>9. ASSUME NEW b \in Nat, NEW i \in 1 .. n, NEW j \in 1 .. n, b \in Extent(read'[i]), b \in Extent(read'[j])
      PROVE  i = j
  <2>1. b \in Extent(r) => ~ Behind(b)  BY <1>2, NotYetBehind
  <2>2. \A k \in DOMAIN read : b \in Extent(read[k]) => Behind(b)  BY DEF Accounted
  <2>3. CASE i = n /\ j = n  BY <2>3
  <2>4. CASE i = n /\ j # n  BY <1>4, <1>5, <1>9, <2>1, <2>2, <2>4
  <2>5. CASE i # n /\ j = n  BY <1>4, <1>5, <1>9, <2>1, <2>2, <2>5
  <2>6. CASE i # n /\ j # n
    <3>1. i \in DOMAIN read /\ j \in DOMAIN read /\ b \in Extent(read[i]) /\ b \in Extent(read[j])
      BY <1>4, <1>5, <1>9, <2>6
    <3> QED  BY <3>1 DEF Accounted
  <2> QED  BY <2>3, <2>4, <2>5, <2>6
<1>10. \A b \in Nat : \A i, j \in DOMAIN read' : b \in Extent(read'[i]) /\ b \in Extent(read'[j]) => i = j
  BY <1>4, <1>9
<1> QED  BY <1>4, <1>6, <1>7, <1>8, <1>10 DEF Accounted

LEMMA RefusedIsNotAccepted ==
    /\ \A item, v : Refuses(item, v) \notin {"accepted", "reading"}
    /\ \A item : RefusesAhead(item) \notin {"accepted", "reading"}
<1>1. ASSUME NEW item, NEW v PROVE Refuses(item, v) \notin {"accepted", "reading"}
  BY DEF Refuses
<1>2. ASSUME NEW item PROVE RefusesAhead(item) \notin {"accepted", "reading"}
  BY DEF RefusesAhead
<1> QED  BY <1>1, <1>2

LEMMA StoppedAccounted ==
    ASSUME outcome' \notin {"accepted", "reading"}
    PROVE  AllAccounted'
BY DEF AllAccounted, Going, EveryByteIsAccountedFor

LEMMA StillReading ==
    ASSUME Going', Accounted', Located', Covered'
    PROVE  AllAccounted'
BY DEF AllAccounted, Going, EveryByteIsAccountedFor

LEMMA TakeAccounted ==
    ASSUME IInv, UnderWay, AllAccounted, Going, todo # <<>>,
           NEW value \in Nat \union Seq(Bytes), NEW next \in Nat, pos <= next, next <= end, Take(value, next),
           Written([name |-> Head(todo).name, value |-> value, at |-> Started]) = SubSeq(file, Started + 1, next)
    PROVE  AllAccounted'
<1> DEFINE item == Head(todo)
           r == [name |-> item.name, value |-> value, at |-> Started]
<1>1. Accounted /\ Located /\ Covered  BY DEF AllAccounted
<1>2. pos \in Nat /\ digits.count \in Nat /\ Started \in Nat /\ Started <= pos /\ item \in ItemType
  <2>1. pos \in Nat /\ digits.count \in Nat /\ item \in ItemType  BY NumberAssumption DEF IInv, Typed
  <2> QED  BY <2>1 DEF UnderWay, Started
<1>3. r \in ReadType /\ r.at = Started
  <2>1. item.name \in Names  BY <1>2 DEF ItemType
  <2> QED  BY <1>2, <2>1 DEF ReadType
<1>4. CASE Refuses(item, value) # ""
  <2>1. outcome' = Refuses(item, value)  BY <1>4 DEF Take
  <2> QED  BY <2>1, RefusedIsNotAccepted, StoppedAccounted
<1>5. CASE Refuses(item, value) = ""
  <2>1. /\ UNCHANGED <<file, kind, end, content, total, current, placed, stage, outcome>> /\ pos' = next
        /\ digits' = NoDigits /\ read' = Append(read, r)
    BY <1>5 DEF Take, Started
  <2>2. tables' = tables \/ stage = "header"  BY <1>5 DEF Take
  <2>3. Started' = next  BY <2>1 DEF Started, NoDigits
  <2>4. Started <= next /\ stage \notin {"start", "layout"}  BY <1>2 DEF IInv, Staged
  <2>5. Written(r) = SubSeq(file, Started + 1, next)  OBVIOUS
  <2> HIDE DEF r, item
  <2>6. Accounted'  BY <1>1, <1>3, <2>1, <2>2, <2>3, <2>4, <2>5, ItemAccounted
  <2>7. Located'
    <3>1. stage = "entries" /\ current > 0 => Place1(current)' = Place1(current)
      BY <2>1, <2>2 DEF Place1
    <3>2. stage = "entries" /\ current > 0 => Place1(current) \in Nat /\ Started >= Place1(current)
      BY <1>1, PlaceIsNumber DEF Located, IInv, Typed, Staged
    <3> QED  BY <1>1, <1>2, <2>1, <2>3, <2>4, <3>1, <3>2 DEF Located
  <2>8. Covered'
    <3>1. CASE stage = "header"
      <4>1. total' = 0  BY <2>1, <3>1 DEF IInv, Staged
      <4>2. 1 .. total' = {}  BY <4>1
      <4> QED  BY <4>2 DEF Covered
    <3>2. CASE stage # "header"
      <4>1. UNCHANGED <<tables, total, placed>>  BY <2>1, <2>2, <3>2
      <4> QED  BY <1>1, <4>1 DEF Covered
    <3> QED  BY <3>1, <3>2
  <2> QED  BY <2>1, <2>6, <2>7, <2>8, StillReading DEF Going
<1> QED  BY <1>4, <1>5

LEMMA SameAccounted ==
    ASSUME Accounted, UNCHANGED <<file, read>>, \A b \in Nat : Behind(b)' <=> Behind(b)
    PROVE  Accounted'
<1>1. \A x : Exact(x)' <=> Exact(x)  BY DEF Exact
<1>2. \A i \in DOMAIN read : Exact(read[i])  BY DEF Accounted
<1>3. \A i \in DOMAIN read' : Exact(read'[i])  BY <1>2
<1>4. \A b \in Nat : (\E i \in DOMAIN read' : b \in Extent(read'[i])) <=> Behind(b)'  BY DEF Accounted
<1>5. \A b \in Nat : \A i, j \in DOMAIN read' : b \in Extent(read'[i]) /\ b \in Extent(read'[j]) => i = j
  BY DEF Accounted
<1>6. read' \in Seq(ReadType)  BY DEF Accounted
<1> QED  BY <1>1, <1>3, <1>4, <1>5, <1>6 DEF Accounted

LEMMA WrittenNumber ==
    ASSUME NEW name \in DOMAIN Largest, NEW v, NEW a
    PROVE  Written([name |-> name, value |-> v, at |-> a]) = Uleb[v]
<1> DEFINE r == [name |-> name, value |-> v, at |-> a]
<1>1. r.name = name /\ r.value = v  OBVIOUS
<1>2. name \notin DOMAIN Width  BY DEF Largest, Width
<1> HIDE DEF r
<1> QED  BY <1>1, <1>2 DEF Written, r

LEMMA WrittenField ==
    ASSUME NEW name, name \notin DOMAIN Largest, NEW v, NEW a
    PROVE  Written([name |-> name, value |-> v, at |-> a])
             = IF name \in DOMAIN Width /\ Width[name] = 1 THEN <<v>> ELSE v
<1> DEFINE r == [name |-> name, value |-> v, at |-> a]
<1>1. r.name = name /\ r.value = v  OBVIOUS
<1> HIDE DEF r
<1>2. Written(r) = IF name \in DOMAIN Width /\ Width[name] = 1 THEN <<v>> ELSE v  BY <1>1 DEF Written
<1> QED  BY <1>2 DEF r

LEMMA LastDigitAccounted ==
    ASSUME IInv, Below, UnderWay, AllAccounted, LastDigit
    PROVE  AllAccounted'
<1> DEFINE v == Shifted(digits, Payload)
           n == pos + 1
           name == Head(todo).name
<1>1. /\ Typed /\ pos < end /\ ~ More /\ ~ Overflows /\ ~ Padded /\ Going /\ todo # <<>>
      /\ name \in DOMAIN Largest /\ Take(v, n)
  BY DEF IInv, LastDigit, Reading
<1>2. pos \in Nat /\ end \in Nat /\ n \in Nat /\ pos <= n /\ n <= end  BY <1>1 DEF Typed
<1>3. v \in Nat  BY <1>1, ShiftedIsNumber
<1>4. Uleb[v] = SubSeq(file, Started + 1, n)  BY <1>1, LastIsWritten
<1> HIDE DEF v, n, name
<1>5. Written([name |-> name, value |-> v, at |-> Started]) = SubSeq(file, Started + 1, n)
  BY <1>1, <1>4, WrittenNumber
<1> QED  BY <1>1, <1>2, <1>3, <1>5, TakeAccounted DEF name

LEMMA FieldAccounted ==
    ASSUME IInv, Below, UnderWay, AllAccounted, ReadField
    PROVE  AllAccounted'
<1> DEFINE item == Head(todo)
           size == SizeOf(item)
           value == FieldValue(size)
           n == pos + size
<1>1. /\ Going /\ todo # <<>> /\ item.name \notin DOMAIN Largest /\ size <= end - pos /\ Take(value, n)
  BY DEF ReadField, Reading
<1>2. Typed /\ item \in ItemType /\ item.name \in Names
  <2>1. Typed  BY DEF IInv
  <2>2. item \in ItemType  BY <1>1, <2>1 DEF Typed
  <2> QED  BY <2>1, <2>2 DEF ItemType
<1>3. size \in Nat  BY <1>2, FormatAssumption DEF SizeOf, ItemType
<1>4. pos \in Nat /\ end \in Nat /\ file \in Seq(Bytes) /\ end <= Len(file) /\ Len(file) \in Nat /\ Radix \in Nat
  BY <1>2, NumberAssumption DEF Typed
<1>5. n \in Nat /\ pos <= n /\ n <= end /\ n <= Len(file)
  <2> HIDE DEF size
  <2> QED  BY <1>1, <1>3, <1>4
<1>6. Started = pos
  <2>1. ~ (digits.count > 0)  BY <1>1 DEF UnderWay
  <2>2. digits.count \in Nat  BY <1>2, NumberAssumption DEF Typed
  <2> QED  BY <1>4, <2>1, <2>2 DEF Started
<1>7. SubSeq(file, pos + 1, n) \in Seq(Bytes)
  <2> HIDE DEF n
  <2> QED  BY <1>4, <1>5
<1>8. CASE item.name \in DOMAIN Width /\ size = 1
  <2>1. value = file[pos + 1] /\ Width[item.name] = 1  BY <1>8 DEF FieldValue, SizeOf, Byte
  <2>2. pos + 1 \in 1 .. Len(file) /\ n = pos + 1  BY <1>4, <1>5, <1>8
  <2>3. value \in Nat  BY <1>4, <2>1, <2>2, BytesAreNumbers
  <2>4. SubSeq(file, pos + 1, n) = <<value>>
    <3>1. SubSeq(file, pos + 1, pos + 1) = <<file[pos + 1]>> \o SubSeq(file, (pos + 1) + 1, pos + 1)
      <4>1. pos + 1 \in 1 .. pos + 1  BY <1>4
      <4> QED  BY <1>4, <2>2, <4>1, SubSeqStep
    <3>2. SubSeq(file, (pos + 1) + 1, pos + 1) = <<>>  BY <1>4, <2>2
    <3>3. \A x : <<x>> \o <<>> = <<x>>  OBVIOUS
    <3> QED  BY <2>1, <2>2, <3>1, <3>2, <3>3
  <2> HIDE DEF value, n, size, item
  <2>5. Written([name |-> item.name, value |-> value, at |-> Started]) = SubSeq(file, Started + 1, n)
    BY <1>1, <1>6, <1>8, <2>1, <2>4, WrittenField
  <2> QED  BY <1>1, <1>5, <2>3, <2>5, TakeAccounted DEF item
<1>9. CASE ~ (item.name \in DOMAIN Width /\ size = 1)
  <2>1. value = SubSeq(file, pos + 1, n)  BY <1>9 DEF FieldValue
  <2>2. ~ (item.name \in DOMAIN Width /\ Width[item.name] = 1)  BY <1>9 DEF SizeOf
  <2> HIDE DEF value, n, size, item
  <2>3. Written([name |-> item.name, value |-> value, at |-> Started]) = SubSeq(file, Started + 1, n)
    BY <1>1, <1>6, <2>1, <2>2, WrittenField
  <2> QED  BY <1>1, <1>5, <1>7, <2>1, <2>3, TakeAccounted DEF item
<1> QED  BY <1>8, <1>9

LEMMA MoreAccounted ==
    ASSUME IInv, UnderWay, AllAccounted, MoreDigits
    PROVE  AllAccounted'
<1>1. /\ Going /\ todo # <<>> /\ pos' = pos + 1
      /\ digits' = [value |-> Shifted(digits, Payload), count |-> digits.count + 1]
      /\ UNCHANGED <<file, kind, end, stage, read, tables, content, placed, total, current, outcome>>
  BY DEF MoreDigits, Reading
<1>2. pos \in Nat /\ digits.count \in Nat  BY NumberAssumption DEF IInv, Typed
<1>3. Started' = Started  BY <1>1, <1>2 DEF Started
<1>4. Accounted /\ Located /\ Covered /\ stage # "layout"  BY <1>1 DEF AllAccounted, IInv, Staged
<1>5. \A b \in Nat : Behind(b)' <=> Behind(b)  BY <1>1, <1>3 DEF Behind, TableBytes, Place1
<1>6. Accounted'  BY <1>1, <1>4, <1>5, SameAccounted
<1>7. Located'  BY <1>1, <1>3, <1>4 DEF Located, Place1
<1>8. Covered'  BY <1>1, <1>4 DEF Covered
<1> QED  BY <1>1, <1>6, <1>7, <1>8, StillReading DEF Going

(* Steps between items: nothing is read, and no number is under way.       *)
LEMMA LayoutAccounted ==
    ASSUME IInv, Below, UnderWay, AllAccounted, Going,
           Open \/ CheckTables \/ CheckContent \/ \E i \in DOMAIN tables : Place(i) \/ Misplaced(i)
    PROVE  AllAccounted'
<1>0. Accounted /\ Located /\ Covered /\ Typed /\ pos \in Nat /\ total \in Nat /\ content \in Nat
  BY DEF AllAccounted, IInv, Typed
<1>1. todo = <<>>
  BY DEF IInv, Staged, Open, CheckTables, CheckContent, Place, Misplaced
<1>2. digits.count = 0 /\ Started = pos  BY <1>0, <1>1, NoneUnderWay
<1>3. CASE \E why \in {"limit", "version", "layout", "duplicate", "eof"} : Stop(why)
  BY <1>3, StoppedAccounted DEF Stop
<1>4. CASE stage = "start" /\ stage' = "header"
           /\ UNCHANGED <<file, kind, pos, end, digits, read, tables, content, placed, total, current, outcome>>
  <2>1. Started' = Started  BY <1>4 DEF Started
  <2>2. \A b \in Nat : Behind(b)' <=> Behind(b)  BY <1>4, <2>1 DEF Behind
  <2>3. Accounted'  BY <1>0, <1>4, <2>2, SameAccounted
  <2>4. Located' /\ Covered'  BY <1>0, <1>4 DEF Located, Covered
  <2> QED  BY <1>4, <2>3, <2>4, StillReading DEF Going
<1>5. CASE stage = "header" /\ stage' = "layout" /\ content' = pos
           /\ UNCHANGED <<file, kind, pos, end, digits, read, tables, placed, total, current, outcome>>
  <2>1. Started' = Started  BY <1>5 DEF Started
  <2>2. \A b \in Nat : Behind(b)' <=> Behind(b)  BY <1>5, <2>1 DEF Behind
  <2>3. Accounted'  BY <1>0, <1>5, <2>2, SameAccounted
  <2>4. Located' /\ Covered'  BY <1>0, <1>5 DEF Located, Covered
  <2> QED  BY <1>5, <2>3, <2>4, StillReading DEF Going
<1>6. CASE stage = "layout" /\ stage' = "entries" /\ end' = pos
           /\ UNCHANGED <<file, kind, pos, digits, read, tables, content, placed, total, current, outcome>>
  <2>1. Started' = pos /\ content = pos /\ current = 0
    BY <1>0, <1>2, <1>6 DEF Started, Located, IInv, Staged
  <2>2. 1 .. current - 1 = {}  BY <2>1
  <2>3. \A b \in Nat : Behind(b)' <=> Behind(b)
    BY <1>2, <1>6, <2>1, <2>2 DEF Behind
  <2>4. Accounted'  BY <1>0, <1>6, <2>3, SameAccounted
  <2>5. Located' /\ Covered'  BY <1>0, <1>6, <2>1 DEF Located, Covered
  <2> QED  BY <1>6, <2>4, <2>5, StillReading DEF Going
<1>7. ASSUME NEW i \in DOMAIN tables, Place(i) PROVE AllAccounted'
  <2>1. /\ stage = "layout" /\ tables[i].offset = total /\ placed' = placed \union {i}
        /\ total' = total + tables[i].size
        /\ UNCHANGED <<file, kind, pos, end, stage, digits, read, tables, content, current, outcome>>
    BY <1>7 DEF Place
  <2>2. tables[i].size \in Nat  BY <1>0, TableFields
  <2>3. \A b \in Nat : Behind(b)' <=> Behind(b)  BY <2>1 DEF Behind, Started
  <2>4. Accounted'  BY <1>0, <2>1, <2>3, SameAccounted
  <2>5. Located'  BY <1>0, <2>1 DEF Located
  <2>6. Covered'
    <3> SUFFICES ASSUME NEW b \in 1 .. total'
                 PROVE  \E j \in placed' : b \in tables'[j].offset + 1 .. tables'[j].offset + tables'[j].size
      BY DEF Covered
    <3>1. CASE b \in 1 .. total  BY <1>0, <2>1, <3>1 DEF Covered
    <3>2. CASE b \notin 1 .. total
      <4>1. b \in total + 1 .. total + tables[i].size  BY <1>0, <2>1, <2>2, <3>2
      <4> QED  BY <2>1, <4>1
    <3> QED  BY <3>1, <3>2
  <2> QED  BY <2>1, <2>4, <2>5, <2>6, StillReading DEF Going
<1> QED
  <2>1. CASE Open
    <3>1. CASE Len(file) > Limits.file  BY <1>3, <2>1, <3>1 DEF Open
    <3>2. CASE ~ (Len(file) > Limits.file)  BY <1>4, <2>1, <3>2 DEF Open
    <3> QED  BY <3>1, <3>2
  <2>2. CASE CheckTables
    <3>1. (\E why \in {"version", "layout", "duplicate"} : Stop(why))
          \/ (/\ stage = "header" /\ stage' = "layout" /\ content' = pos
              /\ UNCHANGED <<file, kind, pos, end, digits, read, tables, placed, total, current, outcome>>)
      BY <2>2 DEF CheckTables
    <3> QED  BY <1>3, <1>5, <3>1
  <2>3. CASE CheckContent
    <3>1. (\E why \in {"eof", "limit"} : Stop(why))
          \/ (/\ stage = "layout" /\ stage' = "entries" /\ end' = pos
              /\ UNCHANGED <<file, kind, pos, digits, read, tables, content, placed, total, current, outcome>>)
      BY <2>3 DEF CheckContent
    <3> QED  BY <1>3, <1>6, <3>1
  <2>4. CASE \E i \in DOMAIN tables : Place(i) \/ Misplaced(i)
    BY <1>3, <1>7, <2>4 DEF Misplaced
  <2> QED  BY <2>1, <2>2, <2>3, <2>4

LEMMA OpenTableAccounted ==
    ASSUME IInv, Below, UnderWay, AllAccounted, Going, OpenTable
    PROVE  AllAccounted'
<1> DEFINE n == current + 1
<1>0. Accounted /\ Located /\ Covered /\ Typed /\ pos \in Nat /\ current \in Nat /\ content \in Nat
  BY DEF AllAccounted, IInv, Typed
<1>1. /\ stage = "entries" /\ todo = <<>> /\ pos = end /\ current < Len(tables) /\ current' = n
      /\ pos' = Place1(n)
      /\ UNCHANGED <<file, kind, stage, todo, digits, read, tables, content, placed, total, outcome>>
  BY DEF OpenTable, BetweenEntries, Place1
<1>2. digits.count = 0 /\ Started = pos  BY <1>0, <1>1, NoneUnderWay
<1>3. n \in Nat /\ n > 0 /\ n <= Len(tables) /\ n - 1 = current
  <2>1. Len(tables) \in Nat  BY <1>0 DEF Typed
  <2> QED  BY <1>0, <1>1, <2>1
<1>4. Place1(n) \in Nat  BY <1>0, <1>3, PlaceIsNumber
<1>5. Started' = Place1(n)  BY <1>1, <1>2, <1>4 DEF Started
<1>6. Place1(current)' = Place1(n) /\ \A i : TableBytes(i)' = TableBytes(i)
  BY <1>1 DEF Place1, TableBytes
<1> HIDE DEF n
<1>7. Place1(n) + 1 .. Place1(n) = {}  BY <1>4
<1>8. \A b \in Nat : Behind(b)' <=> b \in 1 .. content \/ \E i \in 1 .. current : b \in TableBytes(i)
  BY <1>1, <1>3, <1>5, <1>6, <1>7 DEF Behind
<1>9. \A b \in Nat : Behind(b) <=> b \in 1 .. content \/ \E i \in 1 .. current : b \in TableBytes(i)
  <2>1. CASE current = 0
    <3>1. 1 .. current = {} /\ 1 .. current - 1 = {}  BY <2>1
    <3> QED  BY <1>1, <2>1, <3>1 DEF Behind
  <2>2. CASE current > 0
    <3>1. end = Place1(current) + tables[current].size  BY <1>1, <2>2 DEF IInv, Staged
    <3>2. Place1(current) + 1 .. Started = TableBytes(current)  BY <1>1, <1>2, <3>1 DEF TableBytes
    <3>3. current \in 1 .. current /\ \A i \in 1 .. current : i = current \/ i \in 1 .. current - 1
      BY <1>0, <2>2
    <3>4. \A i \in 1 .. current - 1 : i \in 1 .. current  BY <1>0
    <3> QED  BY <1>1, <2>2, <3>2, <3>3, <3>4 DEF Behind
  <2> QED  BY <1>0, <2>1, <2>2
<1>10. Accounted'  BY <1>0, <1>1, <1>8, <1>9, SameAccounted
<1>11. Located'  BY <1>0, <1>1, <1>4, <1>5, <1>6 DEF Located
<1>12. Covered'  BY <1>0, <1>1 DEF Covered
<1> QED  BY <1>1, <1>10, <1>11, <1>12, StillReading DEF Going

LEMMA FooterAccounted ==
    ASSUME IInv, Below, UnderWay, AllAccounted, Going, OpenFooter
    PROVE  AllAccounted'
<1>0. Accounted /\ Located /\ Covered /\ Typed /\ pos \in Nat /\ current \in Nat /\ content \in Nat /\ total \in Nat
  BY DEF AllAccounted, IInv, Typed
<1>1. /\ stage = "entries" /\ stage' = "footer" /\ todo = <<>> /\ pos = end /\ current = Len(tables)
      /\ pos' = content + total /\ end' = Len(file)
      /\ UNCHANGED <<file, kind, digits, read, tables, content, placed, total, current, outcome>>
  BY DEF OpenFooter, BetweenEntries
<1>2. digits.count = 0 /\ Started = pos  BY <1>0, <1>1, NoneUnderWay
<1>3. Started' = content + total  BY <1>0, <1>1, <1>2 DEF Started
<1>4. placed = DOMAIN tables /\ DOMAIN tables = 1 .. current  BY <1>0, <1>1 DEF IInv, Staged, Typed
<1>5. \A b \in Nat : Behind(b)' <=> b \in 1 .. content + total
  BY <1>1, <1>3 DEF Behind
<1>6. \A b \in Nat : Behind(b) <=> b \in 1 .. content \/ \E i \in DOMAIN tables : b \in TableBytes(i)
  <2>1. CASE current = 0
    <3>1. 1 .. current = {} /\ 1 .. current - 1 = {}  BY <2>1
    <3> QED  BY <1>1, <1>4, <2>1, <3>1 DEF Behind
  <2>2. CASE current > 0
    <3>1. end = Place1(current) + tables[current].size  BY <1>1, <2>2 DEF IInv, Staged
    <3>2. Place1(current) + 1 .. Started = TableBytes(current)  BY <1>1, <1>2, <3>1 DEF TableBytes
    <3>3. current \in 1 .. current /\ \A i \in 1 .. current : i = current \/ i \in 1 .. current - 1
      BY <1>0, <2>2
    <3>4. \A i \in 1 .. current - 1 : i \in 1 .. current  BY <1>0
    <3> QED  BY <1>1, <1>4, <2>2, <3>2, <3>3, <3>4 DEF Behind
  <2> QED  BY <1>0, <2>1, <2>2
<1>7. \A i \in DOMAIN tables : /\ Place1(i) = content + tables[i].offset
                               /\ tables[i].offset \in Nat /\ tables[i].size \in Nat
                               /\ tables[i].offset + tables[i].size <= total
  BY <1>0, <1>4, TableFields DEF Place1, IInv, Apart
<1>8. ASSUME NEW b \in Nat PROVE Behind(b)' <=> Behind(b)
  <2>1. ASSUME NEW i \in DOMAIN tables, b \in TableBytes(i) PROVE b \in 1 .. content + total
    <3>1. /\ Place1(i) = content + tables[i].offset /\ tables[i].offset \in Nat /\ tables[i].size \in Nat
          /\ tables[i].offset + tables[i].size <= total
      BY <1>7
    <3>2. b > Place1(i) /\ b <= Place1(i) + tables[i].size  BY <1>0, <2>1, <3>1 DEF TableBytes
    <3>3. \A c, o, s, t, x \in Nat : o + s <= t /\ x > c + o /\ x <= (c + o) + s => x > 0 /\ x <= c + t
      OBVIOUS
    <3>4. b > 0 /\ b <= content + total  BY <1>0, <3>1, <3>2, <3>3
    <3> QED  BY <1>0, <3>4
  <2>2. ASSUME b \in 1 .. content + total, b \notin 1 .. content PROVE \E i \in DOMAIN tables : b \in TableBytes(i)
    <3> DEFINE c == b - content
    <3>1. c \in 1 .. total  BY <1>0, <2>2
    <3>2. b = content + c /\ c \in Nat  BY <1>0, <2>2
    <3> HIDE DEF c
    <3>3. PICK i \in placed : c \in tables[i].offset + 1 .. tables[i].offset + tables[i].size
      BY <1>0, <3>1 DEF Covered
    <3>4. i \in DOMAIN tables /\ Place1(i) = content + tables[i].offset /\ tables[i].offset \in Nat /\ tables[i].size \in Nat
      BY <1>4, <1>7
    <3>5. c > tables[i].offset /\ c <= tables[i].offset + tables[i].size  BY <3>2, <3>3, <3>4
    <3>6. b > Place1(i) /\ b <= Place1(i) + tables[i].size
      <4>1. \A m, o, s, x \in Nat : x > o /\ x <= o + s => m + x > m + o /\ m + x <= (m + o) + s  OBVIOUS
      <4> QED  BY <1>0, <3>2, <3>4, <3>5, <4>1
    <3>7. Place1(i) \in Nat  BY <1>0, <3>4
    <3>8. b \in TableBytes(i)  BY <3>4, <3>6, <3>7 DEF TableBytes
    <3> QED  BY <3>4, <3>8
  <2>3. b \in 1 .. content => b \in 1 .. content + total  BY <1>0
  <2> QED  BY <1>5, <1>6, <2>1, <2>2, <2>3
<1>9. Accounted'  BY <1>0, <1>1, <1>8, SameAccounted
<1>10. Located' /\ Covered'  BY <1>0, <1>1 DEF Located, Covered
<1> QED  BY <1>1, <1>9, <1>10, StillReading DEF Going

LEMMA EntryAccounted ==
    ASSUME IInv, AllAccounted, Going, StartEntry
    PROVE  AllAccounted'
<1>1. Accounted /\ Located /\ Covered  BY DEF AllAccounted
<1>2. CASE entries >= Limits.entries
  BY <1>2, StoppedAccounted DEF StartEntry, Stop
<1>3. CASE ~ (entries >= Limits.entries)
  <2>1. UNCHANGED <<file, kind, pos, end, stage, digits, read, tables, content, placed, total, current, outcome>>
    BY <1>3 DEF StartEntry
  <2>2. Started' = Started  BY <2>1 DEF Started
  <2>3. \A b \in Nat : Behind(b)' <=> Behind(b)  BY <2>1, <2>2 DEF Behind, TableBytes, Place1
  <2>4. Accounted'  BY <1>1, <2>1, <2>3, SameAccounted
  <2>5. Located'  BY <1>1, <2>1, <2>2 DEF Located, Place1
  <2>6. Covered'  BY <1>1, <2>1 DEF Covered
  <2> QED  BY <2>1, <2>4, <2>5, <2>6, StillReading DEF Going
<1> QED  BY <1>2, <1>3

(* Once the footer is read and no byte is left, all of them are behind.    *)
LEMMA AllBehind ==
    ASSUME Typed, Accounted, NEW size \in Nat, stage # "entries", Started = size
    PROVE  /\ \A i \in DOMAIN read : Written(read[i]) = SubSeq(file, read[i].at + 1, read[i].at + Len(Written(read[i])))
           /\ UNION {Extent(read[i]) : i \in DOMAIN read} = 1 .. size
           /\ \A i, j \in DOMAIN read : i # j => Extent(read[i]) \cap Extent(read[j]) = {}
<1>1. \A i \in DOMAIN read : Written(read[i]) = SubSeq(file, read[i].at + 1, read[i].at + Len(Written(read[i])))
  BY DEF Accounted, Exact
<1>2. \A i \in DOMAIN read : \A b \in Extent(read[i]) : b \in Nat
  <2> SUFFICES ASSUME NEW i \in DOMAIN read, NEW b \in Extent(read[i]) PROVE b \in Nat
    OBVIOUS
  <2>1. read[i] \in ReadType /\ Len(Written(read[i])) \in Nat  BY DEF Accounted, Exact
  <2>2. read[i].at \in Nat  BY <2>1 DEF ReadType
  <2> QED  BY <2>1, <2>2 DEF Extent
<1>3. \A b \in Nat : (\E i \in DOMAIN read : b \in Extent(read[i])) <=> b \in 1 .. size
  BY DEF Accounted, Behind
<1>4. UNION {Extent(read[i]) : i \in DOMAIN read} = 1 .. size
  <2>1. \A b : b \in UNION {Extent(read[i]) : i \in DOMAIN read} <=> \E i \in DOMAIN read : b \in Extent(read[i])
    OBVIOUS
  <2>2. \A b \in 1 .. size : b \in Nat  OBVIOUS
  <2>3. \A b : b \in UNION {Extent(read[i]) : i \in DOMAIN read} <=> b \in 1 .. size
    BY <1>2, <1>3, <2>1, <2>2
  <2> QED  BY <2>3
<1>5. \A i, j \in DOMAIN read : i # j => Extent(read[i]) \cap Extent(read[j]) = {}
  <2> SUFFICES ASSUME NEW i \in DOMAIN read, NEW j \in DOMAIN read, i # j,
                      NEW b \in Extent(read[i]), b \in Extent(read[j])
               PROVE  FALSE
    OBVIOUS
  <2>1. b \in Nat  BY <1>2
  <2> QED  BY <2>1 DEF Accounted
<1> QED  BY <1>1, <1>4, <1>5

LEMMA FinishAccounted ==
    ASSUME IInv, Below, UnderWay, AllAccounted, Going, Finish
    PROVE  AllAccounted'
<1>1. /\ Accounted /\ Located /\ Typed /\ pos \in Nat /\ Len(file) \in Nat
      /\ todo = <<>> /\ stage \in {"footer", "number"}
  BY DEF AllAccounted, IInv, Typed, Finish
<1>2. Started = pos  BY <1>1, NoneUnderWay
<1>3. CASE stage = "footer" /\ pos # end
  BY <1>3, StoppedAccounted DEF Finish, Stop
<1>4. CASE ~ (stage = "footer" /\ pos # end)
  <2>1. outcome' = "accepted" /\ UNCHANGED <<file, kind, pos, read>>  BY <1>4 DEF Finish, Stop
  <2> DEFINE size == IF kind = "number" THEN pos ELSE Len(file)
  <2>2. size \in Nat /\ Started = size /\ stage # "entries"  BY <1>1, <1>2, <1>4 DEF Located
  <2>3. size' = size  BY <2>1
  <2> HIDE DEF size
  <2>4. /\ \A i \in DOMAIN read : Written(read[i]) = SubSeq(file, read[i].at + 1, read[i].at + Len(Written(read[i])))
        /\ UNION {Extent(read[i]) : i \in DOMAIN read} = 1 .. size
        /\ \A i, j \in DOMAIN read : i # j => Extent(read[i]) \cap Extent(read[j]) = {}
    BY <1>1, <2>2, AllBehind
  <2>5. EveryByteIsAccountedFor'
    <3>1. \A i \in DOMAIN read' : Written(read'[i]) = SubSeq(file', read'[i].at + 1, read'[i].at + Len(Written(read'[i])))
      BY <2>1, <2>4
    <3>2. UNION {Extent(read'[i]) : i \in DOMAIN read'} = 1 .. size'
      BY <2>1, <2>3, <2>4
    <3>3. \A i, j \in DOMAIN read' : i # j => Extent(read'[i]) \cap Extent(read'[j]) = {}
      BY <2>1, <2>4
    <3> QED  BY <3>1, <3>2, <3>3 DEF EveryByteIsAccountedFor, size
  <2>6. ~ Going'  BY <2>1 DEF Going
  <2> QED  BY <2>5, <2>6 DEF AllAccounted
<1> QED  BY <1>3, <1>4

LEMMA AllAccountedBegins == Init => AllAccounted
<1> SUFFICES ASSUME Init PROVE AllAccounted  OBVIOUS
<1>1. read = <<>> /\ pos = 0 /\ digits.count = 0 /\ total = 0 /\ outcome = "reading" /\ current = 0
      /\ stage = (IF kind = "number" THEN "number" ELSE "start")
  BY DEF Init, NoDigits
<1>2. Started = 0 /\ 1 .. Started = {} /\ 1 .. total = {}  BY <1>1 DEF Started
<1>3. Accounted
  <2>1. read \in Seq(ReadType) /\ DOMAIN read = {}  BY <1>1
  <2>2. \A b \in Nat : ~ Behind(b)  BY <1>1, <1>2 DEF Behind
  <2> QED  BY <2>1, <2>2 DEF Accounted
<1>4. Located /\ Covered  BY <1>1, <1>2 DEF Located, Covered
<1>5. EveryByteIsAccountedFor  BY <1>1 DEF EveryByteIsAccountedFor
<1> QED  BY <1>3, <1>4, <1>5 DEF AllAccounted

LEMMA AllAccountedHolds == IInv /\ Below /\ UnderWay /\ AllAccounted /\ [Next]_vars => AllAccounted'
<1> SUFFICES ASSUME IInv, Below, UnderWay, AllAccounted, [Next]_vars PROVE AllAccounted'
  OBVIOUS
<1>1. CASE Next
  <2>0. Going  BY <1>1, OnlyGoing
  <2>1. CASE Open \/ CheckTables \/ CheckContent \/ \E i \in DOMAIN tables : Place(i) \/ Misplaced(i)
    BY <2>0, <2>1, LayoutAccounted
  <2>2. CASE Ahead
    <3>1. outcome' = RefusesAhead(Head(todo))  BY <2>2 DEF Ahead, Stop
    <3> QED  BY <3>1, RefusedIsNotAccepted, StoppedAccounted
  <2>3. CASE OutOfBytes \/ BadNumber \/ FieldOutOfBytes
    BY <2>3, StoppedAccounted DEF OutOfBytes, BadNumber, FieldOutOfBytes, Stop
  <2>4. CASE MoreDigits  BY <2>4, MoreAccounted
  <2>5. CASE LastDigit  BY <2>5, LastDigitAccounted
  <2>6. CASE ReadField  BY <2>6, FieldAccounted
  <2>7. CASE OpenTable  BY <2>0, <2>7, OpenTableAccounted
  <2>8. CASE StartEntry  BY <2>0, <2>8, EntryAccounted
  <2>9. CASE OpenFooter  BY <2>0, <2>9, FooterAccounted
  <2>10. CASE Finish  BY <2>0, <2>10, FinishAccounted
  <2> QED  BY <1>1, <2>1, <2>2, <2>3, <2>4, <2>5, <2>6, <2>7, <2>8, <2>9, <2>10 DEF Next
<1>2. CASE UNCHANGED vars
  <2>1. UNCHANGED <<file, kind, pos, end, stage, digits, read, tables, content, placed, total, current, outcome>>
    BY <1>2 DEF vars
  <2>2. Started' = Started /\ (Going' <=> Going)  BY <2>1 DEF Started, Going
  <2>3. ASSUME Going PROVE Accounted' /\ Located' /\ Covered'
    <3>1. Accounted /\ Located /\ Covered  BY <2>3 DEF AllAccounted
    <3>2. \A b \in Nat : Behind(b)' <=> Behind(b)  BY <2>1, <2>2 DEF Behind, TableBytes, Place1
    <3>3. Accounted'  BY <2>1, <3>1, <3>2, SameAccounted
    <3>4. Located'  BY <2>1, <2>2, <3>1 DEF Located, Place1
    <3>5. Covered'  BY <2>1, <3>1 DEF Covered
    <3> QED  BY <3>3, <3>4, <3>5
  <2>4. EveryByteIsAccountedFor'
    <3>1. EveryByteIsAccountedFor  BY DEF AllAccounted
    <3> QED  BY <2>1, <3>1 DEF EveryByteIsAccountedFor
  <2> QED  BY <2>2, <2>3, <2>4 DEF AllAccounted
<1> QED  BY <1>1, <1>2

(* Of every file that is accepted, whatever its tables and the limits, the *)
(* items that were read, written again, are what stands at their places,   *)
(* and every byte belongs to exactly one (loadModule, loadScript).         *)
THEOREM EveryByteAccounted == Spec => []EveryByteIsAccountedFor
<1> DEFINE Inv == IInv /\ Below /\ UnderWay /\ AllAccounted
<1>1. Init => Inv
  <2>1. Init => Below  BY NumberAssumption DEF Init, NoDigits, Below
  <2> QED  BY <2>1, InitHolds, UnderWayBegins, AllAccountedBegins
<1>2. Inv /\ [Next]_vars => Inv'
  BY NextHolds, BelowHolds, UnderWayHolds, AllAccountedHolds
<1>3. Inv => EveryByteIsAccountedFor
  BY DEF AllAccounted
<1> QED  BY <1>1, <1>2, <1>3, PTL DEF Spec
=============================================================================
