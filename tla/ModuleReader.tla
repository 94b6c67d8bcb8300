----------------------------- MODULE ModuleReader -----------------------------
(***************************************************************************)
(* Reading a Move binary (loader.cpp, module_loader.cpp, binary_reader.cpp)*)
(* one item at a time: the header with its tables, the check of their      *)
(* layout, the entries of each table and the footer.  todo holds the items *)
(* still to be read, in place of the stack of calls of the parser.         *)
(***************************************************************************)
EXTENDS MoveFormat, FiniteSets

CONSTANTS
    Jobs,       \* what is read: [file |-> bytes, kind |-> "module", "script" or "number"]
    Radix,      \* 2^7: how many values a byte of a ULEB128 adds
    MaxBytes,   \* 10: the longest ULEB128
    LastMax,    \* 1: the largest payload of its last byte
    Weight,     \* 2^(7 i): what the payload of byte i counts
    Limits      \* ParserLimits

ASSUME JobsAssumption == \A job \in Jobs : job.file \in Seq(0 .. 2 * Radix - 1)
ASSUME NumberAssumption ==
    /\ Radix \in Nat /\ Radix > 1 /\ MaxBytes \in Nat /\ MaxBytes > 1
    /\ LastMax \in Nat /\ LastMax < Radix
    /\ Weight \in [0 .. MaxBytes - 1 -> Nat] /\ Weight[0] = 1
    /\ \A i \in 0 .. MaxBytes - 2 : Weight[i + 1] = Radix * Weight[i]
    /\ \A i \in 0 .. MaxBytes - 1 : Weight[i] <= Weight[MaxBytes - 1]

VARIABLES
    file, kind,
    pos, end,       \* bytes taken, and the end of the reader's range
    stage,          \* "start", "header", "layout", "entries", "footer", "number", "done"
    todo,           \* items to be read
    digits,         \* the number being read: its value so far and its bytes
    read,           \* what was read, in order
    header,         \* kind and offset of the table header being read
    tables,         \* the table headers
    content,        \* where the tables begin
    placed, total,  \* tables found contiguous, and their size
    current,        \* the table whose entries are read
    entries, types, instructions,   \* counted against the limits
    outcome         \* "reading", "accepted" or the kind of error

vars == <<file, kind, pos, end, stage, todo, digits, read, header, tables, content, placed, total, current,
          entries, types, instructions, outcome>>

(* Numbers are kept in 64 bits: MaxBytes - 1 full payloads and the last one. *)
Capacity == (LastMax + 1) * Weight[MaxBytes - 1]
Shifted(so_far, payload) == (so_far.value + payload * Weight[so_far.count]) % Capacity

NoDigits == [value |-> 0, count |-> 0]
Going == outcome = "reading"
Byte(i) == file[i + 1]

Stop(why) ==
    /\ outcome' = why /\ stage' = "done"
    /\ UNCHANGED <<file, kind, pos, end, todo, digits, read, header, tables, content, placed, total, current, entries, types, instructions>>

-------------------------------------------------------------------------------
(* What an item may be, once its value is known. *)
Version == IF Len(read) >= 2 /\ read[1].name = "magic" THEN read[2].value[1] ELSE 10

(* The bits of the Aptos flavour are masked out of the top byte. *)
Unmasked(byte) == byte - (IF (byte \div 2) % 2 = 1 THEN 2 ELSE 0) - (IF (byte \div 8) % 2 = 1 THEN 8 ELSE 0)
SupportedVersion(v) == v[1] \in 5 .. 10 /\ v[2] = 0 /\ v[3] = 0 /\ Unmasked(v[4]) = 0

Letter(c) == c \in 65 .. 90 \union 97 .. 122
Digit(c) == c \in 48 .. 57
NameOK(s) ==
    LET self == <<60, 83, 69, 76, 70, 62>> IN      \* <SELF>
    IF Len(s) > 7 /\ SubSeq(s, 1, 7) = self \o <<95>>
    THEN \A i \in 8 .. Len(s) : Digit(s[i])
    ELSE \/ s = self
         \/ /\ Len(s) > 0
            /\ Letter(s[1]) \/ (s[1] \in {95, 36} /\ Len(s) > 1)
            /\ \A i \in 2 .. Len(s) : Letter(s[i]) \/ Digit(s[i]) \/ s[i] \in {95, 36}
            /\ Version < 9 => \A i \in 1 .. Len(s) : s[i] # 36

Counts == (DOMAIN Elements \ {"tables"}) \union {"typeArguments", "argumentCount", "resultCount"}
LimitOf(name) ==
    CASE name = "tables" -> Limits.tables
      [] name = "code" -> Limits.code
      [] name = "signature" -> Limits.signature
      [] name = "identifier" -> Limits.name
      [] name \in Blobs -> Limits.blob
      [] OTHER -> Limits.list

(* Why a value is refused, or "". *)
Refuses(item, v) ==
    CASE item.name \in DOMAIN Largest /\ v > Largest[item.name] -> "range"
      [] item.name \in Counts \union Blobs \union {"tables", "identifier"} /\ v > LimitOf(item.name) -> "limit"
      [] item.name = "code" /\ v > Limits.instructions - instructions -> "limit"
      [] item.name = "typeArguments" /\ v = 0 -> "malformed"
      [] item.name = "magic" /\ v # <<161, 28, 235, 11>> -> "magic"
      [] item.name = "version" /\ ~ SupportedVersion(v) -> "version"
      [] item.name = "tableKind" /\ v \notin TableKinds -> "unknown"
      [] item.name = "name" /\ ~ NameOK(v) -> "malformed"
      [] item.name \in DOMAIN Tagged /\ v \notin DOMAIN Tagged[item.name] -> "unknown"
      [] item.name \in DOMAIN Tagged /\ Version < Tagged[item.name][v].since -> "version"
      [] OTHER -> ""

(* Why an item is refused before it is read. *)
RefusesAhead(item) ==
    CASE item.name = "type" /\ item.arg > Limits.nesting -> "limit"
      [] item.name = "type" /\ item.arg > kMaximumTypeDepth -> "malformed"
      [] item.name = "type" /\ types >= Limits.types -> "limit"
      [] OTHER -> ""

(* The first item is read: its value and the bytes it took. *)
Take(value, next) ==
    LET item == Head(todo) IN
    /\ pos' = next
    /\ digits' = NoDigits
    /\ read' = Append(read, [name |-> item.name, value |-> value, at |-> pos - digits.count])
    /\ types' = types + (IF item.name = "type" THEN 1 ELSE 0)
    /\ IF Refuses(item, value) # ""
       THEN /\ outcome' = Refuses(item, value) /\ stage' = "done"
            /\ UNCHANGED <<todo, header, tables, instructions>>
       ELSE /\ todo' = After(item, value) \o Tail(todo)
            /\ header' = CASE item.name = "tableKind" -> [header EXCEPT !.kind = value]
                           [] item.name = "tableOffset" -> [header EXCEPT !.offset = value]
                           [] OTHER -> header
            /\ tables' = IF stage = "header" /\ item.name = "tableSize"
                         THEN Append(tables, [kind |-> header.kind, offset |-> header.offset, size |-> value])
                         ELSE tables
            /\ instructions' = instructions + (IF item.name = "code" THEN value ELSE 0)
            /\ UNCHANGED <<outcome, stage>>
    /\ UNCHANGED <<file, kind, end, content, placed, total, current, entries>>

Reading(numeric) ==
    /\ Going /\ todo # <<>>
    /\ (Head(todo).name \in DOMAIN Largest) = numeric

Ahead ==
    /\ Going /\ todo # <<>>
    /\ RefusesAhead(Head(todo)) # ""
    /\ Stop(RefusesAhead(Head(todo)))

(* A byte of a ULEB128: seven bits of the number, and whether more follow. *)
Payload == Byte(pos) % Radix
More == Byte(pos) >= Radix
(* Mutant of Overflows: one bit too many is let through.                   *)
OverflowsOne == digits.count = MaxBytes - 1 /\ Payload > LastMax + 1

Overflows == digits.count = MaxBytes - 1 /\ Payload > LastMax
Padded == digits.count > 0 /\ Payload = 0 /\ ~ More

OutOfBytes ==
    /\ Reading(TRUE) /\ pos = end
    /\ Stop("eof")

BadNumber ==
    /\ Reading(TRUE) /\ pos < end
    /\ Overflows \/ Padded \/ (More /\ digits.count = MaxBytes - 1)
    /\ Stop("uleb")

MoreDigits ==
    /\ Reading(TRUE) /\ pos < end
    /\ More /\ digits.count < MaxBytes - 1
    /\ digits' = [value |-> Shifted(digits, Payload), count |-> digits.count + 1]
    /\ pos' = pos + 1
    /\ UNCHANGED <<file, kind, end, stage, todo, read, header, tables, content, placed, total, current, entries, types, instructions, outcome>>

LastDigit ==
    /\ Reading(TRUE) /\ pos < end
    /\ ~ More /\ ~ Overflows /\ ~ Padded
    /\ Take(Shifted(digits, Payload), pos + 1)

(* A field of a fixed size, or the bytes of a blob. *)
SizeOf(item) == IF item.name \in DOMAIN Width THEN Width[item.name] ELSE item.arg
FieldValue(size) == IF Head(todo).name \in DOMAIN Width /\ size = 1 THEN Byte(pos) ELSE SubSeq(file, pos + 1, pos + size)

FieldOutOfBytes ==
    /\ Reading(FALSE) /\ RefusesAhead(Head(todo)) = ""
    /\ SizeOf(Head(todo)) > end - pos
    /\ Stop("eof")

ReadField ==
    /\ Reading(FALSE) /\ RefusesAhead(Head(todo)) = ""
    /\ SizeOf(Head(todo)) <= end - pos
    /\ Take(FieldValue(SizeOf(Head(todo))), pos + SizeOf(Head(todo)))

-------------------------------------------------------------------------------
Open ==
    /\ Going /\ stage = "start"
    /\ IF Len(file) > Limits.file
       THEN Stop("limit")
       ELSE /\ stage' = "header"
            /\ todo' = Items(<<"magic", "version", "tables">>, 1)
            /\ UNCHANGED <<file, kind, pos, end, digits, read, header, tables, content, placed, total, current,
                           entries, types, instructions, outcome>>

(* The header is read: its tables are of the version and kind, and none twice or empty. *)
CheckTables ==
    /\ Going /\ stage = "header" /\ todo = <<>>
    /\ CASE \E i \in DOMAIN tables : Version < SinceVersion(tables[i].kind) -> Stop("version")
         [] \E i \in DOMAIN tables : kind = "script" /\ tables[i].kind \in ModuleOnly -> Stop("layout")
         [] \E i, j \in DOMAIN tables : i # j /\ tables[i].kind = tables[j].kind -> Stop("duplicate")
         [] \E i \in DOMAIN tables : tables[i].size = 0 -> Stop("layout")
         [] OTHER ->
               /\ stage' = "layout" /\ content' = pos
               /\ UNCHANGED <<file, kind, pos, end, todo, digits, read, header, tables, placed, total, current,
                              entries, types, instructions, outcome>>

Unplaced == DOMAIN tables \ placed
FirstUnplaced(i) == i \in Unplaced /\ \A j \in Unplaced : tables[i].offset <= tables[j].offset

(* In the order of their offsets, each table begins where the one before it ends. *)
(* Mutant of Place: tables may leave a gap.                                *)
PlaceLoose(i) ==
    /\ Going /\ stage = "layout" /\ FirstUnplaced(i)
    /\ tables[i].offset >= total
    /\ placed' = placed \union {i}
    /\ total' = total + tables[i].size
    /\ UNCHANGED <<file, kind, pos, end, stage, todo, digits, read, header, tables, content, current,
                   entries, types, instructions, outcome>>

Place(i) ==
    /\ Going /\ stage = "layout" /\ FirstUnplaced(i)
    /\ tables[i].offset = total
    /\ placed' = placed \union {i}
    /\ total' = total + tables[i].size
    /\ UNCHANGED <<file, kind, pos, end, stage, todo, digits, read, header, tables, content, current,
                   entries, types, instructions, outcome>>

Misplaced(i) ==
    /\ Going /\ stage = "layout" /\ FirstUnplaced(i)
    /\ tables[i].offset # total
    /\ Stop("layout")

CheckContent ==
    /\ Going /\ stage = "layout" /\ Unplaced = {}
    /\ CASE total > Len(file) - content -> Stop("eof")
         [] total > Limits.content -> Stop("limit")
         [] OTHER ->
               /\ stage' = "entries" /\ end' = pos
               /\ UNCHANGED <<file, kind, pos, todo, digits, read, header, tables, content, placed, total, current,
                              entries, types, instructions, outcome>>

(* Tables are decoded in the order of their headers, each until its range is used up. *)
BetweenEntries == Going /\ stage = "entries" /\ todo = <<>>

OpenTable ==
    /\ BetweenEntries /\ pos = end /\ current < Len(tables)
    /\ current' = current + 1
    /\ pos' = content + tables[current + 1].offset
    /\ end' = content + tables[current + 1].offset + tables[current + 1].size
    /\ entries' = 0
    /\ UNCHANGED <<file, kind, stage, todo, digits, read, header, tables, content, placed, total, types, instructions, outcome>>

StartEntry ==
    /\ BetweenEntries /\ pos < end
    /\ IF entries >= Limits.entries
       THEN Stop("limit")
       ELSE /\ entries' = entries + 1
            /\ todo' = Items(EntryOf(tables[current].kind, Version), 1)
            /\ UNCHANGED <<file, kind, pos, end, stage, digits, read, header, tables, content, placed, total, current,
                           types, instructions, outcome>>

OpenFooter ==
    /\ BetweenEntries /\ pos = end /\ current = Len(tables)
    /\ stage' = "footer"
    /\ pos' = content + total
    /\ end' = Len(file)
    /\ todo' = Items(IF kind = "script" THEN ScriptFooter(Version) ELSE ModuleFooter, 1)
    /\ UNCHANGED <<file, kind, digits, read, header, tables, content, placed, total, current, entries, types, instructions, outcome>>

(* Mutant of Finish: bytes after the footer are not noticed.               *)
FinishEarly ==
    /\ Going /\ stage \in {"footer", "number"} /\ todo = <<>>
    /\ Stop("accepted")

Finish ==
    /\ Going /\ stage \in {"footer", "number"} /\ todo = <<>>
    /\ Stop(IF stage = "footer" /\ pos # end THEN "malformed" ELSE "accepted")

-------------------------------------------------------------------------------
Init ==
    /\ \E job \in Jobs : file = job.file /\ kind = job.kind
    /\ pos = 0 /\ end = Len(file)
    /\ stage = (IF kind = "number" THEN "number" ELSE "start")
    /\ todo = (IF kind = "number" THEN <<Item("local", 1)>> ELSE <<>>)
    /\ digits = NoDigits /\ read = <<>>
    /\ header = [kind |-> 1, offset |-> 0] /\ tables = <<>> /\ content = 0 /\ placed = {} /\ total = 0
    /\ current = 0 /\ entries = 0 /\ types = 0 /\ instructions = 0
    /\ outcome = "reading"

Next ==
    \/ Open \/ Ahead \/ OutOfBytes \/ BadNumber \/ MoreDigits \/ LastDigit
    \/ FieldOutOfBytes \/ ReadField
    \/ CheckTables \/ CheckContent \/ OpenTable \/ StartEntry \/ OpenFooter \/ Finish
    \/ \E i \in DOMAIN tables : Place(i) \/ Misplaced(i)

Spec == Init /\ [][Next]_vars
-------------------------------------------------------------------------------
(* How a number is written: without a group of zeros at its end. *)
Uleb[v \in Nat] == IF v < Radix THEN <<v>> ELSE <<Radix + (v % Radix)>> \o Uleb[v \div Radix]
Written(r) ==
    CASE r.name \in DOMAIN Largest -> Uleb[r.value]
      [] r.name \in DOMAIN Width /\ Width[r.name] = 1 -> <<r.value>>
      [] OTHER -> r.value

(* Where in the file an item stands, as long as it is written.             *)
Extent(r) == r.at + 1 .. r.at + Len(Written(r))

(* Nothing is left over, read twice or written in two ways: what was read  *)
(* of an accepted file, written again, is what stands at its place, and    *)
(* every byte belongs to exactly one item (loadModule, loadScript,         *)
(* readUleb128).                                                           *)
EveryByteIsAccountedFor ==
    outcome = "accepted" =>
        /\ \A i \in DOMAIN read : Written(read[i]) = SubSeq(file, read[i].at + 1, read[i].at + Len(Written(read[i])))
        /\ UNION {Extent(read[i]) : i \in DOMAIN read} = 1 .. (IF kind = "number" THEN pos ELSE Len(file))
        /\ \A i, j \in DOMAIN read : i # j => Extent(read[i]) \cap Extent(read[j]) = {}

(* The numbers that the last i of the first n bytes are the groups of.     *)
Tails(bytes, n) ==
    LET from[i \in 0 .. n] == IF i = 0 THEN 0 ELSE (bytes[n + 1 - i] % Radix) + Radix * from[i - 1]
    IN  from

(* A ULEB128 is accepted exactly if its bytes are the way a number is      *)
(* written that is small enough, and that is the number (readUleb128).     *)
Groups(n) == Tails(file, n)[n]
Acceptable(n) == Groups(n) <= Largest.local /\ Groups(n) < Capacity /\ Uleb[Groups(n)] = SubSeq(file, 1, n)
NumbersAreExact ==
    (kind = "number" /\ ~ Going) =>
        IF outcome = "accepted"
        THEN Acceptable(pos) /\ read[1].value = Groups(pos)
        ELSE \A n \in 1 .. Len(file) : ~ Acceptable(n)

(* Unless it is refused, a byte adds all its bits: none is shifted out of  *)
(* the number and none falls on one that is there (readUleb128).           *)
NoBitIsLost ==
    (Reading(TRUE) /\ pos < end /\ ~ Overflows) =>
        Shifted(digits, Payload) = digits.value + Payload * Weight[digits.count] /\ digits.value < Weight[digits.count]

(* Whatever the header says, the decoder of a table reads in that table's  *)
(* bytes and no other table's, and the footer after all of them            *)
(* (validateTables, tableBytes, parseTables).                              *)
Place1(i) == content + tables[i].offset
TablesAreApart ==
    (Going /\ stage \in {"entries", "footer"}) =>
        /\ \A i \in DOMAIN tables : Place1(i) >= content /\ Place1(i) + tables[i].size <= content + total
        /\ \A i, j \in DOMAIN tables : i = j \/ Place1(i) + tables[i].size <= Place1(j) \/ Place1(j) + tables[j].size <= Place1(i)
        /\ content + total <= Len(file)
StaysInItsTable ==
    /\ pos <= end /\ end <= Len(file)
    /\ (Going /\ stage = "entries" /\ current > 0) => pos >= Place1(current) /\ end = Place1(current) + tables[current].size
    /\ (Going /\ stage = "footer") => pos >= content + total
StaysInside == TablesAreApart /\ StaysInItsTable
===============================================================================
