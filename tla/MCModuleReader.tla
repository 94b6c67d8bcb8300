---------------------------- MODULE MCModuleReader ----------------------------
(***************************************************************************)
(* Files for ModuleReader.  The samples have an entry of every kind of     *)
(* table, several of them the bytes of tests/module_loader_tests.cpp; each *)
(* is also cut off at every byte, lengthened, and changed in every byte.   *)
(***************************************************************************)
EXTENDS ModuleReader, SequencesExt

MCLimits == [file |-> 60, tables |-> 3, content |-> 45, list |-> 3, entries |-> 3, types |-> 6, nesting |-> 3,
             instructions |-> 4, code |-> 3, signature |-> 2, name |-> 9, blob |-> 2]

MCWeight == [i \in 0 .. 2 |-> 128 ^ i]

(* A sample: its tables (kind and bytes), its footer, and the version from which it is valid. *)
Tables(since, tbls) == [since |-> since, kind |-> "module", tables |-> tbls, footer |-> <<0>>]
One(since, k, bytes) == Tables(since, <<<<k, bytes>>>>)
Body(since, code) == One(since, 12, <<0, 1, 0, 1, 0, 0>> \o code)
TypeOf(since, type) == One(since, 5, <<1>> \o type)

Modules == {
    Tables(5, <<>>),
    Tables(5, <<<<1, <<0, 0>>>>, <<7, <<1, 77, 1, 102>>>>, <<5, <<0>>>>>>),
    One(5, 2, <<0, 0, 15, 2, 4, 1, 2, 0>>),
    One(5, 4, <<0, 130, 1>>),
    One(5, 6, <<10, 2, 2, 1, 200>>),
    One(5, 7, <<2, 95, 65>>), One(9, 7, <<2, 36, 97>>), One(5, 7, <<6, 60, 83, 69, 76, 70, 62>>),
    One(5, 7, <<9, 60, 83, 69, 76, 70, 62, 95, 49, 50>>),
    One(5, 8, [i \in 1 .. 32 |-> i]),
    One(5, 10, <<0, 1>>), One(5, 10, <<0, 2, 2, 0, 2, 1, 3>>), One(7, 10, <<0, 3, 2, 0, 0, 1, 1, 0, 1>>),
    One(5, 11, <<0, 0>>), One(5, 14, <<0, 0>>), One(5, 15, <<0, 0>>), One(7, 18, <<0, 0>>), One(7, 20, <<0, 0>>),
    One(5, 12, <<0, 3, 6, 1, 0>>), One(5, 12, <<0, 0, 0, 0, 0, 0>>),
    Body(5, <<2, 10, 0, 2>>), Body(5, <<1, 6, 1, 2, 3, 4, 5, 6, 7, 8>>), Body(5, <<2, 5, 1, 2>>),
    Body(5, <<1, 64, 0, 2, 0, 0, 0, 0, 0, 0, 0>>), Body(6, <<1, 72, 1, 2>>), Body(8, <<1, 88, 0, 3>>), Body(10, <<1, 104>>),
    One(5, 13, <<0, 1>>), One(5, 16, <<2, 107, 49, 0>>), One(7, 17, <<0, 1, 2, 0, 127>>), One(7, 19, <<0, 127>>),
    TypeOf(5, <<10, 11, 0, 2, 2, 3>>), TypeOf(8, <<16, 0, 2, 1, 2, 3, 1>>), TypeOf(5, <<7, 6, 9, 0>>), TypeOf(9, <<17>>)}

(* Functions of a version, with the options that came in between. *)
Functions == {
    [v |-> 6, sample |-> One(6, 3, <<0, 1, 0, 0, 1, 3>>)],
    [v |-> 7, sample |-> One(7, 3, <<0, 1, 0, 0, 0, 2, 1, 1, 2, 5, 0, 0, 3, 0, 2, 0>>)],
    [v |-> 8, sample |-> One(8, 3, <<0, 1, 0, 0, 0, 1, 1, 2>>)],
    [v |-> 10, sample |-> One(10, 3, <<0, 1, 0, 0, 0, 1, 2, 3, 4, 1, 0>>)],
    [v |-> 5, sample |-> [since |-> 5, kind |-> "script", tables |-> <<<<5, <<0>>>>>>, footer |-> <<0, 0, 0, 1, 2>>]],
    [v |-> 10, sample |-> [since |-> 8, kind |-> "script", tables |-> <<<<5, <<1, 5, 0>>>>>>,
                           footer |-> <<0, 0, 2, 1, 1, 1, 1, 3, 0, 1, 1, 1, 2>>]]}

Sizes(tbls) == [i \in DOMAIN tbls |-> Len(tbls[i][2])]
OffsetOf(tbls, i) == FoldLeft(LAMBDA a, b : a + b, 0, SubSeq(Sizes(tbls), 1, i - 1))
FileOf(s, v) ==
    <<161, 28, 235, 11, v, 0, 0, 10>> \o <<Len(s.tables)>>
    \o FlattenSeq([i \in DOMAIN s.tables |-> <<s.tables[i][1], OffsetOf(s.tables, i), Len(s.tables[i][2])>>])
    \o FlattenSeq([i \in DOMAIN s.tables |-> s.tables[i][2]])
    \o s.footer

Named == {[file |-> FileOf(s, v), kind |-> s.kind, good |-> v >= s.since] : s \in Modules, v \in 5 .. 10}
     \union {[file |-> FileOf(f.sample, f.v), kind |-> f.sample.kind, good |-> TRUE] : f \in Functions}

(* Files a writer of the format would not write. *)
Cut(job) == {[job EXCEPT !.file = SubSeq(@, 1, n)] : n \in 0 .. Len(job.file) - 1}
Longer(job) == {[job EXCEPT !.file = Append(@, 0)]}
Changed(job) == {[job EXCEPT !.file[i] = b] : i \in 5 .. Len(job.file), b \in {0, 1, 2, 4, 128}}
Spoilt == {job \in Named : job.good /\ job.file[5] \in {5, 8, 10}}

(* Types nested too deep, and too many of them. *)
Deep == {[kind |-> "module", file |-> FileOf(One(5, 5, bytes), 5)] :
            bytes \in {<<1, 10, 10, 10, 2>>, <<1, 10, 10, 2, 1, 10, 10, 2, 1, 2>>}}

(* Two tables in either order of their content, and every layout near it. *)
Layouts == {[kind |-> "module",
             file |-> <<161, 28, 235, 11, 6, 0, 0, 0, 2, 1, a, m, 5, b, n>> \o <<0, 0, 1, 1, 0, 0>>] :
               a \in 0 .. 3, b \in 0 .. 3, m \in 0 .. 3, n \in 0 .. 3}

Numbers == {[file |-> f, kind |-> "number"] : f \in UNION {[1 .. n -> {0, 1, 2, 127, 128, 129, 255}] : n \in 0 .. 4}}

MCJobs == {[file |-> j.file, kind |-> j.kind] :
              j \in Named \union Deep \union Layouts \union Numbers \union UNION {Cut(s) \union Longer(s) \union Changed(s) : s \in Spoilt}}

(* A file written as the format says is accepted from the version on that  *)
(* brought what is in it, and refused before (requireVersion,              *)
(* tableMinimumVersion, opcodeInfo); a script has no tables of a module.   *)
WrittenFilesAreRead ==
    ~ Going => \A job \in Named : file = job.file /\ kind = job.kind => (outcome = "accepted" <=> job.good)
===============================================================================
