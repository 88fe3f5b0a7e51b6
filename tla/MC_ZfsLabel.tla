----------------------------- MODULE MC_ZfsLabel -----------------------------
(* An instance of ZfsLabel for TLC. *)
EXTENDS ZfsLabel

Name(val) == [named |-> TRUE, nameLen |-> 4, typ |-> String, nelem |-> 1,
              dataLen |-> IF val = EmptyName THEN 0 ELSE 5, val |-> val]
\* With a zero byte behind the key, which makes it one that is padded.
ZeroName(val) == [Name(val) EXCEPT !.nameLen = 5]
Txg == [Name(EmptyName) EXCEPT !.named = FALSE, !.nameLen = 3, !.typ = Uint64, !.dataLen = 8]
Tree == [Txg EXCEPT !.nameLen = 9, !.typ = Nested, !.dataLen = 12]
NumberName(val) == [Name(val) EXCEPT !.typ = Uint64, !.dataLen = 8]

MCLabels == {<<Txg, ZeroName("tank")>>, <<Name(EmptyName)>>, <<Tree, Name("tank")>>,
             <<Name("tank"), NumberName("a")>>}
\* Among them the ends of the headers and of every pair of these labels.
MCReadLens == {0, 15, 16, 23, 24, 33, 44, 48, 52, 83, 84, 88, 96}
MCWords == {0, 1, 4, 9, 20, 28, 1000000}
MCDatasets == {<<"tank">>, <<"a">>, <<"tank", "a", "a">>, <<"a", "a">>}
=============================================================================
