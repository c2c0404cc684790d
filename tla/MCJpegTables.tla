---------------------------- MODULE MCJpegTables ----------------------------
(* Instance of JpegTables: AC symbols (run << 4) + size; any mix of rare    *)
(* and frequent ones, and more symbols with counts in descending order.     *)
EXTENDS JpegTables

CONSTANTS FewSymbols, Symbols, Frequencies, Rarer

AnyOrder == {[s \in Symbols |-> IF s \in FewSymbols THEN c[s] ELSE 0] :
               c \in [FewSymbols -> Frequencies]}
Descending == {c \in [Symbols -> Frequencies \union Rarer] :
                 \A s, q \in Symbols : s < q => c[s] >= c[q]}

Gathered == {c \in AnyOrder \union Descending : \E s \in Symbols : c[s] > 0}
=============================================================================
