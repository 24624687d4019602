--------------------------- MODULE MCSellerMerge ---------------------------
(* An instance of SellerMerge for TLC.                                      *)
EXTENDS SellerMerge, TLC

(* The second of two sellers is there; batches of the first bring an        *)
(* account, whose upsert keeps the seller, and a source, whose upsert       *)
(* overwrites it.  The second is also seen again, with a source of a site   *)
(* that both have; batches without a seller bring the sources, too.         *)
Sellers2 == {1, 2}
Links2   == {"account", "source", "site"}
Tables2  == [account |-> "marketplace_accounts", source |-> "sources", site |-> "sources"]
SellerOf == [first |-> 1, second |-> 2]
Nothing  == [core |-> <<>>, contacts |-> <<>>, operations |-> <<>>, history |-> <<>>]
Brought  ==
  [first |-> [Nothing EXCEPT !.core = <<"account">>, !.operations = <<"source">>],
   second |-> [Nothing EXCEPT !.operations = <<"site">>]]
Alone    == {<<1, "source">>, <<1, "site">>, <<NoSeller, "site">>}

Alike(domain, name) ==
  [domain |-> domain, name |-> name, contacts |-> 0, country |-> "unknown", city |-> "none"]

(* The first is found to be the second for sure, perhaps, or not at all;    *)
(* the second to be the first, perhaps.                                     *)
Likenesses ==
  <<<<{}, {Alike("same", "exact"), Alike("same", "high"), Alike("none", "high")}>>,
    <<{Alike("same", "high")}, {}>>>>

Alternatives == Permutations(Operators) \cup Permutations(Importers)
=============================================================================
