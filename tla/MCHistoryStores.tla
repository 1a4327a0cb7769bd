--------------------------- MODULE MCHistoryStores ---------------------------
(* Two servers over the same two databases.  Two reads do not disturb each    *)
(* other, so one server reads and purges, and the other deletes and purges.   *)
(* One search has images, the result of the other cannot be saved.            *)
EXTENDS HistoryStores, TLC

MCPaths == [v \in Servers |-> <<"run", "other">>]
MCAsked == "v1" :> {"get", "list", "purge"} @@ "v2" :> {"delete", "purge"}
MCResultOf ==
  [with |-> [mode |-> "on", schema |-> 3, conditions |-> 1, products |-> 1, limit |-> 2, bound |-> TRUE, png |-> TRUE],
   over |-> [mode |-> "on", schema |-> 2, conditions |-> 0, products |-> 3, limit |-> 2, bound |-> TRUE, png |-> TRUE]]
===============================================================================
