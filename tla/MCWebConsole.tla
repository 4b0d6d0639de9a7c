------------------------------ MODULE MCWebConsole ------------------------------
(* Instances of WebConsole.                                                    *)
EXTENDS WebConsole, TLC

CONSTANTS MaxEntries

(* BOUND on the cached views of lists, of which one may have failed.           *)
FewViews ==
    /\ Cardinality(DOMAIN list.entries) <= MaxEntries
    /\ Cardinality({view \in DOMAIN list.entries : list.entries[view].failed}) <= 1

(* The parts read nothing but the route, so an instance lets one of them leave *)
(* its rest at a time.  Quiet is a query that none of the pages visited reads. *)
Quiet == <<"stats", "overview">>

MCWatched == {Quiet, <<"nodes", "page">>, <<"nodes", "group">>, <<"runtime", "nodes">>}

ListAtRest ==
    /\ list \in Observing(NoList, IF list.at = "none" THEN NoList
                                  ELSE Mounted(NoList, list.at, list.param))
       \/ list = NoList

StoreAtRest == store.query = Quiet /\ store.call = NoCall /\ ~store.drawer

Moved == {part \in {"search", "list", "dialog", "credentials", "store"} :
            CASE part = "search"      -> search # ClosedSearch
              [] part = "list"        -> ~ListAtRest
              [] part = "dialog"      -> dialog # NoDialog
              [] part = "credentials" -> credentials # NoCredentials
              [] part = "store"       -> ~StoreAtRest}

(* A view differs from the first one in its text, filter, size or page; and    *)
(* while a batch is asked for or in flight, not in its text or size.           *)
OneDimension ==
    \A view \in DOMAIN list.entries :
        LET differs == {d \in {"text", "filter", "size", "page"} :
                CASE d = "text"   -> view.text # ""
                  [] d = "filter" -> view.filter # NoFilter
                  [] d = "size"   -> view.size # FirstSize
                  [] d = "page"   -> view.page # 1}
        IN  /\ Cardinality(differs) <= 1
            /\ list.confirm \/ list.batch # "none" => differs \cap {"text", "size"} = {}

(* The parameter of the route matters to the lists only, and where the admin   *)
(* goes when leaving one does not.                                             *)
OnePartMoves ==
    /\ FewViews /\ OneDimension
    /\ Cardinality(Moved) <= 1
    /\ route.page \notin DOMAIN ListPages \/ "store" \in Moved => route.param = ""
    /\ route.page \notin DOMAIN ListPages /\ "list" \in Moved => route.page = "groups"

(* Of the other sets so few states remain that the reduction costs more.      *)
Symmetry == Permutations(Ids)

===============================================================================
