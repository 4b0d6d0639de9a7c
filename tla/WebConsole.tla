------------------------------- MODULE WebConsole -------------------------------
(* The web console as a whole: its parts under one route.                     *)
EXTENDS SearchBox, PagedList, RecordDialog, CredentialsPage, QueryStore

Init ==
    /\ route \in Routes
    /\ search = ClosedSearch
    /\ list \in Observing(NoList, IF route.page \in DOMAIN ListPages
                                  THEN Mounted(NoList, route.page, route.param) ELSE NoList)
    /\ dialog = NoDialog
    /\ credentials = NoCredentials
    /\ \E query \in Watched :
        store = IF query \in Observed(route.page, FALSE) THEN Fetching(NewQuery(query))
                ELSE NewQuery(query)

PartsVisit(page, param) ==
    /\ route' = [page |-> page, param |-> param]
    /\ ListVisits(page, param)
    /\ DialogVisits(page)
    /\ CredentialsVisits(page)
    /\ StoreVisits(page)

(* A link of the sidebar or of a page, or the browser's history.             *)
Navigate ==
    /\ \E page \in Visited, param \in Texts :
        route # [page |-> page, param |-> param] /\ PartsVisit(page, param)
    /\ UNCHANGED search

(* A result of the search box: every page of results takes the parameter.     *)
GoToResult ==
    /\ Enter
    /\ \E page \in Visited, param \in Texts : PartsVisit(page, param)

Next ==
    \/ Navigate
    \/ GoToResult
    \/ SearchNext
    \/ ListNext
    \/ DialogNext
    \/ CredentialsNext
    \/ StoreNext

vars == <<route, search, list, dialog, credentials, store>>

Spec == Init /\ [][Next]_vars

-------------------------------------------------------------------------------
TypeOK ==
    /\ route \in Routes
    /\ SearchTypeOK /\ ListTypeOK /\ DialogTypeOK /\ CredentialsTypeOK /\ StoreTypeOK

(* However late the answers to earlier saves arrive, the form that is saved   *)
(* to a subscription, group or rule, or as the scope of a credential, was     *)
(* begun from that record - and what creates one, from nothing: none of these *)
(* is ever overwritten with the form of another, or with an empty one.  The   *)
(* reset of a password makes no such promise and is left out.                 *)
SavesGoToTheirRecord ==
    /\ \A save \in dialog.saves : save.to = save.of
    /\ EditsGoToTheirCredential

===============================================================================
