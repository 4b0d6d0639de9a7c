-------------------------------- MODULE Console --------------------------------
(***************************************************************************)
(* The web console (src/web/src): what its parts are built on.  The routes  *)
(* (app/App.tsx) mount one page at a time under a shell that is always       *)
(* there; each part of the console has a module and a variable of its own.   *)
(* A module says what its part does when the route changes, and WebConsole   *)
(* puts the parts together.                                                  *)
(*                                                                         *)
(* React runs the handlers of one event to the end and then renders.  A step *)
(* is one handler, one effect or one answer from the server; a render is no  *)
(* step, since what is rendered is a function of the state.                  *)
(***************************************************************************)
EXTENDS Integers, FiniteSets

CONSTANTS
    Visited,    \* the pages the admin visits
    Texts       \* what is typed into search boxes and carried by links; "" is none

AllPages ==
    {"dashboard", "subscriptions", "subscription", "nodes", "groups", "keyword-groups",
     "credentials", "stats", "operation-logs", "proxy-request-logs", "system", "settings"}

ASSUME VisitedAssumption == Visited \subseteq AllPages /\ Visited # {}

ASSUME TextsAssumption == "" \in Texts

VARIABLES
    route,          \* the page shown, and the search parameter of its URL
    search,         \* the search box of the shell: SearchBox
    list,           \* a page of nodes or logs: PagedList
    dialog,         \* the form of subscriptions, groups and rules: RecordDialog
    credentials,    \* the credentials page: CredentialsPage
    store           \* a query in the cache of server data: QueryStore

Routes == [page : Visited, param : Texts]

===============================================================================
