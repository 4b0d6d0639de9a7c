----------------------------- MODULE CredentialsPage -----------------------------
(***************************************************************************)
(* The credentials page: a dialog to create a credential, one to edit its    *)
(* scope, one to reset its password, and the commands to try it with, shown  *)
(* once.  Its mutations go on when a dialog is closed or the page is left,   *)
(* and their answers act on the page as it is when they arrive.              *)
(***************************************************************************)
EXTENDS Console, CredentialScope

CONSTANTS
    Ids,            \* of credentials
    NoId,           \* none, or a new credential
    MaxRequests     \* BOUND on the requests in flight

ASSUME IdsAssumption == NoId \notin Ids /\ MaxRequests \in Nat

(* complete: a username and a password are given.  of: history, the          *)
(* credential the form was begun from, or the new password was typed for; no  *)
(* password is typed while the latter is NoId.  created: whose commands are   *)
(* shown with their password, once.                                           *)
ClosedEdit == [id |-> NoId, of |-> NoId, form |-> DefaultScope]

NoPage == [create |-> [open |-> FALSE, complete |-> FALSE, form |-> DefaultScope],
           edit |-> ClosedEdit,
           reset |-> [id |-> NoId, of |-> NoId],
           created |-> NoId, commands |-> NoId, confirm |-> NoId]

(* What is in flight, by kind, credential and what is sent.                  *)
Requests == [kind : {"create", "edit", "toggle", "reset", "delete"}, id : Ids \cup {NoId},
             of : Ids \cup {NoId}, scope : Scopes, mine : BOOLEAN]

NoCredentials == [ui |-> NoPage, requests |-> {}]

ui == credentials.ui

CredentialsOnly == UNCHANGED <<route, search, list, dialog, store>>

CredentialsVisits(page) ==
    credentials' = IF page = route.page THEN credentials
                   ELSE [ui |-> NoPage,
                         requests |-> {[r EXCEPT !.mine = FALSE] : r \in credentials.requests}]

(* No dialog covers the page.                                                *)
Uncovered ==
    /\ route.page = "credentials"
    /\ ~ui.create.open
    /\ {ui.edit.id, ui.reset.id, ui.created, ui.commands, ui.confirm} = {NoId}

Shows(page) == credentials' = [credentials EXCEPT !.ui = page] /\ CredentialsOnly

Pending(kind) == \E r \in credentials.requests : r.mine /\ r.kind = kind

Sends(kind, id, of, scope) ==
    /\ Cardinality(credentials.requests) < MaxRequests
    /\ credentials' = [credentials EXCEPT !.requests =
            @ \cup {[kind |-> kind, id |-> id, of |-> of, scope |-> scope, mine |-> TRUE]}]
    /\ CredentialsOnly

-------------------------------------------------------------------------------
OpenCreateCredential ==
    /\ Uncovered
    /\ Shows([ui EXCEPT !.create = [NoPage.create EXCEPT !.open = TRUE]])

(* The list was read in two statements, rows and bindings: they need not fit. *)
OpenEditCredential ==
    /\ Uncovered
    /\ \E id \in Ids, listed \in Scopes : \E form \in NormalizeScope(listed) :
        Shows([ui EXCEPT !.edit = [id |-> id, of |-> id, form |-> form]])

OpenReset ==
    /\ Uncovered
    /\ \E id \in Ids : Shows([ui EXCEPT !.reset.id = id])

ShowCommands ==
    /\ Uncovered
    /\ \E id \in Ids : Shows([ui EXCEPT !.commands = id])

ToggleCredential ==
    /\ Uncovered
    /\ \E id \in Ids : Sends("toggle", id, id, DefaultScope)

AskToDelete ==
    /\ Uncovered
    /\ \E id \in Ids : Shows([ui EXCEPT !.confirm = id])

-------------------------------------------------------------------------------
EditFields ==
    \/ /\ ui.create.open
       /\ \E form \in Edits(ui.create.form) : Shows([ui EXCEPT !.create.form = form])
    \/ /\ ui.edit.id # NoId
       /\ \E form \in Edits(ui.edit.form) : Shows([ui EXCEPT !.edit.form = form])

TypeLogin ==
    \/ ui.create.open /\ Shows([ui EXCEPT !.create.complete = ~@])
    \/ ui.reset.id # NoId /\ Shows([ui EXCEPT !.reset.of = IF @ = NoId THEN ui.reset.id ELSE NoId])

(* Cancelling keeps the draft of a new credential, and a password typed for   *)
(* a reset; the former is reset when the dialog opens, the latter is not.     *)
CloseDialog ==
    \/ ui.create.open /\ Shows([ui EXCEPT !.create.open = FALSE])
    \/ ui.edit.id # NoId /\ Shows([ui EXCEPT !.edit = ClosedEdit])
    \/ ui.reset.id # NoId /\ Shows([ui EXCEPT !.reset.id = NoId])
    \/ ui.created # NoId /\ Shows([ui EXCEPT !.created = NoId])
    \/ ui.commands # NoId /\ Shows([ui EXCEPT !.commands = NoId])
    \/ ui.confirm # NoId /\ Shows([ui EXCEPT !.confirm = NoId])

SubmitCreate ==
    /\ ui.create.open /\ ui.create.complete
    /\ ~ScopeError(ui.create.form) /\ ~Pending("create")
    /\ \E scope \in NormalizeScope(ui.create.form) : Sends("create", NoId, NoId, scope)

SubmitEdit ==
    /\ ui.edit.id # NoId
    /\ ~ScopeError(ui.edit.form) /\ ~Pending("edit")
    /\ \E scope \in NormalizeScope(ui.edit.form) : Sends("edit", ui.edit.id, ui.edit.of, scope)

(* The password may have been typed for a reset that was cancelled.          *)
SubmitReset ==
    /\ ui.reset.id # NoId /\ ui.reset.of # NoId
    /\ Sends("reset", ui.reset.id, ui.reset.of, DefaultScope)

ConfirmDelete ==
    /\ ui.confirm # NoId
    /\ Cardinality(credentials.requests) < MaxRequests
    /\ credentials' = [ui |-> [ui EXCEPT !.confirm = NoId],
                       requests |-> credentials.requests \cup
                           {[kind |-> "delete", id |-> ui.confirm, of |-> ui.confirm,
                             scope |-> DefaultScope, mine |-> TRUE]}]
    /\ CredentialsOnly

-------------------------------------------------------------------------------
(* Mutant: the answer to an edit closes the dialog by its form only.         *)
MutantAfterEdit(page) == [page EXCEPT !.edit.form = DefaultScope, !.edit.of = NoId]

AfterEdit(page) == [page EXCEPT !.edit = ClosedEdit]

AfterCreate(page, id) == [page EXCEPT !.create = NoPage.create, !.created = id]

(* The commands are shown if the list still has the credential.              *)
AfterReset(page, id) ==
    {[page EXCEPT !.reset = NoPage.reset], [page EXCEPT !.reset = NoPage.reset, !.created = id]}

AfterAnswer(r) ==
    IF ~r.mine THEN {ui}
    ELSE CASE r.kind = "create" -> {AfterCreate(ui, id) : id \in Ids}
           [] r.kind = "edit" -> {AfterEdit(ui)}
           [] r.kind = "reset" -> AfterReset(ui, r.id)
           [] OTHER -> {ui}

RequestSucceeds ==
    /\ \E r \in credentials.requests : \E page \in AfterAnswer(r) :
        credentials' = [ui |-> page, requests |-> credentials.requests \ {r}]
    /\ CredentialsOnly

RequestFails ==
    /\ \E r \in credentials.requests :
        credentials' = [credentials EXCEPT !.requests = @ \ {r}]
    /\ CredentialsOnly

CredentialsNext ==
    \/ OpenCreateCredential
    \/ OpenEditCredential
    \/ OpenReset
    \/ ShowCommands
    \/ ToggleCredential
    \/ AskToDelete
    \/ EditFields
    \/ TypeLogin
    \/ CloseDialog
    \/ SubmitCreate
    \/ SubmitEdit
    \/ SubmitReset
    \/ ConfirmDelete
    \/ RequestSucceeds
    \/ RequestFails

-------------------------------------------------------------------------------
Pages ==
    [create : [open : BOOLEAN, complete : BOOLEAN, form : Scopes],
     edit : [id : Ids \cup {NoId}, of : Ids \cup {NoId}, form : Scopes],
     reset : [id : Ids \cup {NoId}, of : Ids \cup {NoId}],
     created : Ids \cup {NoId}, commands : Ids \cup {NoId}, confirm : Ids \cup {NoId}]

CredentialsTypeOK ==
    /\ credentials = [ui |-> credentials.ui, requests |-> credentials.requests]
    /\ ui \in Pages
    /\ credentials.requests \subseteq Requests

(* Whatever the admin put together, and however the list they started from    *)
(* was torn, the service stores the scope that was sent as it is: it never    *)
(* refuses it, and never drops a binding or changes the policy on its own.    *)
SentScopesAreStored ==
    \A r \in credentials.requests : r.kind \in {"create", "edit"} => StoredAsSent(r.scope)

(* The saves of an edit carry the scope of the credential they change.  A     *)
(* reset may carry a password that was typed for another.                     *)
EditsGoToTheirCredential ==
    /\ ui.edit.id = ui.edit.of
    /\ \A r \in credentials.requests : r.kind = "edit" => r.id = r.of

===============================================================================
