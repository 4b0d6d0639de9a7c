---------------------------- MODULE WebConsoleProofs ----------------------------
(* Invariants of the web console, for any pages, texts, records and credentials *)
(* and any numbers of requests.                                                 *)
EXTENDS WebConsole, FiniteSetTheorems, SequenceTheorems, TLAPS

-------------------------------------------------------------------------------
(* The scope form of the console against what the service stores.             *)

(* What the service stores of a scope, by its mode.                           *)
LEMMA StoredByMode ==
    ASSUME NEW s \in Scopes,
           s.policy = PolicyForBindMode(s.mode, s.policy),
           \/ s.mode = "all" /\ s.bindings = {}
           \/ s.mode = "group" /\ s.bindings \subseteq Groups /\ s.bindings # {}
           \/ s.mode = "node" /\ s.bindings \subseteq Nodes /\ Cardinality(s.bindings) = 1
    PROVE  StoredAsSent(s)
<1> DEFINE range == IF s.policy = "sticky" THEN "sticky" ELSE "random"
           kept == {[mode |-> "all",   policy |-> range,   bindings |-> {}],
                    [mode |-> "group", policy |-> range,   bindings |-> s.bindings \cap Groups],
                    [mode |-> "node",  policy |-> "fixed", bindings |-> s.bindings \cap Nodes]}
<1>0. s = [mode |-> s.mode, policy |-> s.policy, bindings |-> s.bindings]
    BY DEF Scopes
<1>1. CASE s.mode = "all" /\ s.bindings = {}
    <2>1. s = [mode |-> "all", policy |-> range, bindings |-> {}]
        BY <1>0, <1>1 DEF PolicyForBindMode
    <2>2. QED BY <1>1, <2>1 DEF StoredAsSent, Normalized
<1>2. CASE s.mode = "group" /\ s.bindings \subseteq Groups /\ s.bindings # {}
    <2>1. s.bindings \cap Groups = s.bindings
        BY <1>2
    <2>2. s = [mode |-> "group", policy |-> range, bindings |-> s.bindings \cap Groups]
        BY <1>0, <1>2, <2>1 DEF PolicyForBindMode
    <2>3. QED BY <1>2, <2>1, <2>2 DEF StoredAsSent, Normalized
<1>3. CASE s.mode = "node" /\ s.bindings \subseteq Nodes /\ Cardinality(s.bindings) = 1
    <2>1. s.bindings \cap Nodes = s.bindings
        BY <1>3
    <2>2. s = [mode |-> "node", policy |-> "fixed", bindings |-> s.bindings \cap Nodes]
        BY <1>0, <1>3, <2>1 DEF PolicyForBindMode
    <2>3. \A x : x \in Normalized(s.mode, s.policy, s.bindings) <=> x = s
        <3>1. ASSUME NEW x \in Normalized(s.mode, s.policy, s.bindings)
              PROVE  x = s
            BY <1>3, <2>2, <3>1 DEF Normalized
        <3>2. s \in Normalized(s.mode, s.policy, s.bindings)
            BY <1>3, <2>1, <2>2 DEF Normalized
        <3>3. QED BY <3>1, <3>2
    <2>4. QED BY <2>3 DEF StoredAsSent
<1>4. QED BY <1>1, <1>2, <1>3

(* A form that shows no error is stored as it is sent: what the page accepts   *)
(* and what the service accepts are the same (submitCreate, submitEdit;        *)
(* normalizeCredentialScope).                                                 *)
THEOREM AcceptedFormIsStored ==
    ASSUME NEW s \in Scopes, ~ScopeError(s), NEW t \in NormalizeScope(s)
    PROVE  t \in Scopes /\ StoredAsSent(t)
<1>1. PICK kept \in KeptBindings(s) :
        t = [s EXCEPT !.policy = PolicyForBindMode(s.mode, s.policy), !.bindings = kept]
    BY DEF NormalizeScope
<1>2. kept \subseteq s.bindings
    BY DEF KeptBindings
<1>3. /\ t.mode = s.mode /\ t.bindings = kept
      /\ t.policy = PolicyForBindMode(s.mode, s.policy) /\ t \in Scopes
    BY <1>1, <1>2 DEF Scopes, PolicyForBindMode, Policies
<1>4. t.policy = PolicyForBindMode(t.mode, t.policy)
    BY <1>3 DEF PolicyForBindMode
<1>5. \/ t.mode = "all" /\ t.bindings = {}
      \/ t.mode = "group" /\ t.bindings \subseteq Groups /\ t.bindings # {}
      \/ t.mode = "node" /\ t.bindings \subseteq Nodes /\ Cardinality(t.bindings) = 1
    <2>1. CASE s.mode = "all"
        BY <1>3, <2>1 DEF KeptBindings
    <2>2. CASE s.mode = "group"
        BY <1>3, <2>2 DEF KeptBindings, ScopeError
    <2>3. CASE s.mode = "node"
        <3>1. kept \subseteq Nodes /\ Cardinality(kept) <= 1
              /\ (kept = {} => s.bindings \cap Nodes = {})
            BY <2>3 DEF KeptBindings
        <3>2. Cardinality(s.bindings \cap Nodes) = 1
            BY <2>3 DEF ScopeError
        <3>3. kept # {}
            BY <3>1, <3>2, FS_EmptySet
        <3>4. IsFiniteSet(kept)
            BY <3>1, FS_Subset, TargetsAssumption
        <3>5. Cardinality(kept) \in Nat /\ Cardinality(kept) # 0
            BY <3>3, <3>4, FS_CardinalityType, FS_EmptySet
        <3>6. QED BY <1>3, <2>3, <3>1, <3>5
    <2>4. QED BY <2>1, <2>2, <2>3 DEF Scopes, Modes
<1>6. QED BY <1>3, <1>4, <1>5, StoredByMode

(* Editing a credential and saving it at once changes nothing: the form that   *)
(* is opened for a stored scope is that scope (openEdit).                     *)
THEOREM StoredScopeIsShown ==
    ASSUME NEW s \in Scopes, StoredAsSent(s)
    PROVE  NormalizeScope(s) = {s} /\ ~ScopeError(s)
<1>1. s \in Normalized(s.mode, s.policy, s.bindings)
    BY DEF StoredAsSent
<1>2. s.policy = PolicyForBindMode(s.mode, s.policy)
    BY <1>1 DEF Normalized, PolicyForBindMode
<1> DEFINE opened == [s EXCEPT !.policy = PolicyForBindMode(s.mode, s.policy),
                               !.bindings = s.bindings]
<1>3. opened = s
    BY <1>2 DEF Scopes
<1>4. ASSUME KeptBindings(s) = {s.bindings}
      PROVE  NormalizeScope(s) = {s}
    <2>1. NormalizeScope(s) = {opened}
        BY <1>4 DEF NormalizeScope
    <2>2. QED BY <2>1, <1>3
<1>5. CASE s.mode = "all"
    <2>1. s.bindings = {}
        BY <1>1, <1>5 DEF Normalized
    <2>2. KeptBindings(s) = {s.bindings}
        BY <1>5, <2>1 DEF KeptBindings
    <2>3. QED BY <1>4, <1>5, <2>1, <2>2 DEF ScopeError
<1>6. CASE s.mode = "group"
    <2>1. s.bindings = s.bindings \cap Groups /\ s.bindings # {}
        BY <1>1, <1>6 DEF Normalized
    <2>2. KeptBindings(s) = {s.bindings}
        BY <1>6, <2>1 DEF KeptBindings
    <2>3. QED BY <1>4, <1>6, <2>1, <2>2 DEF ScopeError
<1>7. CASE s.mode = "node"
    <2>1. s.bindings = s.bindings \cap Nodes /\ Cardinality(s.bindings) = 1
        BY <1>1, <1>7 DEF Normalized
    <2>2. IsFiniteSet(s.bindings)
        BY <2>1, FS_Subset, TargetsAssumption
    <2>3. PICK n : s.bindings = {n}
        BY <2>1, <2>2, FS_Singleton
    <2>4. Cardinality({}) = 0
        BY FS_EmptySet
    <2>5. \A kept \in SUBSET s.bindings : kept = {} \/ kept = {n}
        BY <2>3
    <2>6. KeptBindings(s) = {s.bindings}
        BY <1>7, <2>1, <2>3, <2>4, <2>5 DEF KeptBindings
    <2>7. QED BY <1>4, <1>7, <2>1, <2>6 DEF ScopeError
<1>8. QED BY <1>5, <1>6, <1>7 DEF Scopes, Modes

-------------------------------------------------------------------------------
(* A step of one part leaves the others alone.                                *)
LEMMA PartsAreApart ==
    /\ SearchNext => UNCHANGED <<route, list, dialog, credentials, store>>
    /\ ListNext => UNCHANGED <<route, search, dialog, credentials, store>>
    /\ DialogNext => UNCHANGED <<route, search, list, credentials, store>>
    /\ CredentialsNext => UNCHANGED <<route, search, list, dialog, store>>
    /\ StoreNext => UNCHANGED <<route, search, list, dialog, credentials>>
<1>1. SearchNext => UNCHANGED <<route, list, dialog, credentials, store>>
    BY DEF SearchNext, OpenByShortcut, PointElsewhere, FocusInput, TypeQuery, DeferQuery,
        RunEffects, ResultsArrive, SearchFails, Escape, ArrowDown, ArrowUp, Hover, SearchOnly
<1>2. ListNext => UNCHANGED <<route, search, dialog, credentials, store>>
    BY DEF ListNext, Defer, ClampPage, ChangeSearch, ChangeFilter, ChangePage, ChangePageSize,
        Arrive, FetchFails, Refetch, ToggleSelected, SelectAll, RequestBatch, AnswerConfirm,
        BatchSucceeds, BatchFails, ListOnly
<1>3. DialogNext => UNCHANGED <<route, search, list, credentials, store>>
    BY DEF DialogNext, OpenCreate, OpenEdit, TypeField, CloseModal, SubmitRecord, SaveSucceeds,
        SaveFails, DialogOnly
<1>4. CredentialsNext => UNCHANGED <<route, search, list, dialog, store>>
    BY DEF CredentialsNext, OpenCreateCredential, OpenEditCredential, OpenReset, ShowCommands,
        ToggleCredential, AskToDelete, EditFields, TypeLogin, CloseDialog, SubmitCreate,
        SubmitEdit, SubmitReset, ConfirmDelete, RequestSucceeds, RequestFails, Shows, Sends,
        CredentialsOnly
<1>5. StoreNext => UNCHANGED <<route, search, list, dialog, credentials>>
    BY DEF StoreNext, OpenDrawer, CloseDrawer, Read, AnswerArrives, QueryFails, Poll, Request,
        Carry, Acknowledge, CallFails, StoreOnly
<1>6. QED BY <1>1, <1>2, <1>3, <1>4, <1>5

-------------------------------------------------------------------------------
(* The credentials page.  Every form on it is a scope, so what is sent is a    *)
(* normalised form without error; and an edit keeps the credential it was      *)
(* begun from.                                                                *)
CredentialsInv == CredentialsTypeOK /\ SentScopesAreStored /\ EditsGoToTheirCredential

(* Whatever the admin makes of a form is a scope.                             *)
LEMMA FormsAreScopes ==
    /\ DefaultScope \in Scopes
    /\ \A s \in Scopes : Edits(s) \subseteq Scopes /\ NormalizeScope(s) \subseteq Scopes
<1>1. DefaultScope \in Scopes
    BY DEF DefaultScope, Scopes, Modes, Policies
<1>2. ASSUME NEW s \in Scopes
      PROVE  NormalizeScope(s) \subseteq Scopes
    BY <1>2 DEF NormalizeScope, KeptBindings, PolicyForBindMode, Scopes, Policies
<1>3. ASSUME NEW s \in Scopes, NEW mode \in Modes
      PROVE  SetBindMode(s, mode) \in Scopes
    BY <1>3 DEF SetBindMode, PolicyForBindMode, Scopes, Policies
<1>4. ASSUME NEW s \in Scopes, NEW policy \in Policies
      PROVE  SetSelectionPolicy(s, policy) \in Scopes
    BY <1>4 DEF SetSelectionPolicy, Scopes, Policies
<1>5. ASSUME NEW s \in Scopes, NEW bindings \in SUBSET Targets
      PROVE  [s EXCEPT !.bindings = bindings] \in Scopes
    BY <1>5 DEF Scopes
<1>6. ASSUME NEW s \in Scopes, NEW target \in Targets
      PROVE  NextBindings(s, target) \in SUBSET Targets
    BY <1>6 DEF NextBindings, Scopes
<1>7. ASSUME NEW s \in Scopes, NEW form \in Edits(s)
      PROVE  form \in Scopes
    <2>1. CASE \E mode \in Modes \ {s.mode} : form = SetBindMode(s, mode)
        BY <1>3, <2>1
    <2>2. CASE \E policy \in {"random", "sticky"} : form = SetSelectionPolicy(s, policy)
        BY <1>4, <2>2 DEF Policies
    <2>3. CASE \E target \in Targets : form = [s EXCEPT !.bindings = NextBindings(s, target)]
        BY <1>5, <1>6, <2>3
    <2>4. CASE \E target : form = [s EXCEPT !.bindings = @ \ {target}]
        <3>1. PICK target : form = [s EXCEPT !.bindings = s.bindings \ {target}]
            BY <2>4
        <3>2. s.bindings \ {target} \in SUBSET Targets
            BY DEF Scopes
        <3>3. QED BY <1>5, <3>1, <3>2
    <2>5. QED BY <1>7, <2>1, <2>2, <2>3, <2>4 DEF Edits, Targets, Scopes, Modes
<1>8. QED BY <1>1, <1>2, <1>7

(* A page on which the edit form is that of the credential it was begun from. *)
Consistent(page) == page \in Pages /\ page.edit.id = page.edit.of

(* An answer takes a request away and may close what is open.                 *)
LEMMA AnswerKeeps ==
    ASSUME CredentialsInv, NEW page, Consistent(page),
           NEW sent \in SUBSET credentials.requests,
           credentials' = [ui |-> page, requests |-> sent]
    PROVE  CredentialsInv'
BY DEF CredentialsInv, CredentialsTypeOK, SentScopesAreStored, EditsGoToTheirCredential, ui,
       Consistent

(* A handler that sends nothing.                                              *)
LEMMA ShowsKeeps ==
    ASSUME CredentialsInv, NEW page, Consistent(page), Shows(page)
    PROVE  CredentialsInv'
<1>1. credentials' = [ui |-> page, requests |-> credentials.requests]
    BY DEF Shows, CredentialsInv, CredentialsTypeOK
<1>2. QED BY <1>1, AnswerKeeps

(* A handler that sends a request, an edit to what it was begun from.         *)
LEMMA SendKeeps ==
    ASSUME CredentialsInv, NEW page, Consistent(page),
           NEW r \in Requests, r.kind = "edit" => r.id = r.of,
           r.kind \in {"create", "edit"} => StoredAsSent(r.scope),
           credentials' = [ui |-> page, requests |-> credentials.requests \cup {r}]
    PROVE  CredentialsInv'
BY DEF CredentialsInv, CredentialsTypeOK, SentScopesAreStored, EditsGoToTheirCredential, ui,
       Consistent

(* ... whichever of the requests of the page it is.                           *)
LEMMA SendsKeeps ==
    ASSUME CredentialsInv, NEW id \in Ids \cup {NoId}, NEW of \in Ids \cup {NoId},
           NEW scope \in Scopes, NEW kind \in {"create", "edit", "toggle", "reset"},
           kind \in {"create", "edit"} => StoredAsSent(scope),
           kind = "edit" => id = of,
           Sends(kind, id, of, scope)
    PROVE  CredentialsInv'
<1> DEFINE r == [kind |-> kind, id |-> id, of |-> of, scope |-> scope, mine |-> TRUE]
<1>1. credentials' = [ui |-> ui, requests |-> credentials.requests \cup {r}]
    BY DEF Sends, CredentialsInv, CredentialsTypeOK, ui
<1>2. r \in Requests
    BY DEF Requests
<1>3. Consistent(ui)
    BY DEF CredentialsInv, CredentialsTypeOK, EditsGoToTheirCredential, Consistent
<1>4. QED BY <1>1, <1>2, <1>3, SendKeeps

(* Leaving the page drops its dialogs; the requests go on.                    *)
LEMMA CredentialsVisitsKeeps ==
    ASSUME CredentialsInv, NEW page, CredentialsVisits(page)
    PROVE  CredentialsInv'
<1>1. CASE credentials' = credentials
    BY <1>1 DEF CredentialsInv, CredentialsTypeOK, SentScopesAreStored, EditsGoToTheirCredential, ui
<1>2. CASE credentials' = [ui |-> NoPage,
                           requests |-> {[r EXCEPT !.mine = FALSE] : r \in credentials.requests}]
    <2>1. NoPage \in Pages /\ NoPage.edit.id = NoPage.edit.of
        BY FormsAreScopes DEF NoPage, ClosedEdit, Pages
    <2>2. \A q \in credentials'.requests :
            \E r \in credentials.requests : q = [r EXCEPT !.mine = FALSE]
        BY <1>2
    <2>3. \A r \in credentials.requests :
            /\ [r EXCEPT !.mine = FALSE] \in Requests
            /\ [r EXCEPT !.mine = FALSE].id = r.id /\ [r EXCEPT !.mine = FALSE].of = r.of
            /\ [r EXCEPT !.mine = FALSE].kind = r.kind
            /\ [r EXCEPT !.mine = FALSE].scope = r.scope
        BY DEF CredentialsInv, CredentialsTypeOK, Requests
    <2>4. credentials.requests \subseteq Requests
          /\ (\A r \in credentials.requests : r.kind = "edit" => r.id = r.of)
          /\ (\A r \in credentials.requests : r.kind \in {"create", "edit"} => StoredAsSent(r.scope))
        BY DEF CredentialsInv, CredentialsTypeOK, SentScopesAreStored, EditsGoToTheirCredential
    <2>5. \A q \in credentials'.requests :
            /\ q \in Requests /\ (q.kind = "edit" => q.id = q.of)
            /\ q.kind \in {"create", "edit"} => StoredAsSent(q.scope)
        <3>1. SUFFICES ASSUME NEW q \in credentials'.requests
                       PROVE  /\ q \in Requests /\ (q.kind = "edit" => q.id = q.of)
                              /\ q.kind \in {"create", "edit"} => StoredAsSent(q.scope)
            OBVIOUS
        <3>2. PICK r \in credentials.requests : q = [r EXCEPT !.mine = FALSE]
            BY <2>2
        <3>3. q \in Requests /\ q.id = r.id /\ q.of = r.of /\ q.kind = r.kind /\ q.scope = r.scope
            BY <2>3, <3>2
        <3>4. QED BY <2>4, <3>3
    <2>6. ui' = NoPage /\ credentials' = [ui |-> ui', requests |-> credentials'.requests]
        BY <1>2 DEF ui
    <2>7. QED BY <2>1, <2>5, <2>6 DEF CredentialsInv, CredentialsTypeOK, SentScopesAreStored,
                 EditsGoToTheirCredential, ui
<1>3. QED BY <1>1, <1>2 DEF CredentialsVisits

(* Every handler and answer of the page keeps the invariant.                  *)
LEMMA CredentialsNextKeeps ==
    ASSUME CredentialsInv, CredentialsNext
    PROVE  CredentialsInv'
<1> USE DEF Consistent
<1>0. Consistent(ui) /\ ui \in Pages /\ ClosedEdit.form \in Scopes
    BY FormsAreScopes DEF CredentialsInv, CredentialsTypeOK, EditsGoToTheirCredential, ClosedEdit
<1>1. CASE OpenCreateCredential
    <2>1. Consistent([ui EXCEPT !.create = [NoPage.create EXCEPT !.open = TRUE]])
        BY <1>0, FormsAreScopes DEF Pages, NoPage
    <2>2. QED BY <1>1, <2>1, ShowsKeeps DEF OpenCreateCredential
<1>2. CASE OpenEditCredential
    <2>1. PICK id \in Ids, form \in Scopes :
            Shows([ui EXCEPT !.edit = [id |-> id, of |-> id, form |-> form]])
        BY <1>2, FormsAreScopes DEF OpenEditCredential
    <2>2. Consistent([ui EXCEPT !.edit = [id |-> id, of |-> id, form |-> form]])
        BY <1>0, FormsAreScopes DEF Pages
    <2>3. QED BY <2>1, <2>2, ShowsKeeps
<1>3. CASE OpenReset
    <2>1. PICK id \in Ids : Shows([ui EXCEPT !.reset.id = id])
        BY <1>3 DEF OpenReset
    <2>2. Consistent([ui EXCEPT !.reset.id = id])
        BY <1>0 DEF Pages
    <2>3. QED BY <2>1, <2>2, ShowsKeeps
<1>4. CASE ShowCommands
    <2>1. PICK id \in Ids : Shows([ui EXCEPT !.commands = id])
        BY <1>4 DEF ShowCommands
    <2>2. Consistent([ui EXCEPT !.commands = id])
        BY <1>0 DEF Pages
    <2>3. QED BY <2>1, <2>2, ShowsKeeps
<1>5. CASE ToggleCredential
    <2>1. PICK id \in Ids : Sends("toggle", id, id, DefaultScope)
        BY <1>5 DEF ToggleCredential
    <2>2. QED BY <2>1, SendsKeeps, FormsAreScopes
<1>6. CASE AskToDelete
    <2>1. PICK id \in Ids : Shows([ui EXCEPT !.confirm = id])
        BY <1>6 DEF AskToDelete
    <2>2. Consistent([ui EXCEPT !.confirm = id])
        BY <1>0 DEF Pages
    <2>3. QED BY <2>1, <2>2, ShowsKeeps
<1>7. CASE EditFields
    <2>1. CASE \E form \in Edits(ui.create.form) : Shows([ui EXCEPT !.create.form = form])
        <3>1. PICK form \in Edits(ui.create.form) : Shows([ui EXCEPT !.create.form = form])
            BY <2>1
        <3>2. Consistent([ui EXCEPT !.create.form = form])
            BY <1>0, FormsAreScopes DEF Pages
        <3>3. QED BY <3>1, <3>2, ShowsKeeps
    <2>2. CASE \E form \in Edits(ui.edit.form) : Shows([ui EXCEPT !.edit.form = form])
        <3>1. PICK form \in Edits(ui.edit.form) : Shows([ui EXCEPT !.edit.form = form])
            BY <2>2
        <3>2. Consistent([ui EXCEPT !.edit.form = form])
            BY <1>0, FormsAreScopes DEF Pages
        <3>3. QED BY <3>1, <3>2, ShowsKeeps
    <2>3. QED BY <1>7, <2>1, <2>2 DEF EditFields
<1>8. CASE TypeLogin
    <2>1. /\ Consistent([ui EXCEPT !.create.complete = ~@])
          /\ Consistent([ui EXCEPT !.reset.of = IF @ = NoId THEN ui.reset.id ELSE NoId])
        BY <1>0 DEF Pages
    <2>2. QED BY <1>8, <2>1, ShowsKeeps DEF TypeLogin
<1>9. CASE CloseDialog
    <2>1. /\ Consistent([ui EXCEPT !.create.open = FALSE])
          /\ Consistent([ui EXCEPT !.edit = ClosedEdit])
          /\ Consistent([ui EXCEPT !.reset.id = NoId])
          /\ Consistent([ui EXCEPT !.created = NoId])
          /\ Consistent([ui EXCEPT !.commands = NoId])
          /\ Consistent([ui EXCEPT !.confirm = NoId])
        BY <1>0 DEF Pages, ClosedEdit
    <2>2. QED BY <1>9, <2>1, ShowsKeeps DEF CloseDialog
<1>10. CASE SubmitCreate
    <2>1. PICK scope \in NormalizeScope(ui.create.form) : Sends("create", NoId, NoId, scope)
        BY <1>10 DEF SubmitCreate
    <2>2. ui.create.form \in Scopes /\ ~ScopeError(ui.create.form)
        BY <1>0, <1>10 DEF Pages, SubmitCreate
    <2>3. scope \in Scopes /\ StoredAsSent(scope)
        BY <2>2, AcceptedFormIsStored
    <2>4. QED BY <2>1, <2>3, SendsKeeps
<1>11. CASE SubmitEdit
    <2>1. PICK scope \in NormalizeScope(ui.edit.form) : Sends("edit", ui.edit.id, ui.edit.of, scope)
        BY <1>11 DEF SubmitEdit
    <2>2. ui.edit.form \in Scopes /\ ~ScopeError(ui.edit.form)
        BY <1>0, <1>11 DEF Pages, SubmitEdit
    <2>3. scope \in Scopes /\ StoredAsSent(scope)
        BY <2>2, AcceptedFormIsStored
    <2>4. ui.edit.id \in Ids \cup {NoId} /\ ui.edit.of = ui.edit.id
        BY <1>0 DEF Pages
    <2>5. QED BY <2>1, <2>3, <2>4, SendsKeeps
<1>12. CASE SubmitReset
    <2>1. /\ ui.reset.id \in Ids \cup {NoId} /\ ui.reset.of \in Ids \cup {NoId}
          /\ Sends("reset", ui.reset.id, ui.reset.of, DefaultScope)
        BY <1>0, <1>12 DEF Pages, SubmitReset
    <2>2. QED BY <2>1, SendsKeeps, FormsAreScopes
<1>13. CASE ConfirmDelete
    <2> DEFINE r == [kind |-> "delete", id |-> ui.confirm, of |-> ui.confirm,
                     scope |-> DefaultScope, mine |-> TRUE]
    <2>1. Consistent([ui EXCEPT !.confirm = NoId])
        BY <1>0 DEF Pages
    <2>2. r \in Requests
        BY <1>0, FormsAreScopes DEF Pages, Requests
    <2>3. credentials' = [ui |-> [ui EXCEPT !.confirm = NoId],
                          requests |-> credentials.requests \cup {r}]
        BY <1>13 DEF ConfirmDelete
    <2>4. QED BY <2>1, <2>2, <2>3, SendKeeps
<1>14. CASE RequestSucceeds
    <2> PICK r \in credentials.requests : \E page \in AfterAnswer(r) :
            credentials' = [ui |-> page, requests |-> credentials.requests \ {r}]
        BY <1>14 DEF RequestSucceeds
    <2>1. PICK page \in AfterAnswer(r) :
            credentials' = [ui |-> page, requests |-> credentials.requests \ {r}]
        OBVIOUS
    <2>2. r.id \in Ids \cup {NoId}
        BY DEF CredentialsInv, CredentialsTypeOK, Requests
    <2>3. \A id \in Ids : Consistent(AfterCreate(ui, id))
        BY <1>0, FormsAreScopes DEF Pages, AfterCreate, NoPage
    <2>4. Consistent(AfterEdit(ui))
        BY <1>0 DEF Pages, AfterEdit, ClosedEdit
    <2>5. \A p \in AfterReset(ui, r.id) : Consistent(p)
        <3>1. Consistent([ui EXCEPT !.reset = NoPage.reset])
            BY <1>0 DEF Pages, NoPage
        <3>2. Consistent([ui EXCEPT !.reset = NoPage.reset, !.created = r.id])
            BY <1>0, <2>2 DEF Pages, NoPage
        <3>3. QED BY <3>1, <3>2 DEF AfterReset
    <2>6. Consistent(page)
        BY <1>0, <2>1, <2>3, <2>4, <2>5 DEF AfterAnswer
    <2>7. credentials.requests \ {r} \in SUBSET credentials.requests
        OBVIOUS
    <2>8. QED BY <2>1, <2>6, <2>7, AnswerKeeps
<1>15. CASE RequestFails
    <2>1. PICK r \in credentials.requests :
            credentials' = [credentials EXCEPT !.requests = @ \ {r}]
        BY <1>15 DEF RequestFails
    <2>2. credentials' = [ui |-> ui, requests |-> credentials.requests \ {r}]
        BY <2>1 DEF CredentialsInv, CredentialsTypeOK, ui
    <2>3. credentials.requests \ {r} \in SUBSET credentials.requests
        OBVIOUS
    <2>4. QED BY <1>0, <2>2, <2>3, AnswerKeeps
<1>16. QED BY <1>1, <1>2, <1>3, <1>4, <1>5, <1>6, <1>7, <1>8, <1>9, <1>10, <1>11, <1>12,
             <1>13, <1>14, <1>15 DEF CredentialsNext

(* Steps of the other parts leave the page alone.                             *)
LEMMA CredentialsStep ==
    ASSUME CredentialsInv, [Next]_vars
    PROVE  CredentialsInv'
<1>1. CASE UNCHANGED credentials
    BY <1>1 DEF CredentialsInv, CredentialsTypeOK, SentScopesAreStored,
                EditsGoToTheirCredential, ui
<1>2. CASE Navigate \/ GoToResult
    BY <1>2, CredentialsVisitsKeeps DEF Navigate, GoToResult, PartsVisit
<1>3. CASE CredentialsNext
    BY <1>3, CredentialsNextKeeps
<1>4. QED BY <1>1, <1>2, <1>3, PartsAreApart DEF Next, vars

(* Forms are scopes, and edits are about the credential they were begun from. *)
THEOREM CredentialsAreConsistent == Spec => []CredentialsInv
<1>1. Init => CredentialsInv
    BY FormsAreScopes DEF Init, NoCredentials, NoPage, ClosedEdit, CredentialsInv,
        CredentialsTypeOK, SentScopesAreStored, EditsGoToTheirCredential, ui, Pages
<1>2. CredentialsInv /\ [Next]_vars => CredentialsInv'
    BY CredentialsStep
<1>3. QED BY <1>1, <1>2, PTL DEF Spec

(* The credentials page never sends a scope that the service refuses or stores *)
(* in another form, whatever the forms, the requests in flight and the order   *)
(* of their answers (submitCreate, submitEdit; normalizeCredentialScope).      *)
THEOREM ScopesAreStoredAsSent == Spec => []SentScopesAreStored
<1>1. CredentialsInv => SentScopesAreStored
    BY DEF CredentialsInv
<1>2. QED BY <1>1, CredentialsAreConsistent, PTL

-------------------------------------------------------------------------------
(* The dialog.  A form, as a save, is for the record it was begun from.        *)
DialogInv ==
    /\ DialogTypeOK
    /\ dialog.form.editing = dialog.form.of
    /\ \A save \in dialog.saves : save.to = save.of

(* What a record must have is among its fields.                               *)
LEMMA FieldsAreFields ==
    OnRecordPage => RecordPages[route.page] \subseteq {"name", "url", "keywords"}
BY DEF OnRecordPage, RecordPages, SubscriptionForm, GroupForm, RuleForm

(* A dialog that is closed.                                                   *)
LEMMA ClosedIsForm ==
    ClosedDialog \in Forms /\ ~ClosedDialog.open /\ ClosedDialog.editing = ClosedDialog.of
BY DEF ClosedDialog, Forms

(* Every handler and answer of the dialogs keeps the invariant.               *)
LEMMA DialogNextKeeps ==
    ASSUME DialogInv, DialogNext
    PROVE  DialogInv'
<1>0. /\ dialog \in [form : Forms, saves : SUBSET Saves]
      /\ dialog.form \in Forms /\ dialog.saves \subseteq Saves
    BY DEF DialogInv, DialogTypeOK
<1>1. OnRecordPage' = OnRecordPage
    BY PartsAreApart DEF OnRecordPage
<1>2. ASSUME NEW form \in Forms, NEW saves \in SUBSET Saves,
             dialog' = [form |-> form, saves |-> saves],
             form.open => OnRecordPage, form.editing = form.of,
             \A save \in saves : save.to = save.of
      PROVE  DialogInv'
    BY <1>1, <1>2 DEF DialogInv, DialogTypeOK
<1>3. ASSUME NEW form \in Forms, dialog' = [dialog EXCEPT !.form = form],
             form.open => OnRecordPage, form.editing = form.of
      PROVE  DialogInv'
    <2>1. dialog' = [form |-> form, saves |-> dialog.saves]
        BY <1>0, <1>3
    <2>2. QED BY <1>0, <1>2, <1>3, <2>1 DEF DialogInv
<1>4. ASSUME NEW saves \in SUBSET Saves, dialog' = [dialog EXCEPT !.saves = saves],
             \A save \in saves : save.to = save.of
      PROVE  DialogInv'
    <2>1. dialog' = [form |-> dialog.form, saves |-> saves]
        BY <1>0, <1>4
    <2>2. QED BY <1>0, <1>2, <1>4, <2>1 DEF DialogInv, DialogTypeOK
<1>5. CASE OpenCreate
    <2> DEFINE form == [open |-> TRUE, editing |-> NoRecord, of |-> NoRecord,
                        missing |-> RecordPages[route.page]]
    <2>1. OnRecordPage /\ dialog' = [dialog EXCEPT !.form = form]
        BY <1>5 DEF OpenCreate
    <2>2. form \in Forms /\ form.editing = form.of
        BY <2>1, FieldsAreFields DEF Forms
    <2> HIDE DEF form
    <2>3. QED BY <1>3, <2>1, <2>2
<1>6. CASE OpenEdit
    <2>1. PICK id \in Records : dialog' = [dialog EXCEPT !.form =
                                    [open |-> TRUE, editing |-> id, of |-> id, missing |-> {}]]
        BY <1>6 DEF OpenEdit
    <2>2. OnRecordPage
        BY <1>6 DEF OpenEdit
    <2>3. [open |-> TRUE, editing |-> id, of |-> id, missing |-> {}] \in Forms
        BY DEF Forms
    <2>4. QED BY <1>3, <2>1, <2>2, <2>3
<1>7. CASE TypeField
    <2>1. PICK field \in RecordPages[route.page] :
            dialog' = [dialog EXCEPT !.form.missing =
                IF field \in @ THEN @ \ {field} ELSE @ \cup {field}]
        BY <1>7 DEF TypeField
    <2> DEFINE missing == IF field \in dialog.form.missing THEN dialog.form.missing \ {field}
                          ELSE dialog.form.missing \cup {field}
               form == [dialog.form EXCEPT !.missing = missing]
    <2>2. OnRecordPage
        BY <1>7 DEF TypeField, DialogInv, DialogTypeOK
    <2>3. missing \in SUBSET {"name", "url", "keywords"}
        BY <1>0, <2>2, FieldsAreFields DEF Forms
    <2>4. dialog' = [dialog EXCEPT !.form = form]
        BY <1>0, <2>1
    <2> HIDE DEF missing
    <2>5. form \in Forms
        BY <1>0, <2>3 DEF Forms
    <2>6. form.editing = dialog.form.editing /\ form.of = dialog.form.of
        BY <1>0 DEF Forms
    <2> HIDE DEF form
    <2>7. QED BY <1>3, <2>2, <2>4, <2>5, <2>6 DEF DialogInv
<1>8. CASE CloseModal
    BY <1>3, <1>8, ClosedIsForm DEF CloseModal
<1>9. CASE SubmitRecord
    <2> DEFINE save == [to |-> dialog.form.editing, of |-> dialog.form.of, mine |-> TRUE]
    <2>1. dialog' = [dialog EXCEPT !.saves = dialog.saves \cup {save}]
        BY <1>9 DEF SubmitRecord
    <2>2. save \in Saves /\ save.to = save.of
        BY <1>0 DEF Forms, Saves, DialogInv
    <2> HIDE DEF save
    <2>3. QED BY <1>0, <1>4, <2>1, <2>2 DEF DialogInv
<1>10. CASE SaveSucceeds
    <2>1. PICK save \in dialog.saves :
            dialog' = [form |-> IF save.mine THEN ClosedDialog ELSE dialog.form,
                       saves |-> dialog.saves \ {save}]
        BY <1>10 DEF SaveSucceeds
    <2>2. QED BY <1>0, <1>2, <2>1, ClosedIsForm DEF DialogInv, DialogTypeOK
<1>11. CASE SaveFails
    <2>1. PICK save \in dialog.saves : dialog' = [dialog EXCEPT !.saves = dialog.saves \ {save}]
        BY <1>11 DEF SaveFails
    <2>2. QED BY <1>0, <1>4, <2>1 DEF DialogInv
<1>12. QED BY <1>5, <1>6, <1>7, <1>8, <1>9, <1>10, <1>11 DEF DialogNext

(* Leaving the page drops its dialog; the saves go on.                        *)
LEMMA DialogVisitsKeeps ==
    ASSUME DialogInv, NEW page, DialogVisits(page), route'.page = page
    PROVE  DialogInv'
<1>1. CASE page = route.page
    BY <1>1 DEF DialogVisits, DialogInv, DialogTypeOK, OnRecordPage
<1>2. CASE page # route.page
    <2> DEFINE saves == {[s EXCEPT !.mine = FALSE] : s \in dialog.saves}
    <2>1. dialog' = [form |-> ClosedDialog, saves |-> saves]
        BY <1>2 DEF DialogVisits
    <2>2. ASSUME NEW q \in saves
          PROVE  q \in Saves /\ q.to = q.of
        <3>1. PICK s \in dialog.saves : q = [s EXCEPT !.mine = FALSE]
            BY <2>2
        <3>2. s \in Saves /\ s.to = s.of
            BY DEF DialogInv, DialogTypeOK
        <3>3. QED BY <3>1, <3>2 DEF Saves
    <2> HIDE DEF saves
    <2>3. dialog' \in [form : Forms, saves : SUBSET Saves]
        BY <2>1, <2>2, ClosedIsForm
    <2>4. QED BY <2>1, <2>2, <2>3, ClosedIsForm DEF DialogInv, DialogTypeOK
<1>3. QED BY <1>1, <1>2

(* Steps of the other parts leave the dialogs alone.                          *)
LEMMA DialogStep ==
    ASSUME DialogInv, [Next]_vars
    PROVE  DialogInv'
<1>1. CASE UNCHANGED <<dialog, route>>
    BY <1>1 DEF DialogInv, DialogTypeOK, OnRecordPage
<1>2. CASE Navigate \/ GoToResult
    <2>1. PICK page \in Visited, param \in Texts : PartsVisit(page, param)
        BY <1>2 DEF Navigate, GoToResult
    <2>2. route'.page = page
        BY <2>1 DEF PartsVisit
    <2>3. QED BY <2>1, <2>2, DialogVisitsKeeps DEF PartsVisit
<1>3. CASE DialogNext
    BY <1>3, DialogNextKeeps
<1>4. QED BY <1>1, <1>2, <1>3, PartsAreApart DEF Next, vars

(* A form is for the record it was begun from, and so is what was sent of it. *)
THEOREM DialogIsConsistent == Spec => []DialogInv
<1>1. Init => DialogInv
    <2>1. ASSUME dialog = NoDialog
          PROVE  DialogInv
        BY <2>1, ClosedIsForm DEF NoDialog, DialogInv, DialogTypeOK
    <2>2. QED BY <2>1 DEF Init
<1>2. QED BY <1>1, DialogStep, PTL DEF Spec

(* However late answers arrive and whatever dialogs are opened meanwhile, a    *)
(* save of a subscription, group or rule, or of the scope of a credential,     *)
(* carries the form of the record it writes (saveMutation of the three pages,  *)
(* submitEdit of the credentials page).                                        *)
THEOREM NoRecordIsOverwritten == Spec => []SavesGoToTheirRecord
<1>1. DialogInv /\ CredentialsInv => SavesGoToTheirRecord
    BY DEF DialogInv, CredentialsInv, SavesGoToTheirRecord
<1>2. QED BY <1>1, DialogIsConsistent, CredentialsAreConsistent, PTL

-------------------------------------------------------------------------------
(* The search box.  Unless the effect that moves it is due, the highlight is   *)
(* on a result.                                                               *)
SearchStates ==
    [open : BOOLEAN, text : Texts, deferred : Texts, active : 0..MaxItems,
     found : [Keys -> Unknown..MaxItems], asked : SUBSET Keys, due : SUBSET Effects]

Highlighted(s) == Items(s) > 0 /\ "within" \notin s.due => s.active < Items(s)

SearchInv == search \in SearchStates /\ Highlighted(search)

(* The number of results is bounded.                                          *)
LEMMA ItemsType ==
    ASSUME NEW s \in SearchStates
    PROVE  Items(s) \in 0..MaxItems
<1>1. CASE s.deferred = ""
    <2>1. Items(s) = 0
        BY <1>1 DEF Items
    <2>2. QED BY <2>1, MaxItemsAssumption
<1>2. CASE s.deferred # ""
    <2>1. s.found[s.deferred] \in Unknown..MaxItems
        BY <1>2 DEF SearchStates, Keys
    <2>2. Items(s) = IF s.found[s.deferred] = Unknown THEN 0 ELSE s.found[s.deferred]
        BY <1>2 DEF Items
    <2>3. QED BY <2>1, <2>2, MaxItemsAssumption DEF Unknown
<1>3. QED BY <1>1, <1>2

(* A render marks the effect if the number of results has changed.             *)
LEMMA BecomesKeeps ==
    ASSUME SearchInv, NEW s \in SearchStates,
           Items(s) = Items(search) => Highlighted(s),
           Becomes(s)
    PROVE  SearchInv'
<1>1. PICK t \in Asking(search, s) : search' = Rendered(search, t)
    BY DEF Becomes
<1>2. t = s \/ t = [s EXCEPT !.asked = @ \cup {s.deferred}]
    BY <1>1 DEF Asking
<1>3. /\ t \in SearchStates
      /\ t.due = s.due /\ t.active = s.active /\ t.found = s.found /\ t.deferred = s.deferred
    <2>1. CASE t = s
        BY <2>1
    <2>2. CASE s.open /\ s.deferred # "" /\ t = [s EXCEPT !.asked = @ \cup {s.deferred}]
        BY <2>2 DEF SearchStates, Keys
    <2>3. QED BY <1>1, <2>1, <2>2 DEF Asking
<1>4. Items(t) = Items(s)
    BY <1>3 DEF Items
<1> DEFINE called == {e \in Effects :
        CASE e = "close"  -> t.text # search.text
          [] e = "first"  -> t.deferred # search.deferred
          [] e = "within" -> Items(t) # Items(search)}
<1>5. search' = [t EXCEPT !.due = t.due \cup called]
    BY <1>1 DEF Rendered
<1>6. search' \in SearchStates
    <2>1. called \subseteq Effects
        OBVIOUS
    <2> HIDE DEF called
    <2>2. QED BY <1>3, <1>5, <2>1 DEF SearchStates
<1>7. Items(s) # Items(search) => "within" \in called
    BY <1>4 DEF Effects
<1> HIDE DEF called
<1>8. /\ search'.due = s.due \cup called /\ search'.active = s.active
      /\ search'.found = s.found /\ search'.deferred = s.deferred
    BY <1>3, <1>5 DEF SearchStates
<1>9. Items(search)' = Items(s)
    BY <1>8 DEF Items
<1>10. QED BY <1>6, <1>7, <1>8, <1>9 DEF SearchInv, Highlighted

(* A handler that leaves the highlight and the effects alone.                  *)
LEMMA RendersKeep ==
    ASSUME SearchInv, NEW s \in SearchStates, s.active = search.active, s.due = search.due,
           Becomes(s)
    PROVE  SearchInv'
<1>1. Items(s) = Items(search) => Highlighted(s)
    BY DEF SearchInv, Highlighted
<1>2. QED BY <1>1, BecomesKeeps

(* A key that moves the highlight among the results.                          *)
LEMMA MovesKeep ==
    ASSUME SearchInv, NEW i \in 0..(Items(search) - 1), search' = [search EXCEPT !.active = i]
    PROVE  SearchInv'
<1>1. Items(search) \in 0..MaxItems
    BY ItemsType DEF SearchInv
<1>2. i \in 0..MaxItems
    BY <1>1, MaxItemsAssumption
<1>3. search' \in SearchStates
    BY <1>2 DEF SearchInv, SearchStates
<1>4. search'.active = i /\ search'.found = search.found /\ search'.deferred = search.deferred
    BY DEF SearchInv, SearchStates
<1>5. Items(search)' = Items(search)
    <2>1. search'.found[search'.deferred] = search.found[search.deferred]
        BY <1>4
    <2>2. QED BY <1>4, <2>1, Zenon DEF Items
<1>6. QED BY <1>1, <1>3, <1>4, <1>5 DEF SearchInv, Highlighted

(* The effects, in their order, put the highlight back on the results.        *)
LEMMA EffectsKeep ==
    ASSUME SearchInv, RunEffects
    PROVE  SearchInv'
<1> DEFINE closed  == IF "close" \in search.due /\ search.text = ""
                      THEN [search EXCEPT !.open = FALSE] ELSE search
           atFirst == IF "first" \in search.due THEN [closed EXCEPT !.active = 0] ELSE closed
           within  == IF "within" \in search.due
                      THEN [atFirst EXCEPT !.active = Within(atFirst)] ELSE atFirst
           settled == [within EXCEPT !.due = {}]
<1>1. Becomes(settled)
    BY DEF RunEffects
<1>2. closed \in SearchStates /\ closed.active = search.active
      /\ closed.found = search.found /\ closed.deferred = search.deferred
    BY DEF SearchInv, SearchStates
<1> HIDE DEF closed
<1>3. /\ atFirst \in SearchStates /\ (atFirst.active = 0 \/ atFirst.active = search.active)
      /\ atFirst.found = search.found /\ atFirst.deferred = search.deferred
    BY <1>2, MaxItemsAssumption DEF SearchStates
<1> HIDE DEF atFirst
<1>4. Items(atFirst) = Items(search) /\ Items(search) \in 0..MaxItems
    BY <1>3, ItemsType DEF Items, SearchInv
<1>5. /\ Within(atFirst) \in 0..MaxItems
      /\ Items(search) > 0 => Within(atFirst) < Items(search)
    <2>1. atFirst.active \in 0..MaxItems
        BY <1>3 DEF SearchStates
    <2>2. QED BY <1>4, <2>1, MaxItemsAssumption DEF Within
<1>6. /\ within \in SearchStates
      /\ within.found = search.found /\ within.deferred = search.deferred
      /\ Items(search) > 0 => within.active < Items(search)
    <2>1. CASE "within" \in search.due
        BY <1>3, <1>5, <2>1 DEF SearchStates
    <2>2. CASE "within" \notin search.due
        BY <1>3, <1>4, <2>2 DEF SearchInv, Highlighted
    <2>3. QED BY <2>1, <2>2
<1> HIDE DEF within
<1>7. /\ settled \in SearchStates /\ settled.active = within.active
      /\ settled.found = search.found /\ settled.deferred = search.deferred
    BY <1>6 DEF SearchStates
<1> HIDE DEF settled
<1>8. Items(settled) = Items(search)
    BY <1>7 DEF Items
<1>9. Highlighted(settled)
    BY <1>6, <1>7, <1>8 DEF Highlighted
<1>10. QED BY <1>1, <1>7, <1>9, BecomesKeeps

(* Keys, answers and renders make the effects due that they call for.         *)
LEMMA SearchNextKeeps ==
    ASSUME SearchInv, SearchNext \/ Enter
    PROVE  SearchInv'
<1>1. Items(search) \in Nat
    BY ItemsType, MaxItemsAssumption DEF SearchInv
<1>2. /\ \A b \in BOOLEAN : [search EXCEPT !.open = b] \in SearchStates
      /\ \A b \in BOOLEAN, t \in Texts : [search EXCEPT !.text = t, !.open = b] \in SearchStates
      /\ [search EXCEPT !.open = FALSE, !.text = ""] \in SearchStates
      /\ [search EXCEPT !.deferred = search.text] \in SearchStates
    BY TextsAssumption DEF SearchInv, SearchStates
<1>3. CASE OpenByShortcut
    BY <1>2, <1>3, RendersKeep DEF OpenByShortcut, SearchInv, SearchStates
<1>4. CASE PointElsewhere
    BY <1>2, <1>4, RendersKeep DEF PointElsewhere, SearchInv, SearchStates
<1>5. CASE FocusInput
    BY <1>2, <1>5, RendersKeep DEF FocusInput, SearchInv, SearchStates
<1>6. CASE TypeQuery
    <2>1. PICK text \in Texts : Becomes([search EXCEPT !.text = text, !.open = text # ""])
        BY <1>6 DEF TypeQuery
    <2>2. [search EXCEPT !.text = text, !.open = text # ""] \in SearchStates
        BY <1>2
    <2>3. QED BY <2>1, <2>2, RendersKeep DEF SearchInv, SearchStates
<1>7. CASE DeferQuery
    BY <1>2, <1>7, RendersKeep DEF DeferQuery, SearchInv, SearchStates
<1>8. CASE RunEffects
    BY <1>8, EffectsKeep
<1>9. CASE ResultsArrive
    <2>1. PICK text \in search.asked, n \in 0..MaxItems :
            Becomes([search EXCEPT !.found[text] = n, !.asked = @ \ {text}])
        BY <1>9 DEF ResultsArrive
    <2>2. [search EXCEPT !.found[text] = n, !.asked = @ \ {text}] \in SearchStates
        <3>1. n \in Unknown..MaxItems
            BY MaxItemsAssumption DEF Unknown
        <3>2. search.found \in [Keys -> Unknown..MaxItems]
            BY DEF SearchInv, SearchStates
        <3>3. [search.found EXCEPT ![text] = n] \in [Keys -> Unknown..MaxItems]
            BY <3>1, <3>2
        <3>4. QED BY <3>3 DEF SearchInv, SearchStates
    <2>3. QED BY <2>1, <2>2, RendersKeep DEF SearchInv, SearchStates
<1>10. CASE SearchFails
    <2>1. PICK text \in search.asked : Becomes([search EXCEPT !.asked = @ \ {text}])
        BY <1>10 DEF SearchFails
    <2>2. [search EXCEPT !.asked = @ \ {text}] \in SearchStates
        BY DEF SearchInv, SearchStates
    <2>3. QED BY <2>1, <2>2, RendersKeep DEF SearchInv, SearchStates
<1>11. CASE Escape
    BY <1>2, <1>11, RendersKeep DEF Escape, SearchInv, SearchStates
<1>12. CASE ArrowDown
    <2>1. search.active \in Int
        BY MaxItemsAssumption DEF SearchInv, SearchStates
    <2>2. (search.active + 1) % Items(search) \in 0..(Items(search) - 1)
        BY <1>1, <1>12, <2>1 DEF ArrowDown
    <2>3. QED BY <1>12, <2>2, MovesKeep DEF ArrowDown
<1>13. CASE ArrowUp
    <2>1. search.active \in Int
        BY MaxItemsAssumption DEF SearchInv, SearchStates
    <2>2. (search.active - 1 + Items(search)) % Items(search) \in 0..(Items(search) - 1)
        BY <1>1, <1>13, <2>1 DEF ArrowUp
    <2>3. QED BY <1>13, <2>2, MovesKeep DEF ArrowUp
<1>14. CASE Hover
    <2>1. PICK i \in 0..(Items(search) - 1) : search' = [search EXCEPT !.active = i]
        BY <1>14 DEF Hover
    <2>2. QED BY <2>1, MovesKeep
<1>15. CASE Enter
    BY <1>2, <1>15, RendersKeep DEF Enter, SearchInv, SearchStates
<1>16. QED BY <1>3, <1>4, <1>5, <1>6, <1>7, <1>8, <1>9, <1>10, <1>11, <1>12, <1>13, <1>14,
             <1>15 DEF SearchNext

(* Steps of the other parts leave the search box alone.                       *)
LEMMA SearchStep ==
    ASSUME SearchInv, [Next]_vars
    PROVE  SearchInv'
<1>1. CASE UNCHANGED search
    BY <1>1 DEF SearchInv, Highlighted, Items
<1>2. CASE SearchNext \/ GoToResult
    BY <1>2, SearchNextKeeps DEF GoToResult
<1>3. QED BY <1>1, <1>2, PartsAreApart DEF Next, Navigate, vars

(* The highlight is on a result, unless the effect that puts it there is due. *)
THEOREM SearchIsConsistent == Spec => []SearchInv
<1>1. Init => SearchInv
    <2>1. ASSUME search = ClosedSearch
          PROVE  SearchInv
        <3> DEFINE none == [t \in Keys |-> Unknown]
        <3>1. none \in [Keys -> Unknown..MaxItems] /\ 0 \in 0..MaxItems
            BY MaxItemsAssumption DEF Unknown
        <3>2. ClosedSearch = [open |-> FALSE, text |-> "", deferred |-> "", active |-> 0,
                              found |-> none, asked |-> {}, due |-> {}]
            BY DEF ClosedSearch
        <3> HIDE DEF none
        <3>3. ClosedSearch \in SearchStates
            BY <3>1, <3>2, TextsAssumption DEF SearchStates
        <3>4. ~(Items(ClosedSearch) > 0)
            <4>1. Items(ClosedSearch) = 0
                BY <3>2 DEF Items
            <4>2. QED BY <4>1
        <3>5. QED BY <2>1, <3>3, <3>4 DEF SearchInv, Highlighted
    <2>2. QED BY <2>1 DEF Init
<1>2. QED BY <1>1, SearchStep, PTL DEF Spec

(* Whenever the effects have run the highlight is on a listed result, for any   *)
(* number of results and whatever texts, answers and keys follow each other     *)
(* (AppShell, the effects and onKeyDown of the search box).                    *)
THEOREM HighlightStaysOnResults == Spec => []HighlightIsShown
<1>1. SearchInv => HighlightIsShown
    BY DEF SearchInv, Highlighted, HighlightIsShown
<1>2. QED BY <1>1, SearchIsConsistent, PTL

-------------------------------------------------------------------------------
(* The lists.  Rows on the screen count as seen, and what is selected is seen. *)
ListFields == {"at", "param", "text", "deferred", "filter", "page", "size", "last", "selected",
               "seen", "confirm", "batch", "entries"}

ListShape(l) == l = [field \in ListFields |-> l[field]]

(* As a handler leaves it, before it is shown.                                *)
SelectedSeen(l) == ListShape(l) /\ l.selected \subseteq l.seen

ListConsistent(l) == SelectedSeen(l) /\ (l.at # "none" => Shown(l).ids \subseteq l.seen)

ListInv == ListConsistent(list)

(* What is on the screen depends on the view, the cache and the data before.  *)
LEMMA SameIsShown ==
    ASSUME NEW l, NEW m, View(m) = View(l), m.entries = l.entries, m.at = l.at,
           m.last = l.last \/ Own(l).data # NoData
    PROVE  Shown(m) = Shown(l)
<1>1. Own(m) = Own(l)
    BY DEF Own, EntryOf
<1>2. CASE Own(l).data # NoData
    BY <1>1, <1>2 DEF Shown
<1>3. CASE m.last = l.last
    BY <1>1, <1>3 DEF Shown
<1>4. QED BY <1>2, <1>3

(* Noting what is on the screen does not change it.                           *)
LEMMA LookedIsConsistent ==
    ASSUME NEW l, SelectedSeen(l)
    PROVE  ListConsistent(Looked(l))
<1>1. CASE l.at = "none"
    BY <1>1 DEF Looked, ListConsistent
<1>2. CASE l.at # "none"
    <2> DEFINE seen == l.seen \cup Shown(l).ids
               last == IF Own(l).data = NoData THEN l.last ELSE NoData
               m == [l EXCEPT !.seen = seen, !.last = last]
    <2>1. Looked(l) = m
        BY <1>2 DEF Looked
    <2>2. last = l.last \/ Own(l).data # NoData
        OBVIOUS
    <2>3. l.selected \subseteq seen /\ Shown(l).ids \subseteq seen
        BY DEF SelectedSeen
    <2> HIDE DEF seen, last
    <2>4. /\ ListShape(m) /\ m.selected = l.selected /\ m.seen = seen /\ m.last = last
          /\ m.at = l.at /\ m.deferred = l.deferred /\ m.filter = l.filter
          /\ m.page = l.page /\ m.size = l.size /\ m.entries = l.entries
        BY DEF SelectedSeen, ListShape, ListFields
    <2> HIDE DEF m
    <2>5. View(m) = View(l)
        BY <2>4 DEF View
    <2>6. Shown(m) = Shown(l)
        BY <2>2, <2>4, <2>5, SameIsShown
    <2>7. QED BY <2>1, <2>3, <2>4, <2>6 DEF ListConsistent, SelectedSeen
<1>3. QED BY <1>1, <1>2

(* A view that is turned to is noted with all it shows.                       *)
LEMMA ObservingIsConsistent ==
    ASSUME NEW l, NEW m, SelectedSeen(m), NEW o \in Observing(l, m)
    PROVE  ListConsistent(o)
<1>1. CASE o = Looked(m)
    BY <1>1, LookedIsConsistent
<1>2. CASE \E entries, last : o = Looked([m EXCEPT !.entries = entries, !.last = last])
    <2>1. PICK entries, last : o = Looked([m EXCEPT !.entries = entries, !.last = last])
        BY <1>2
    <2>2. SelectedSeen([m EXCEPT !.entries = entries, !.last = last])
        BY DEF SelectedSeen, ListShape, ListFields
    <2>3. QED BY <2>1, <2>2, LookedIsConsistent
<1>3. QED BY <1>1, <1>2 DEF Observing

(* What the handlers make of a list before it is shown.                       *)
LEMMA HandlersKeepSelection ==
    ASSUME NEW l, SelectedSeen(l)
    PROVE  /\ \A x : /\ SelectedSeen([l EXCEPT !.deferred = x])
                     /\ SelectedSeen([l EXCEPT !.page = x])
                     /\ SelectedSeen([l EXCEPT !.entries = x])
                     /\ SelectedSeen([l EXCEPT !.confirm = x])
                     /\ SelectedSeen([l EXCEPT !.batch = x])
                     /\ SelectedSeen([Turned(l) EXCEPT !.text = x])
                     /\ SelectedSeen([Turned(l) EXCEPT !.filter = x])
                     /\ SelectedSeen([Turned(l) EXCEPT !.page = x])
                     /\ SelectedSeen([Turned(l) EXCEPT !.size = x])
           /\ SelectedSeen([Turned(l) EXCEPT !.text = "", !.filter = NoFilter])
           /\ \A param : SelectedSeen(FollowLink(l, param))
           /\ \A page, param : SelectedSeen(Mounted(l, page, param))
<1> USE DEF ListFields
<1>0. \A x : /\ SelectedSeen([l EXCEPT !.confirm = x])
             /\ SelectedSeen([l EXCEPT !.batch = x])
    BY DEF SelectedSeen, ListShape
<1>1. \A x : /\ SelectedSeen([l EXCEPT !.deferred = x])
             /\ SelectedSeen([l EXCEPT !.page = x])
             /\ SelectedSeen([l EXCEPT !.entries = x])
    BY DEF SelectedSeen, ListShape
<1>2. SelectedSeen(Turned(l)) /\ Turned(l).selected = {}
    BY DEF SelectedSeen, ListShape, Turned
<1>3. \A x : /\ SelectedSeen([Turned(l) EXCEPT !.text = x])
             /\ SelectedSeen([Turned(l) EXCEPT !.filter = x])
             /\ SelectedSeen([Turned(l) EXCEPT !.page = x])
             /\ SelectedSeen([Turned(l) EXCEPT !.size = x])
    BY <1>2 DEF SelectedSeen, ListShape
<1>4. SelectedSeen([Turned(l) EXCEPT !.text = "", !.filter = NoFilter])
    BY <1>2 DEF SelectedSeen, ListShape
<1>5. ASSUME NEW param
      PROVE  SelectedSeen(FollowLink(l, param))
    BY DEF FollowLink, SelectedSeen, ListShape
<1>6. ASSUME NEW page, NEW param
      PROVE  SelectedSeen(Mounted(l, page, param))
    BY ZenonT(30) DEF Mounted, NoList, SelectedSeen, ListShape
<1>7. QED BY <1>0, <1>1, <1>3, <1>4, <1>5, <1>6

(* Visiting a page, or following a link, selects nothing.                     *)
LEMMA ListVisitsKeeps ==
    ASSUME ListInv, NEW page, NEW param, ListVisits(page, param)
    PROVE  ListInv'
<1>1. PICK m : SelectedSeen(m) /\ list' \in Observing(list, m)
    <2>1. SelectedSeen(list)
        BY DEF ListInv, ListConsistent
    <2>2. QED BY <2>1, HandlersKeepSelection DEF ListVisits
<1>2. ListConsistent(list')
    BY <1>1, ObservingIsConsistent
<1>3. QED BY <1>2 DEF ListInv

(* Asking again does not change what is on the screen.                        *)
LEMMA ReaskedIsConsistent ==
    ASSUME NEW l, SelectedSeen(l), l.at # "none"
    PROVE  ListConsistent(Reasked(l))
<1>1. PICK entries : Reasked(l) = Looked([l EXCEPT !.entries = entries])
    BY DEF Reasked
<1>2. QED BY <1>1, HandlersKeepSelection, LookedIsConsistent

(* A list that shows what it did before, and has nothing unseen selected.      *)
LEMMA SelectingIsConsistent ==
    ASSUME NEW l, ListConsistent(l), NEW m, SelectedSeen(m), m.seen = l.seen, m.at = l.at,
           m.deferred = l.deferred, m.filter = l.filter, m.page = l.page, m.size = l.size,
           m.entries = l.entries, m.last = l.last
    PROVE  ListConsistent(m)
<1>1. View(m) = View(l)
    BY DEF View
<1>2. Shown(m) = Shown(l)
    BY <1>1, SameIsShown
<1>3. QED BY <1>2 DEF ListConsistent

(* Every handler and answer of the lists keeps the selection seen.            *)
LEMMA ListNextKeeps ==
    ASSUME ListInv, ListNext
    PROVE  ListInv'
<1> SUFFICES ListConsistent(list')
    BY DEF ListInv
<1>0. SelectedSeen(list) /\ ListConsistent(list)
    BY DEF ListInv, ListConsistent
<1>1. ASSUME NEW m, SelectedSeen(m), list' \in Observing(list, m)
      PROVE  ListConsistent(list')
    BY <1>1, ObservingIsConsistent
<1>2. CASE Defer
    BY <1>0, <1>1, <1>2, HandlersKeepSelection DEF Defer
<1>3. CASE ClampPage
    BY <1>0, <1>1, <1>3, HandlersKeepSelection DEF ClampPage
<1>4. CASE ChangeSearch
    <2>1. PICK m \in Searches(list) : list' \in Observing(list, m)
        BY <1>4 DEF ChangeSearch
    <2>2. PICK text : m = [Turned(list) EXCEPT !.text = text]
        BY <2>1 DEF Searches
    <2>3. SelectedSeen(m)
        BY <1>0, <2>2, HandlersKeepSelection
    <2>4. QED BY <1>1, <2>1, <2>3
<1>5. CASE ChangeFilter
    <2>1. PICK m : /\ list' \in Observing(list, m)
                   /\ \/ m \in NodesFilters(list)
                      \/ m \in OperationLogsFilters(list)
                      \/ m \in ProxyRequestLogsFilters(list)
        BY <1>5 DEF ChangeFilter
    <2>2. \/ \E filter : m = [Turned(list) EXCEPT !.filter = filter]
          \/ m = [Turned(list) EXCEPT !.text = "", !.filter = NoFilter]
        BY <2>1 DEF NodesFilters, OperationLogsFilters, ProxyRequestLogsFilters
    <2>3. SelectedSeen(m)
        <3>1. CASE \E filter : m = [Turned(list) EXCEPT !.filter = filter]
            <4>1. PICK filter : m = [Turned(list) EXCEPT !.filter = filter]
                BY <3>1
            <4>2. QED BY <1>0, <4>1, HandlersKeepSelection
        <3>2. CASE m = [Turned(list) EXCEPT !.text = "", !.filter = NoFilter]
            BY <1>0, <3>2, HandlersKeepSelection
        <3>3. QED BY <2>2, <3>1, <3>2
    <2>4. QED BY <1>1, <2>1, <2>3
<1>6. CASE ChangePage
    BY <1>0, <1>1, <1>6, HandlersKeepSelection DEF ChangePage
<1>7. CASE ChangePageSize
    BY <1>0, <1>1, <1>7, HandlersKeepSelection DEF ChangePageSize
<1>8. CASE Arrive
    <2>1. PICK entries : list' = Looked([list EXCEPT !.entries = entries])
        BY <1>8 DEF Arrive
    <2>2. QED BY <1>0, <2>1, HandlersKeepSelection, LookedIsConsistent
<1>9. CASE FetchFails
    <2>1. PICK entries : list' = Looked([list EXCEPT !.entries = entries])
        BY <1>9 DEF FetchFails
    <2>2. QED BY <1>0, <2>1, HandlersKeepSelection, LookedIsConsistent
<1>10. CASE Refetch
    BY <1>0, <1>10, ReaskedIsConsistent DEF Refetch
<1>11. CASE ToggleSelected \/ SelectAll
    <2>1. PICK ids : ids \subseteq list.seen /\ list' = [list EXCEPT !.selected = ids]
        <3>1. list.at # "none" /\ Shown(list).ids \subseteq list.seen
            BY <1>0, <1>11 DEF ToggleSelected, SelectAll, ListFree, ListConsistent
        <3>2. list.selected \subseteq list.seen
            BY <1>0 DEF SelectedSeen
        <3>3. CASE ToggleSelected
            <4>1. PICK id \in Shown(list).ids :
                    list' = [list EXCEPT !.selected =
                        IF id \in list.selected THEN list.selected \ {id}
                        ELSE list.selected \cup {id}]
                BY <3>3 DEF ToggleSelected
            <4>2. QED BY <3>1, <3>2, <4>1
        <3>4. CASE SelectAll
            <4>1. list' = [list EXCEPT !.selected = {}]
                  \/ list' = [list EXCEPT !.selected = Shown(list).ids]
                BY <3>4 DEF SelectAll
            <4>2. QED BY <3>1, <4>1
        <3>5. QED BY <1>11, <3>3, <3>4
    <2>2. SelectedSeen(list')
        BY <1>0, <2>1 DEF SelectedSeen, ListShape, ListFields
    <2>3. /\ list'.seen = list.seen /\ list'.at = list.at /\ list'.deferred = list.deferred
          /\ list'.filter = list.filter /\ list'.page = list.page /\ list'.size = list.size
          /\ list'.entries = list.entries /\ list'.last = list.last
        BY <1>0, <2>1 DEF SelectedSeen, ListShape, ListFields
    <2>4. QED BY <1>0, <2>2, <2>3, SelectingIsConsistent
<1>12. ASSUME NEW confirm, NEW batch, NEW ids \in SUBSET list.selected,
              NEW m, m = [list EXCEPT !.confirm = confirm, !.batch = batch, !.selected = ids]
       PROVE  ListConsistent(m)
    <2>1. SelectedSeen(m)
        BY <1>0, <1>12 DEF SelectedSeen, ListShape, ListFields
    <2>2. /\ m.seen = list.seen /\ m.at = list.at /\ m.deferred = list.deferred
          /\ m.filter = list.filter /\ m.page = list.page /\ m.size = list.size
          /\ m.entries = list.entries /\ m.last = list.last
        BY <1>0, <1>12 DEF SelectedSeen, ListShape, ListFields
    <2>3. QED BY <1>0, <2>1, <2>2, SelectingIsConsistent
<1>13. CASE RequestBatch
    <2>1. list' = [list EXCEPT !.confirm = TRUE, !.batch = list.batch, !.selected = list.selected]
        BY <1>0, <1>13 DEF RequestBatch, SelectedSeen, ListShape, ListFields
    <2>2. QED BY <1>12, <2>1
<1>14. CASE AnswerConfirm
    <2>1. PICK batch : list' = [list EXCEPT !.confirm = FALSE, !.batch = batch]
        BY <1>14 DEF AnswerConfirm
    <2>2. list' = [list EXCEPT !.confirm = FALSE, !.batch = batch, !.selected = list.selected]
        BY <1>0, <2>1 DEF SelectedSeen, ListShape, ListFields
    <2>3. QED BY <1>12, <2>2
<1>15. CASE BatchSucceeds
    <2> DEFINE done == [list EXCEPT !.batch = "none",
                            !.selected = IF list.batch = "mine" THEN {} ELSE list.selected]
    <2>1. list' = done \/ (list.at = "nodes" /\ list' = Reasked(done))
        BY <1>15 DEF BatchSucceeds
    <2>2. done = [list EXCEPT !.confirm = list.confirm, !.batch = "none",
                     !.selected = IF list.batch = "mine" THEN {} ELSE list.selected]
        BY <1>0 DEF SelectedSeen, ListShape, ListFields
    <2>3. done.at = list.at
        BY <1>0 DEF SelectedSeen, ListShape, ListFields
    <2> HIDE DEF done
    <2>4. ListConsistent(done)
        BY <1>12, <2>2
    <2>5. QED BY <2>1, <2>3, <2>4, ReaskedIsConsistent DEF ListConsistent
<1>16. CASE BatchFails
    <2>1. list' = [list EXCEPT !.confirm = list.confirm, !.batch = "none",
                               !.selected = list.selected]
        BY <1>0, <1>16 DEF BatchFails, SelectedSeen, ListShape, ListFields
    <2>2. QED BY <1>12, <2>1
<1>17. QED BY <1>2, <1>3, <1>4, <1>5, <1>6, <1>7, <1>8, <1>9, <1>10, <1>11, <1>13, <1>14,
              <1>15, <1>16 DEF ListNext

(* Steps of the other parts leave the lists alone.                            *)
LEMMA ListStep ==
    ASSUME ListInv, [Next]_vars
    PROVE  ListInv'
<1>1. CASE UNCHANGED list
    BY <1>1 DEF ListInv
<1>2. CASE Navigate \/ GoToResult
    BY <1>2, ListVisitsKeeps DEF Navigate, GoToResult, PartsVisit
<1>3. CASE ListNext
    BY <1>3, ListNextKeeps
<1>4. QED BY <1>1, <1>2, <1>3, PartsAreApart DEF Next, vars

(* What a batch is sent for has been on the screen since the admin last changed *)
(* the view, for any rows, views, sizes and answers (the selection of          *)
(* NodesPage).                                                                *)
THEOREM OnlyShownRowsAreSelected == Spec => []SelectionWasShown
<1>1. Init => ListInv
    <2>1. SelectedSeen(NoList)
        BY DEF NoList, SelectedSeen, ListShape, ListFields
    <2>2. ASSUME Init
          PROVE  \E m : SelectedSeen(m) /\ list \in Observing(NoList, m)
        BY <2>1, <2>2, HandlersKeepSelection DEF Init
    <2>3. QED BY <2>2, ObservingIsConsistent DEF ListInv
<1>2. ListInv /\ [Next]_vars => ListInv'
    BY ListStep
<1>3. ListInv => SelectionWasShown
    BY DEF ListInv, ListConsistent, SelectedSeen, SelectionWasShown
<1>4. QED BY <1>1, <1>2, <1>3, PTL DEF Spec

-------------------------------------------------------------------------------
(* What is invalidated.  A key matches the queries that start with it.         *)
LEMMA Starts ==
    ASSUME NEW S, NEW query \in Seq(S), NEW key \in Seq(S), Len(key) <= Len(query),
           \A i \in 1..Len(key) : query[i] = key[i]
    PROVE  Matches(query, key)
<1> DEFINE n == Len(key)
           start == SubSeq(query, 1, n)
<1>1. n \in Nat /\ Len(query) \in Nat /\ \A i \in 1..n : key[i] \in S
    BY LenProperties
<1> HIDE DEF n
<1>2. /\ start \in Seq(S) /\ Len(start) = IF 1 <= n THEN n - 1 + 1 ELSE 0
      /\ \A i \in 1 .. n - 1 + 1 : start[i] = query[1 + i - 1]
    BY <1>1, SubSeqProperties DEF n
<1> HIDE DEF start
<1>3. /\ Len(start) = n
      /\ \A i \in 1..n : start[i] = key[i]
    <2>1. \A i \in 1..n : i \in 1 .. n - 1 + 1 /\ 1 + i - 1 = i
        BY <1>1
    <2>2. QED BY <1>1, <1>2, <2>1 DEF n
<1>4. start = key
    BY <1>2, <1>3, SeqEqual DEF n
<1>5. QED BY <1>4 DEF Matches, start, n

(* A key matches its prefixes.                                                *)
LEMMA KeysMatch ==
    ASSUME NEW a, NEW b
    PROVE  /\ Matches(<<a>>, <<a>>)
           /\ Matches(<<a, b>>, <<a>>)
           /\ Matches(<<a, b>>, <<a, b>>)
<1> DEFINE one == <<a>>
           two == <<a, b>>
           S == {a, b}
<1>1. one \in Seq(S) /\ two \in Seq(S)
    OBVIOUS
<1>2. Len(one) = 1 /\ Len(two) = 2 /\ two[1] = one[1]
    OBVIOUS
<1> HIDE DEF one, two, S
<1>3. Matches(one, one) /\ Matches(two, two)
    BY <1>1, <1>2, Starts
<1>4. Matches(two, one)
    <2>1. \A i \in 1..Len(one) : two[i] = one[i]
        BY <1>2
    <2>2. Len(one) <= Len(two)
        BY <1>2
    <2>3. QED BY <1>1, <2>1, <2>2, Starts
<1>5. QED BY <1>3, <1>4 DEF one, two

(* The queries of the shell show what no mutation changes.                    *)
LEMMA ShellIsUnaffected ==
    ASSUME NEW page \in AllPages, NEW query \in AppShellQueries, NEW change \in Changes[page]
    PROVE  change.writes \cap Reads(query) = {}
<1>1. Reads(query) = {"system"}
    BY DEF AppShellQueries, Reads
<1>2. "system" \notin change.writes
    BY DEF AllPages, Changes, SubscriptionsChanges, SubscriptionChanges, NodesChanges,
        DeleteGroup, GroupsChanges, KeywordGroupsChanges, CredentialsChanges, Change
<1>3. QED BY <1>1, <1>2

(* A page that shows what a mutation of its own changes invalidates it.       *)
LEMMA ChangesInvalidateWhatIsShown ==
    ASSUME NEW page \in AllPages, NEW drawer \in BOOLEAN, drawer => page = "groups",
           NEW query \in Observed(page, drawer), NEW change \in Changes[page],
           change.writes \cap Reads(query) # {}
    PROVE  \E key \in change.invalidates : Matches(query, key)
<1>1. query \in Queries[page] \/ (page = "groups" /\ query \in DrawerQueries)
    BY ShellIsUnaffected DEF Observed
<1>2. page \in {"subscriptions", "subscription", "nodes", "groups", "keyword-groups", "credentials"}
    BY DEF Changes
<1>3. CASE page = "subscriptions"
    <2>1. query = <<"subscriptions">> /\ <<"subscriptions">> \in change.invalidates
        BY <1>1, <1>3 DEF Queries, SubscriptionsQueries, Changes, SubscriptionsChanges, Change
    <2>2. QED BY <2>1, KeysMatch
<1>4. CASE page = "subscription"
    <2>1. query \in {<<"subscription">>, <<"subscription", "logs">>, <<"subscription", "nodes">>}
        BY <1>1, <1>4 DEF Queries, SubscriptionQueries
    <2>2. {<<"subscription">>, <<"subscription", "logs">>, <<"subscription", "nodes">>}
            \subseteq change.invalidates
        BY <1>4 DEF Changes, SubscriptionChanges, Change
    <2>3. QED BY <2>1, <2>2, KeysMatch
<1>5. CASE page = "nodes"
    <2>1. /\ query \in {<<"nodes", "page">>, <<"runtime", "nodes">>, <<"subscriptions">>,
                        <<"groups">>}
          /\ change.writes \subseteq {"nodes", "memberships"}
          /\ <<"nodes">> \in change.invalidates
        BY <1>1, <1>5 DEF Queries, NodesQueries, Changes, NodesChanges, Change
    <2>2. /\ Reads(<<"runtime", "nodes">>) = {"runtime"}
          /\ Reads(<<"subscriptions">>) = {"subscriptions"}
          /\ Reads(<<"groups">>) = {"groups"}
        BY DEF Reads
    <2>3. query = <<"nodes", "page">>
        BY <2>1, <2>2
    <2>4. QED BY <2>1, <2>3, KeysMatch
<1>6. CASE page = "groups"
    <2>1. /\ query \in {<<"groups">>, <<"nodes", "group">>, <<"nodes", "all-options">>}
          /\ <<"groups">> \in change.invalidates
          /\ <<"nodes">> \in change.invalidates \/ change.writes = {"groups"}
        BY <1>1, <1>6 DEF Queries, GroupsQueries, DrawerQueries, Changes, GroupsChanges,
            DeleteGroup, Change
    <2>2. /\ Reads(<<"nodes", "group">>) = {"nodes", "memberships"}
          /\ Reads(<<"nodes", "all-options">>) = {"nodes", "memberships"}
        BY DEF Reads
    <2>3. query = <<"groups">> \/ <<"nodes">> \in change.invalidates
        BY <2>1, <2>2
    <2>4. QED BY <2>1, <2>3, KeysMatch
<1>7. CASE page = "keyword-groups"
    <2>1. /\ query = <<"keyword-rules">>
          /\ change.writes \subseteq {"groups", "memberships"} \/ query \in change.invalidates
        BY <1>1, <1>7 DEF Queries, KeywordGroupsQueries, Changes, KeywordGroupsChanges, Change
    <2>2. Reads(<<"keyword-rules">>) = {"keyword-rules"}
        BY DEF Reads
    <2>3. QED BY <2>1, <2>2, KeysMatch
<1>8. CASE page = "credentials"
    <2>1. /\ query \in {<<"credentials">>, <<"system", "proxy">>, <<"groups">>, <<"nodes">>}
          /\ change.writes = {"credentials"} /\ <<"credentials">> \in change.invalidates
        BY <1>1, <1>8 DEF Queries, CredentialsQueries, Changes, CredentialsChanges, Change
    <2>2. /\ Reads(<<"system", "proxy">>) = {"system"} /\ Reads(<<"groups">>) = {"groups"}
          /\ Reads(<<"nodes">>) = {"nodes", "memberships"}
        BY DEF Reads
    <2>3. query = <<"credentials">>
        BY <2>1, <2>2
    <2>4. QED BY <2>1, <2>3, KeysMatch
<1>9. QED BY <1>2, <1>3, <1>4, <1>5, <1>6, <1>7, <1>8

-------------------------------------------------------------------------------
(* The cache of server data.  The answer in flight, and the data unless it is *)
(* marked, contain what the admin has been told of - unless the first answer   *)
(* missed it.                                                                  *)
FirstMissed(s) == s.data = Nothing /\ s.known = s.missed

Sound(s) ==
    /\ s \in Stores
    /\ s.known <= s.changes
    /\ s.flight \in Nat => s.known <= s.flight \/ FirstMissed(s)
    /\ ~s.invalid => s.data = Nothing \/ s.known <= s.data \/ s.known = s.missed
    /\ s.call.made > 0 =>
        s.call.made <= s.changes /\ s.call.change.writes \cap Reads(s.query) # {}

(* What a page has to do with it.                                             *)
OnPage(s, page) ==
    /\ s.drawer => page = "groups"
    /\ s.call.mine => s.call.change \in Changes[page]

StoreInv == route \in Routes /\ Sound(store) /\ OnPage(store, route.page)

USE DEF Nothing, Asked, NoFlight

(* No call in flight.                                                         *)
LEMMA NoCallIsCall == NoCall \in Calls /\ ~NoCall.mine /\ NoCall.made = Nothing
    BY MaxWritesAssumption DEF NoCall, Calls

(* Asking again, and marking, leave it sound.                                 *)
LEMMA FetchingIsSound ==
    ASSUME NEW s, Sound(s)
    PROVE  /\ Sound(Fetching(s))
           /\ Fetching(s).drawer = s.drawer /\ Fetching(s).call = s.call
           /\ Fetching(s).query = s.query
<1> DEFINE a == [s EXCEPT !.flight = Asked]
           f == [a EXCEPT !.retried = FALSE]
<1>0. s \in Stores /\ Asked \in NoFlight..MaxWrites /\ Fetching(s) = f
    BY MaxWritesAssumption DEF Sound, FirstMissed, Fetching, Stores
<1>1. /\ a \in Stores /\ a.flight = Asked
      /\ a.query = s.query /\ a.drawer = s.drawer /\ a.data = s.data /\ a.invalid = s.invalid
      /\ a.changes = s.changes /\ a.call = s.call /\ a.known = s.known
      /\ a.missed = s.missed
    BY <1>0 DEF Stores
<1> HIDE DEF a
<1>2. /\ f \in Stores /\ f.flight = Asked
      /\ f.query = s.query /\ f.drawer = s.drawer /\ f.data = s.data /\ f.invalid = s.invalid
      /\ f.changes = s.changes /\ f.call = s.call /\ f.known = s.known
      /\ f.missed = s.missed
    BY <1>1 DEF Stores
<1> HIDE DEF f
<1>3. Sound(f)
    BY <1>2 DEF Sound, FirstMissed
<1>4. QED BY <1>0, <1>2, <1>3

(* Marked data owes the admin nothing.                                        *)
LEMMA MarkedIsSound ==
    ASSUME NEW s \in Stores, s.known <= s.changes,
           s.flight \in Nat => s.known <= s.flight \/ FirstMissed(s),
           s.call.made > 0 =>
               s.call.made <= s.changes /\ s.call.change.writes \cap Reads(s.query) # {}
    PROVE  LET m == [s EXCEPT !.invalid = TRUE] IN
           Sound(m) /\ m.drawer = s.drawer /\ m.call = s.call
<1> DEFINE m == [s EXCEPT !.invalid = TRUE]
<1>1. /\ m \in Stores /\ m.invalid /\ m.flight = s.flight
      /\ m.query = s.query /\ m.drawer = s.drawer /\ m.data = s.data
      /\ m.changes = s.changes /\ m.call = s.call /\ m.known = s.known
      /\ m.missed = s.missed
    BY DEF Stores
<1> HIDE DEF m
<1>2. Sound(m)
    BY <1>1 DEF Sound, FirstMissed
<1>3. QED BY <1>1, <1>2 DEF m

(* Mounting a query asks for what is missing, old or marked.                  *)
LEMMA MountingIsSound ==
    ASSUME NEW s, Sound(s), NEW m \in Mounting(s)
    PROVE  Sound(m) /\ m.drawer = s.drawer /\ m.call = s.call
BY FetchingIsSound DEF Mounting

(* The admin turns to another page.                                           *)
LEMMA StoreVisitsKeeps ==
    ASSUME StoreInv, NEW page, StoreVisits(page)
    PROVE  Sound(store') /\ OnPage(store', page)
<1>1. CASE page = route.page
    BY <1>1 DEF StoreVisits, StoreInv
<1>2. CASE page # route.page
    <2> DEFINE d == [store EXCEPT !.drawer = FALSE]
               call == [store.call EXCEPT !.mine = FALSE]
               left == [d EXCEPT !.call = call]
    <2>0. store \in Stores /\ store.call \in Calls
        BY DEF StoreInv, Sound, FirstMissed, Stores
    <2>1. store' \in Mounting(left) \/ store' = left
        BY <1>2, <2>0 DEF StoreVisits, Stores, Calls
    <2>2. /\ call \in Calls /\ ~call.mine
          /\ call.change = store.call.change /\ call.made = store.call.made
        BY <2>0 DEF Calls
    <2>3. /\ d \in Stores /\ ~d.drawer /\ d.invalid = store.invalid /\ d.flight = store.flight
          /\ d.query = store.query /\ d.data = store.data
          /\ d.changes = store.changes /\ d.known = store.known /\ d.missed = store.missed
        BY <2>0 DEF Stores
    <2> HIDE DEF call, d
    <2>4. /\ left \in Stores /\ ~left.drawer /\ left.invalid = store.invalid
          /\ left.flight = store.flight
          /\ left.query = store.query /\ left.data = store.data
          /\ left.changes = store.changes /\ left.call = call /\ left.known = store.known
          /\ left.missed = store.missed
        BY <2>2, <2>3 DEF Stores
    <2> HIDE DEF left
    <2>5. Sound(left)
        BY <2>2, <2>4 DEF StoreInv, Sound, FirstMissed
    <2>6. Sound(store') /\ store'.drawer = left.drawer /\ store'.call = left.call
        BY <2>1, <2>5, MountingIsSound
    <2>7. QED BY <2>2, <2>4, <2>6 DEF OnPage
<1>3. QED BY <1>1, <1>2

(* The admin is told that the change was made.                                *)
LEMMA AcknowledgeKeeps ==
    ASSUME StoreInv, Acknowledge
    PROVE  Sound(store') /\ OnPage(store', route.page)
<1> DEFINE call == store.call
           seen == call.mine /\ Active /\ call.made > store.known
           known == IF seen THEN call.made ELSE store.known
           missed == IF seen /\ FirstIsOnItsWay THEN call.made ELSE store.missed
           drawer == store.drawer /\ ~(call.mine /\ call.change = DeleteGroup)
           n == [store EXCEPT !.call = NoCall]
           d == [n EXCEPT !.drawer = drawer]
           k == [d EXCEPT !.known = known]
           told == [k EXCEPT !.missed = missed]
           matches == \E key \in call.change.invalidates : Matches(store.query, key)
<1>1. /\ store \in Stores /\ store.call \in Calls /\ store.known \in 0..MaxWrites
      /\ store.missed \in 0..MaxWrites /\ store.changes \in 0..MaxWrites /\ store.known <= store.changes
      /\ call.made > 0 => call.made <= store.changes
                          /\ call.change.writes \cap Reads(store.query) # {}
    BY DEF StoreInv, Sound, FirstMissed, Stores
<1>2. store' = IF matches THEN Invalidate(told, Active) ELSE told
    BY <1>1 DEF Acknowledge, Stores
<1>3. seen => matches
    <2>1. SUFFICES ASSUME seen PROVE matches
        OBVIOUS
    <2>2. call.made > 0
        BY <1>1, <2>1, MaxWritesAssumption DEF Calls
    <2>3. route.page \in AllPages /\ store.drawer \in BOOLEAN
        BY <1>1, VisitedAssumption DEF StoreInv, Routes, Stores
    <2>4. QED BY <1>1, <2>1, <2>2, <2>3, ChangesInvalidateWhatIsShown DEF Active, StoreInv, OnPage
<1>4. /\ known \in 0..MaxWrites /\ store.known <= known /\ known <= store.changes
      /\ missed \in 0..MaxWrites
    BY <1>1, MaxWritesAssumption DEF Calls
<1>5. drawer \in BOOLEAN /\ (drawer => route.page = "groups")
    BY <1>1 DEF StoreInv, OnPage, Stores
<1>6. /\ n \in Stores /\ n.query = store.query /\ n.data = store.data /\ n.flight = store.flight
      /\ n.invalid = store.invalid /\ n.changes = store.changes /\ n.call = NoCall
    BY <1>1, NoCallIsCall DEF Stores
<1>7. seen => Active /\ (FirstIsOnItsWay => known = missed)
    OBVIOUS
<1>8. ~seen => known = store.known /\ missed = store.missed
    OBVIOUS
<1> HIDE DEF n, drawer, known, missed, seen, matches
<1>9. /\ d \in Stores /\ d.query = store.query /\ d.data = store.data /\ d.flight = store.flight
      /\ d.invalid = store.invalid /\ d.changes = store.changes /\ d.call = NoCall
      /\ d.drawer = drawer
    BY <1>5, <1>6 DEF Stores
<1> HIDE DEF d
<1>k. /\ k \in Stores /\ k.query = store.query /\ k.data = store.data
      /\ k.flight = store.flight /\ k.invalid = store.invalid
      /\ k.changes = store.changes /\ k.call = NoCall
      /\ k.drawer = drawer /\ k.known = known
    BY <1>4, <1>9 DEF Stores
<1> HIDE DEF k
<1>10. /\ told \in Stores /\ told.query = store.query /\ told.data = store.data
       /\ told.flight = store.flight /\ told.invalid = store.invalid
       /\ told.changes = store.changes /\ told.call = NoCall
       /\ told.drawer = drawer /\ told.known = known /\ told.missed = missed
    BY <1>4, <1>k DEF Stores
<1> HIDE DEF told
<1>11. CASE ~seen
    <2>1. Sound(told)
        BY <1>4, <1>8, <1>10, <1>11, NoCallIsCall DEF StoreInv, Sound, FirstMissed
    <2>2. store' = told \/ store' = [told EXCEPT !.invalid = TRUE]
          \/ store' = [Fetching(told) EXCEPT !.invalid = TRUE]
        BY <1>2 DEF Invalidate
    <2>3. Sound(store') /\ store'.drawer = told.drawer /\ store'.call = told.call
        <3>1. CASE store' = told
            BY <2>1, <3>1
        <3>2. CASE store' = [told EXCEPT !.invalid = TRUE]
            BY <2>1, <3>2, MarkedIsSound DEF Sound, FirstMissed
        <3>3. CASE store' = [Fetching(told) EXCEPT !.invalid = TRUE]
            <4>1. /\ Sound(Fetching(told)) /\ Fetching(told).drawer = told.drawer
                  /\ Fetching(told).call = told.call
                BY <2>1, FetchingIsSound
            <4>2. QED BY <3>3, <4>1, MarkedIsSound DEF Sound, FirstMissed
        <3>4. QED BY <2>2, <3>1, <3>2, <3>3
    <2>4. QED BY <1>5, <1>10, <2>3, NoCallIsCall DEF OnPage
<1>12. CASE seen /\ (told.data # Nothing \/ told.flight = NoFlight)
    <2>1. store' = [Fetching(told) EXCEPT !.invalid = TRUE]
        BY <1>2, <1>3, <1>7, <1>12 DEF Invalidate
    <2> DEFINE a == [told EXCEPT !.flight = Asked]
               f == [a EXCEPT !.retried = FALSE]
    <2>2. Asked \in NoFlight..MaxWrites /\ Fetching(told) = f
        BY <1>10, MaxWritesAssumption DEF Fetching, Stores
    <2>3. /\ a \in Stores /\ a.flight = Asked /\ a.query = told.query /\ a.drawer = told.drawer
          /\ a.changes = told.changes /\ a.call = told.call /\ a.known = told.known
        BY <1>10, <2>2 DEF Stores
    <2> HIDE DEF a
    <2>4. /\ f \in Stores /\ f.flight = Asked /\ f.query = told.query /\ f.drawer = told.drawer
          /\ f.changes = told.changes /\ f.call = told.call /\ f.known = told.known
        BY <2>3 DEF Stores
    <2> HIDE DEF f
    <2>5. f.known <= f.changes /\ ~(f.flight \in Nat) /\ ~(f.call.made > 0)
        BY <1>4, <1>10, <2>4, NoCallIsCall
    <2>6. Sound(store') /\ store'.drawer = f.drawer /\ store'.call = f.call
        BY <2>1, <2>2, <2>4, <2>5, MarkedIsSound
    <2>7. QED BY <1>5, <1>10, <2>4, <2>6, NoCallIsCall DEF OnPage
<1>13. CASE seen /\ told.data = Nothing /\ told.flight # NoFlight
    <2>1. store' = [told EXCEPT !.invalid = TRUE]
        BY <1>2, <1>3, <1>13 DEF Invalidate
    <2>2. told.flight \in Nat => FirstMissed(told)
        BY <1>7, <1>10, <1>13 DEF FirstIsOnItsWay, FirstMissed
    <2>3. told.known <= told.changes /\ ~(told.call.made > 0)
        BY <1>4, <1>10, NoCallIsCall
    <2>4. Sound(store') /\ store'.drawer = told.drawer /\ store'.call = told.call
        BY <1>10, <2>1, <2>2, <2>3, MarkedIsSound
    <2>5. QED BY <1>5, <1>10, <2>4, NoCallIsCall DEF OnPage
<1>14. QED BY <1>11, <1>12, <1>13

(* Every fetch, answer, change and acknowledgement keeps the store sound.     *)
LEMMA StoreNextKeeps ==
    ASSUME StoreInv, StoreNext
    PROVE  Sound(store') /\ OnPage(store', route.page)
<1>0. /\ store \in Stores /\ store.call \in Calls /\ store.known \in 0..MaxWrites
      /\ store.missed \in 0..MaxWrites /\ store.changes \in 0..MaxWrites /\ Sound(store)
    BY DEF StoreInv, Sound, FirstMissed, Stores
<1>1. CASE OpenDrawer
    <2> DEFINE open == [store EXCEPT !.drawer = TRUE]
    <2>1. store' \in Mounting(open) \/ store' = open
        BY <1>1 DEF OpenDrawer
    <2>2. Sound(open) /\ open.call = store.call
        BY <1>0 DEF Sound, FirstMissed, Stores
    <2> HIDE DEF open
    <2>3. Sound(store') /\ store'.call = store.call
        BY <2>1, <2>2, MountingIsSound
    <2>4. QED BY <1>1, <2>3 DEF OpenDrawer, StoreInv, OnPage
<1>2. CASE CloseDrawer
    BY <1>0, <1>2 DEF CloseDrawer, StoreInv, Sound, FirstMissed, Stores, OnPage
<1>3. CASE Read
    <2> DEFINE missed == IF store.data = Nothing THEN 0 ELSE store.missed
               r == [store EXCEPT !.flight = store.changes]
               s == [r EXCEPT !.missed = missed]
    <2>1. store' = s
        BY <1>0, <1>3 DEF Read, Stores
    <2>2. /\ missed \in 0..MaxWrites /\ store.changes \in NoFlight..MaxWrites
          /\ store.data # Nothing => missed = store.missed
        BY <1>0, MaxWritesAssumption
    <2>3. /\ r \in Stores /\ r.flight = store.changes /\ r.drawer = store.drawer
          /\ r.query = store.query /\ r.changes = store.changes /\ r.call = store.call
          /\ r.data = store.data /\ r.invalid = store.invalid /\ r.known = store.known
        BY <1>0, <2>2 DEF Stores
    <2> HIDE DEF missed, r
    <2>4. /\ s \in Stores /\ s.flight = store.changes /\ s.drawer = store.drawer
          /\ s.query = store.query /\ s.changes = store.changes /\ s.call = store.call
          /\ s.data = store.data /\ s.invalid = store.invalid /\ s.known = store.known
          /\ s.missed = missed
        BY <2>2, <2>3 DEF Stores
    <2> HIDE DEF s
    <2>5. QED BY <1>0, <2>1, <2>2, <2>4 DEF StoreInv, Sound, FirstMissed, OnPage
<1>4. CASE AnswerArrives
    <2> DEFINE d == [store EXCEPT !.data = store.flight]
               v == [d EXCEPT !.invalid = FALSE]
               a == [v EXCEPT !.flight = NoFlight]
    <2>0. /\ store' = a /\ store.flight \in Nothing..MaxWrites
          /\ store.known <= store.flight \/ store.known = store.missed
          /\ NoFlight \in NoFlight..MaxWrites
        BY <1>0, <1>4, MaxWritesAssumption DEF AnswerArrives, Sound, Stores, FirstMissed
    <2>1. /\ d \in Stores /\ d.data = store.flight /\ d.drawer = store.drawer
          /\ d.query = store.query /\ d.changes = store.changes /\ d.call = store.call
          /\ d.known = store.known /\ d.missed = store.missed
        BY <1>0, <2>0 DEF Stores
    <2> HIDE DEF d
    <2>2. /\ v \in Stores /\ v.data = store.flight /\ v.drawer = store.drawer
          /\ v.query = store.query /\ v.changes = store.changes /\ v.call = store.call
          /\ v.known = store.known /\ v.missed = store.missed
        BY <2>1 DEF Stores
    <2> HIDE DEF v
    <2>3. /\ a \in Stores /\ a.data = store.flight /\ a.drawer = store.drawer
          /\ a.query = store.query /\ a.changes = store.changes /\ a.call = store.call
          /\ a.known = store.known /\ a.missed = store.missed /\ a.flight = NoFlight
        BY <2>0, <2>2 DEF Stores
    <2> HIDE DEF a
    <2>4. QED BY <1>0, <2>0, <2>3 DEF StoreInv, Sound, FirstMissed, OnPage
<1>5. CASE QueryFails
    <2> DEFINE g == [store EXCEPT !.flight = NoFlight]
               a == [store EXCEPT !.flight = Asked]
               t == [a EXCEPT !.retried = TRUE]
    <2>0. store' = g \/ store' = t
        BY <1>0, <1>5 DEF QueryFails, Stores
    <2>1. Sound(g) /\ g.drawer = store.drawer /\ g.call = store.call
        BY <1>0, MaxWritesAssumption DEF Sound, FirstMissed, Stores
    <2>2. Sound(a) /\ a.drawer = store.drawer /\ a.call = store.call
        BY <1>0, MaxWritesAssumption DEF Sound, FirstMissed, Stores
    <2> HIDE DEF g, a
    <2>3. Sound(t) /\ t.drawer = a.drawer /\ t.call = a.call
        BY <2>2 DEF Sound, FirstMissed, Stores
    <2> HIDE DEF t
    <2>4. QED BY <2>0, <2>1, <2>2, <2>3 DEF StoreInv, OnPage
<1>6. CASE Poll
    BY <1>0, <1>6, FetchingIsSound DEF Poll, StoreInv, OnPage
<1>7. CASE Request
    <2>1. PICK change \in Changes[route.page] :
            store' = [store EXCEPT !.call = [change |-> change, mine |-> TRUE, made |-> Nothing]]
        BY <1>7 DEF Request
    <2> DEFINE call == [change |-> change, mine |-> TRUE, made |-> Nothing]
               s == [store EXCEPT !.call = call]
    <2>2. route.page \in AllPages
        BY VisitedAssumption DEF StoreInv, Routes
    <2>3. call \in Calls /\ call.change = change /\ call.mine /\ call.made = Nothing
        BY <2>2, MaxWritesAssumption DEF Calls
    <2> HIDE DEF call
    <2>4. Sound(s) /\ s.drawer = store.drawer /\ s.call = call
        BY <1>0, <2>3 DEF Sound, FirstMissed, Stores
    <2> HIDE DEF s
    <2>5. store' = s
        BY <2>1 DEF s, call
    <2>6. QED BY <2>3, <2>4, <2>5 DEF StoreInv, OnPage
<1>8. CASE Carry
    <2> DEFINE call(made) == [store.call EXCEPT !.made = made]
    <2>1. ASSUME NEW made \in Nothing..MaxWrites
          PROVE  /\ call(made) \in Calls /\ call(made).made = made
                 /\ call(made).change = store.call.change /\ call(made).mine = store.call.mine
        BY <1>0 DEF Calls
    <2>2. CASE Affected(store.call.change)
        <3> DEFINE more == store.changes + 1
                   c == call(more)
                   s == [store EXCEPT !.changes = more]
                   t == [s EXCEPT !.call = c]
        <3>1. more \in 0..MaxWrites /\ more \in Nothing..MaxWrites /\ more = store.changes + 1
            BY <1>0, <1>8, <2>2, MaxWritesAssumption DEF Carry
        <3>2. store' = t
            BY <1>0, <1>8, <2>2 DEF Carry, Stores, Calls
        <3>3. /\ c \in Calls /\ c.made = more
              /\ c.change = store.call.change /\ c.mine = store.call.mine
            BY <2>1, <3>1
        <3> HIDE DEF more, c
        <3>4. /\ s \in Stores /\ s.changes = more /\ s.drawer = store.drawer
              /\ s.query = store.query /\ s.known = store.known /\ s.flight = store.flight
              /\ s.data = store.data /\ s.invalid = store.invalid /\ s.missed = store.missed
            BY <1>0, <3>1 DEF Stores
        <3> HIDE DEF s
        <3>5. /\ t \in Stores /\ t.changes = more /\ t.drawer = store.drawer /\ t.call = c
              /\ t.query = store.query /\ t.known = store.known /\ t.flight = store.flight
              /\ t.data = store.data /\ t.invalid = store.invalid /\ t.missed = store.missed
            BY <3>3, <3>4 DEF Stores
        <3> HIDE DEF t
        <3>6. Sound(t)
            BY <1>0, <2>2, <3>1, <3>3, <3>5 DEF Sound, FirstMissed, Affected
        <3>7. QED BY <3>2, <3>3, <3>5, <3>6 DEF StoreInv, OnPage
    <2>3. CASE ~Affected(store.call.change)
        <3> DEFINE c == call(0)
                   t == [store EXCEPT !.call = c]
        <3>1. store' = t
            BY <1>0, <1>8, <2>3 DEF Carry, Stores, Calls
        <3>2. /\ c \in Calls /\ c.made = 0
              /\ c.change = store.call.change /\ c.mine = store.call.mine
            BY <2>1, MaxWritesAssumption
        <3> HIDE DEF c
        <3>3. Sound(t) /\ t.drawer = store.drawer /\ t.call = c
            BY <1>0, <3>2 DEF Sound, FirstMissed, Stores
        <3> HIDE DEF t
        <3>4. QED BY <3>1, <3>2, <3>3 DEF StoreInv, OnPage
    <2>4. QED BY <2>2, <2>3
<1>9. CASE Acknowledge
    BY <1>9, AcknowledgeKeeps
<1>10. CASE CallFails
    <2>1. store' = [store EXCEPT !.call = NoCall]
        BY <1>10 DEF CallFails
    <2>2. QED BY <1>0, <2>1, NoCallIsCall DEF Sound, FirstMissed, Stores, StoreInv, OnPage
<1>11. QED BY <1>1, <1>2, <1>3, <1>4, <1>5, <1>6, <1>7, <1>8, <1>9, <1>10 DEF StoreNext

(* At the start nothing was fetched and nothing changed.                      *)
LEMMA StoreInit == Init => StoreInv
<1> SUFFICES ASSUME Init PROVE StoreInv
    OBVIOUS
<1>1. PICK query \in Watched :
        store = Fetching(NewQuery(query)) \/ store = NewQuery(query)
    BY DEF Init
<1> DEFINE s == NewQuery(query)
<1>2. /\ s \in Stores /\ ~s.drawer /\ s.call = NoCall /\ s.data = Nothing /\ s.flight = NoFlight
      /\ s.changes = 0 /\ s.known = 0 /\ s.missed = 0
    BY NoCallIsCall, MaxWritesAssumption DEF NewQuery, Stores
<1> HIDE DEF s
<1>3. Sound(s)
    BY <1>2, NoCallIsCall DEF Sound, FirstMissed
<1>4. Sound(store) /\ ~store.drawer /\ store.call = NoCall
    BY <1>1, <1>2, <1>3, FetchingIsSound DEF s
<1>5. QED BY <1>4, NoCallIsCall DEF Init, StoreInv, OnPage

(* A step of any other part leaves the route and the store as they are.       *)
LEMMA StoreStep ==
    ASSUME StoreInv, [Next]_vars
    PROVE  StoreInv'
<1>1. CASE UNCHANGED <<route, store>>
    BY <1>1 DEF StoreInv, Sound, FirstMissed, OnPage
<1>2. CASE Navigate \/ GoToResult
    <2>1. PICK page \in Visited, param \in Texts : PartsVisit(page, param)
        BY <1>2 DEF Navigate, GoToResult
    <2>2. route' = [page |-> page, param |-> param] /\ StoreVisits(page)
        BY <2>1 DEF PartsVisit
    <2>3. route' \in Routes /\ route'.page = page
        BY <2>2 DEF Routes
    <2>4. Sound(store') /\ OnPage(store', page)
        BY <2>2, StoreVisitsKeeps
    <2>5. QED BY <2>3, <2>4 DEF StoreInv, Sound, FirstMissed, OnPage
<1>3. CASE StoreNext
    <2>1. route' = route
        BY <1>3, PartsAreApart
    <2>2. QED BY <1>3, <2>1, StoreNextKeeps DEF StoreInv, Sound, FirstMissed, OnPage
<1>4. QED BY <1>1, <1>2, <1>3, PartsAreApart DEF Next, vars

(* Unless it is marked, the data contains what the admin was told of and its   *)
(* first answer did not miss.                                                  *)
THEOREM StoreIsSound == Spec => []StoreInv
<1>1. QED BY StoreInit, StoreStep, PTL DEF Spec

(* An admin who is told that a change was made sees it in the lists of the    *)
(* page they made it on, as soon as those are neither being fetched nor marked *)
(* (invalidateQueries in every onSuccess); the exception is a change they were  *)
(* told of while the first answer of the list, read before it, was on its way. *)
THEOREM OwnChangesBecomeVisible == Spec => []OwnChangesAreSeen
<1>1. StoreInv => OwnChangesAreSeen
    BY MaxWritesAssumption DEF StoreInv, Sound, FirstMissed, Stores, OwnChangesAreSeen
<1>2. QED BY <1>1, StoreIsSound, PTL

-------------------------------------------------------------------------------
(* The lists again: their types, and the page they are turned to.              *)
Caches == UNION {[views -> Entries] : views \in SUBSET Views}

Lists == [at : {"none"} \cup DOMAIN ListPages, param : Texts, text : Texts, deferred : Texts,
          filter : Filters, page : Nat \ {0}, size : Sizes, last : Data, selected : SUBSET Rows,
          seen : SUBSET Rows, confirm : BOOLEAN, batch : {"none", "mine", "old"},
          entries : Caches]

OwnIsCached(l) == l.at # "none" => View(l) \in DOMAIN l.entries

(* A cache maps views to entries,                                             *)
LEMMA CachesHoldEntries ==
    ASSUME NEW entries \in Caches
    PROVE  DOMAIN entries \subseteq Views /\ \A view \in DOMAIN entries : entries[view] \in Entries
BY DEF Caches

(* ... every such map is a cache,                                             *)
LEMMA CachesAreMade ==
    ASSUME NEW views \in SUBSET Views, NEW entries \in [views -> Entries]
    PROVE  entries \in Caches
BY DEF Caches

(* ... and setting an entry leaves one.                                       *)
LEMMA PutIsCache ==
    ASSUME NEW entries \in Caches, NEW view \in Views, NEW entry \in Entries
    PROVE  Put(entries, view, entry) \in Caches
<1> DEFINE views == DOMAIN entries \cup {view}
           new == [v \in views |-> IF v = view THEN entry ELSE entries[v]]
<1>1. Put(entries, view, entry) = new
    BY DEF Put
<1>2. views \in SUBSET Views /\ new \in [views -> Entries]
    BY CachesHoldEntries
<1>3. new \in Caches
    BY <1>2, CachesAreMade
<1>4. QED BY <1>1, <1>3

(* Answers are data; a list has a first page.                                 *)
LEMMA NumbersAreData ==
    /\ NoData \in Data
    /\ \A data \in Data : data.ids \subseteq Rows /\ PagesOf(data) \in Nat \ {0}
    /\ PagesOf(NoData) = 1
    /\ \A view \in Views : \A data \in Answers(view) : data \in Data /\ data # NoData
<1>1. NoData \in Data
    BY DEF Data
<1>2. PagesOf(NoData) = 1 /\ NoData.ids \subseteq Rows
    BY DEF PagesOf, NoData
<1>3. ASSUME NEW size \in Sizes, NEW data \in Answers([size |-> size])
      PROVE  data.ids \subseteq Rows /\ PagesOf(data) \in Nat \ {0}
    <2>1. PICK ids \in SUBSET Rows, total \in Totals :
            data = [ids |-> ids, total |-> total, size |-> size]
        BY DEF Answers
    <2>2. total \in Nat /\ size \in Nat \ {0}
        BY ListAssumption
    <2>3. (total + size - 1) \div size \in Nat \ {0} \/ total = 0
        BY <2>2
    <2>4. data.ids = ids /\ data.total = total /\ data.size = size
        BY <2>1
    <2>5. data.ids \subseteq Rows
        BY <2>4
    <2>6. PagesOf(data) = IF total = 0 THEN 1 ELSE (total + size - 1) \div size
        BY <2>4 DEF PagesOf
    <2>7. QED BY <2>3, <2>5, <2>6
<1>4. ASSUME NEW view \in Views, NEW data \in Answers(view)
      PROVE  data \in Data /\ data # NoData
    <2>1. view.size \in Sizes /\ view.size # 0
        BY ListAssumption DEF Views
    <2>2. Answers(view) = Answers([size |-> view.size])
        BY DEF Answers
    <2>3. data \in Data
        BY <2>1, <2>2 DEF Data
    <2>4. data.size = view.size
        BY DEF Answers
    <2>5. NoData.size = 0
        BY DEF NoData
    <2>6. QED BY <2>1, <2>3, <2>4, <2>5
<1>5. ASSUME NEW data \in Data
      PROVE  data.ids \subseteq Rows /\ PagesOf(data) \in Nat \ {0}
    <2>1. data = NoData \/ \E size \in Sizes : data \in Answers([size |-> size])
        BY DEF Data
    <2>2. CASE data = NoData
        BY <1>2, <2>2
    <2>3. CASE \E size \in Sizes : data \in Answers([size |-> size])
        BY <1>3, <2>3
    <2>4. QED BY <2>1, <2>2, <2>3
<1>6. QED BY <1>1, <1>2, <1>4, <1>5

(* What the cache has for the view, and what is shown of it.                  *)
LEMMA OwnIsEntry ==
    ASSUME NEW l \in Lists
    PROVE  /\ Own(l) \in Entries /\ Own(l).data \in Data
           /\ NoEntry \in Entries
           /\ Shown(l) \in Data
           /\ l.at # "none" => View(l) \in Views
<1>1. NoEntry \in Entries
    BY NumbersAreData DEF NoEntry, Entries
<1>2. Own(l) \in Entries
    BY <1>1, CachesHoldEntries DEF Own, EntryOf, Lists
<1>3. Own(l).data \in Data
    BY <1>2 DEF Entries
<1>4. Shown(l) \in Data
    BY <1>3 DEF Shown, Lists
<1>5. l.at # "none" => View(l) \in Views
    BY DEF Lists, View, Views
<1>6. QED BY <1>1, <1>2, <1>3, <1>4, <1>5

(* Setting one field of a list to a value of its type leaves a list.          *)
LEMMA FieldsAreSet ==
    ASSUME NEW l \in Lists
    PROVE  /\ \A x \in Texts : [l EXCEPT !.text = x] \in Lists
           /\ \A x \in Texts : [l EXCEPT !.deferred = x] \in Lists
           /\ \A x \in Filters : [l EXCEPT !.filter = x] \in Lists
           /\ \A x \in Nat \ {0} : [l EXCEPT !.page = x] \in Lists
           /\ \A x \in Sizes : [l EXCEPT !.size = x] \in Lists
           /\ \A x \in Data : [l EXCEPT !.last = x] \in Lists
           /\ \A x \in SUBSET Rows : [l EXCEPT !.selected = x] \in Lists
           /\ \A x \in SUBSET Rows : [l EXCEPT !.seen = x] \in Lists
           /\ \A x \in BOOLEAN : [l EXCEPT !.confirm = x] \in Lists
           /\ \A x \in {"none", "mine", "old"} : [l EXCEPT !.batch = x] \in Lists
           /\ \A x \in Caches : [l EXCEPT !.entries = x] \in Lists
<1>1. /\ \A x \in Texts : [l EXCEPT !.text = x] \in Lists
      /\ \A x \in Texts : [l EXCEPT !.deferred = x] \in Lists
      /\ \A x \in Filters : [l EXCEPT !.filter = x] \in Lists
    BY DEF Lists
<1>2. /\ \A x \in Nat \ {0} : [l EXCEPT !.page = x] \in Lists
      /\ \A x \in Sizes : [l EXCEPT !.size = x] \in Lists
    BY DEF Lists
<1>3. \A x \in Data : [l EXCEPT !.last = x] \in Lists
    BY DEF Lists
<1>4. \A x \in SUBSET Rows : [l EXCEPT !.selected = x] \in Lists
    BY DEF Lists
<1>5. \A x \in SUBSET Rows : [l EXCEPT !.seen = x] \in Lists
    BY DEF Lists
<1>6. \A x \in BOOLEAN : [l EXCEPT !.confirm = x] \in Lists
    BY DEF Lists
<1>7. \A x \in {"none", "mine", "old"} : [l EXCEPT !.batch = x] \in Lists
    BY DEF Lists
<1>8. \A x \in Caches : [l EXCEPT !.entries = x] \in Lists
    BY DEF Lists
<1>9. QED BY <1>1, <1>2, <1>3, <1>4, <1>5, <1>6, <1>7, <1>8

(* Conversely, fields of their types make a list.                             *)
LEMMA FieldsMakeList ==
    ASSUME NEW l, ListShape(l), l.at \in {"none"} \cup DOMAIN ListPages, l.param \in Texts,
           l.text \in Texts, l.deferred \in Texts, l.filter \in Filters, l.page \in Nat \ {0},
           l.size \in Sizes, l.last \in Data, l.selected \in SUBSET Rows,
           l.seen \in SUBSET Rows, l.confirm \in BOOLEAN, l.batch \in {"none", "mine", "old"},
           l.entries \in Caches
    PROVE  l \in Lists
BY DEF Lists, ListShape, ListFields

(* Going to the first page of a changed view.                                 *)
LEMMA TurnedIsList ==
    ASSUME NEW l \in Lists
    PROVE  /\ Turned(l) \in Lists /\ Turned(l).page = 1 /\ Turned(l).at = l.at
           /\ Turned(l).entries = l.entries /\ Turned(l).last = l.last
<1>1. ListShape(l)
    BY DEF Lists, ListShape, ListFields
<1>2. ListShape(Turned(l))
    BY <1>1 DEF ListShape, ListFields, Turned
<1>3. /\ Turned(l).page = 1 /\ Turned(l).selected = {} /\ Turned(l).seen = {}
      /\ Turned(l).at = l.at /\ Turned(l).param = l.param /\ Turned(l).text = l.text
      /\ Turned(l).deferred = l.deferred /\ Turned(l).filter = l.filter
      /\ Turned(l).size = l.size /\ Turned(l).last = l.last
      /\ Turned(l).confirm = l.confirm /\ Turned(l).batch = l.batch
      /\ Turned(l).entries = l.entries
    BY <1>1 DEF ListShape, ListFields, Turned
<1>4. /\ l.at \in {"none"} \cup DOMAIN ListPages /\ l.param \in Texts
      /\ l.text \in Texts /\ l.deferred \in Texts /\ l.filter \in Filters
      /\ l.size \in Sizes /\ l.last \in Data
      /\ l.confirm \in BOOLEAN /\ l.batch \in {"none", "mine", "old"} /\ l.entries \in Caches
    BY DEF Lists
<1> HIDE DEF Turned
<1>5. Turned(l) \in Lists
    BY <1>2, <1>3, <1>4, FieldsMakeList
<1>6. QED BY <1>3, <1>5

(* Noting what is on the screen leaves page, view and cache.                  *)
LEMMA LookedIsList ==
    ASSUME NEW l \in Lists
    PROVE  /\ Looked(l) \in Lists /\ Looked(l).at = l.at /\ Looked(l).page = l.page
           /\ Looked(l).entries = l.entries /\ View(Looked(l)) = View(l)
           /\ Own(Looked(l)) = Own(l)
           /\ Looked(l).last = l.last \/ Own(l).data # NoData
<1>1. CASE l.at = "none"
    BY <1>1 DEF Looked
<1>2. CASE l.at # "none"
    <2> DEFINE seen == l.seen \cup Shown(l).ids
               last == IF Own(l).data = NoData THEN l.last ELSE NoData
               s == [l EXCEPT !.seen = seen]
               m == [s EXCEPT !.last = last]
    <2>1. Looked(l) = m
        BY <1>2 DEF Looked
    <2>2. seen \in SUBSET Rows
        BY OwnIsEntry, NumbersAreData DEF Lists
    <2>3. last \in Data
        BY NumbersAreData DEF Lists
    <2>4. last = l.last \/ Own(l).data # NoData
        OBVIOUS
    <2> HIDE DEF seen, last
    <2>5. s \in Lists
        BY <2>2, FieldsAreSet
    <2>6. /\ s.at = l.at /\ s.page = l.page /\ s.entries = l.entries /\ s.deferred = l.deferred
          /\ s.filter = l.filter /\ s.size = l.size
        BY DEF Lists
    <2> HIDE DEF s
    <2>7. m \in Lists
        BY <2>3, <2>5, FieldsAreSet
    <2>8. /\ m.at = s.at /\ m.page = s.page /\ m.entries = s.entries /\ m.deferred = s.deferred
          /\ m.filter = s.filter /\ m.size = s.size /\ m.last = last
        BY <2>5 DEF Lists
    <2> HIDE DEF m
    <2>9. View(m) = View(l)
        BY <2>6, <2>8 DEF View
    <2>10. Own(m) = Own(l)
        BY <2>6, <2>8, <2>9 DEF Own, EntryOf
    <2>11. QED BY <2>1, <2>4, <2>6, <2>7, <2>8, <2>9, <2>10
<1>3. QED BY <1>1, <1>2

(* Asking again keeps the data of an entry; without data it has not failed.   *)
LEMMA RefreshedIsEntry ==
    ASSUME NEW old \in Entries, NEW entry \in Refreshed(old)
    PROVE  /\ entry \in Entries /\ entry.data = old.data
           /\ entry.data = NoData => ~entry.failed
<1>1. CASE old.data = NoData
    <2> DEFINE asked == [old EXCEPT !.fetching = TRUE]
    <2>1. entry = [asked EXCEPT !.failed = FALSE]
        BY <1>1 DEF Refreshed
    <2>2. asked \in Entries /\ asked.data = old.data
        BY DEF Entries
    <2> HIDE DEF asked
    <2>3. QED BY <2>1, <2>2 DEF Entries
<1>2. CASE old.data # NoData
    <2>1. entry = old \/ entry = [old EXCEPT !.fetching = TRUE]
        BY <1>2 DEF Refreshed
    <2>2. QED BY <1>2, <2>1 DEF Entries
<1>3. QED BY <1>1, <1>2

(* The page is mounted, or another view of it is.                             *)
Anew(l, m) == m.at # "none" /\ ~(l.at = m.at /\ View(l) = View(m))

(* A view that stays is looked at; a new one is put into the cache first.     *)
LEMMA ObservingIsLooking ==
    ASSUME NEW l \in Lists, NEW m \in Lists, m.entries = l.entries, NEW o \in Observing(l, m)
    PROVE  \/ ~Anew(l, m) /\ o = Looked(m)
           \/ /\ Anew(l, m)
              /\ \E entry \in Refreshed(Own(m)), n \in Lists :
                    /\ o = Looked(n)
                    /\ n.at = m.at /\ n.page = m.page /\ View(n) = View(m)
                    /\ n.entries = Put(l.entries, View(m), entry)
                    /\ n.last = IF l.at = m.at /\ Own(l).data # NoData THEN Own(l).data
                                ELSE m.last
<1>1. CASE ~Anew(l, m)
    BY <1>1 DEF Anew, Observing
<1>2. CASE Anew(l, m)
    <2>1. PICK entry \in Refreshed(Own(m)) :
            o = Looked([m EXCEPT
                    !.entries = Put(m.entries, View(m), entry),
                    !.last = IF l.at = m.at /\ Own(l).data # NoData THEN Own(l).data ELSE m.last])
        BY <1>2 DEF Anew, Observing
    <2> DEFINE entries == Put(m.entries, View(m), entry)
               last == IF l.at = m.at /\ Own(l).data # NoData THEN Own(l).data ELSE m.last
               p == [m EXCEPT !.entries = entries]
               n == [p EXCEPT !.last = last]
    <2>2. o = Looked(n)
        <3>1. o = Looked([m EXCEPT !.entries = entries, !.last = last])
            BY <2>1
        <3> HIDE DEF entries, last
        <3>2. [m EXCEPT !.entries = entries, !.last = last] = n
            BY DEF Lists
        <3> HIDE DEF n
        <3>3. QED BY <3>1, <3>2
    <2>3. entry \in Entries
        BY OwnIsEntry, RefreshedIsEntry
    <2>4. entries \in Caches
        <3>1. View(m) \in Views /\ m.entries \in Caches
            BY <1>2, OwnIsEntry DEF Anew, Lists
        <3>2. QED BY <2>3, <3>1, PutIsCache
    <2>5. last \in Data
        <3>1. m.last \in Data
            BY DEF Lists
        <3>2. QED BY <3>1, OwnIsEntry
    <2>6. /\ entries = Put(l.entries, View(m), entry)
          /\ last = IF l.at = m.at /\ Own(l).data # NoData THEN Own(l).data ELSE m.last
        OBVIOUS
    <2> HIDE DEF entries, last
    <2>7. p \in Lists
        BY <2>4, FieldsAreSet
    <2>8. /\ p.at = m.at /\ p.page = m.page /\ p.deferred = m.deferred /\ p.filter = m.filter
          /\ p.size = m.size /\ p.entries = entries
        BY DEF Lists
    <2> HIDE DEF p
    <2>9. n \in Lists
        BY <2>5, <2>7, FieldsAreSet
    <2>10. /\ n.at = p.at /\ n.page = p.page /\ n.deferred = p.deferred /\ n.filter = p.filter
           /\ n.size = p.size /\ n.entries = p.entries /\ n.last = last
        BY <2>7 DEF Lists
    <2> HIDE DEF n
    <2>11. View(n) = View(m)
        BY <2>8, <2>10 DEF View
    <2>12. QED BY <1>2, <2>2, <2>6, <2>8, <2>9, <2>10, <2>11
<1>3. QED BY <1>1, <1>2

(* Either way it is a list whose view is cached.                              *)
LEMMA ObservingIsList ==
    ASSUME NEW l \in Lists, NEW m \in Lists, m.entries = l.entries, OwnIsCached(l),
           NEW o \in Observing(l, m)
    PROVE  o \in Lists /\ OwnIsCached(o) /\ o.at = m.at
<1>1. CASE ~Anew(l, m) /\ o = Looked(m)
    BY <1>1, LookedIsList DEF Anew, OwnIsCached
<1>2. ASSUME NEW entry \in Refreshed(Own(m)), NEW n \in Lists, Anew(l, m), o = Looked(n),
             n.at = m.at, View(n) = View(m), n.entries = Put(l.entries, View(m), entry)
      PROVE  o \in Lists /\ OwnIsCached(o) /\ o.at = m.at
    <2>1. View(n) \in DOMAIN n.entries
        BY <1>2 DEF Put
    <2>2. QED BY <1>2, <2>1, LookedIsList DEF OwnIsCached
<1>3. QED BY <1>1, <1>2, ObservingIsLooking

(* Until there is an answer, the nodes page shows numbers which the page turned *)
(* to does not lie beyond, unless they are of a view that could not be fetched *)
(* again.                                                                     *)
LastReaches(l) ==
    /\ l.at = "nodes" /\ Own(l).data = NoData
    /\ l.last # NoData /\ l.page > PagesOf(l.last)
    => /\ ~Own(l).failed
       /\ \E view \in DOMAIN l.entries :
            /\ l.entries[view].failed
            /\ l.entries[view].data = l.last
            /\ view.page >= l.page

(* The page may be turned to p.                                               *)
Reaches(l, p) ==
    /\ Own(l).data # NoData =>
        p <= PagesOf(Own(l).data) \/ (Own(l).failed /\ p <= l.page)
    /\ Own(l).data = NoData /\ l.last # NoData => p <= PagesOf(l.last)

(* The numbers of a list.                                                     *)
LEMMA ListFacts ==
    ASSUME NEW l \in Lists
    PROVE  /\ l.page \in Nat \ {0}
           /\ l.last \in Data /\ PagesOf(l.last) \in Nat \ {0}
           /\ PagesOf(Own(l).data) \in Nat \ {0} /\ PagesOf(Shown(l)) \in Nat \ {0}
           /\ PagesOf(NoData) = 1
<1>1. l.page \in Nat \ {0} /\ l.last \in Data
    BY DEF Lists
<1>2. QED BY <1>1, OwnIsEntry, NumbersAreData

(* Turning to a page that what is shown reaches keeps LastReaches.            *)
LEMMA ObservingReaches ==
    ASSUME NEW l \in Lists, NEW m \in Lists, m.entries = l.entries, OwnIsCached(l),
           LastReaches(l), NEW o \in Observing(l, m),
           \/ m.page = 1
           \/ m = l
           \/ m.at = "nodes" => l.at = m.at /\ m.last = l.last /\ Reaches(l, m.page)
    PROVE  LastReaches(o)
<1> SUFFICES ASSUME o.at = "nodes", Own(o).data = NoData, o.last # NoData,
                    o.page > PagesOf(o.last)
             PROVE  /\ ~Own(o).failed
                    /\ \E view \in DOMAIN o.entries :
                         /\ o.entries[view].failed
                         /\ o.entries[view].data = o.last
                         /\ view.page >= o.page
    BY DEF LastReaches
<1>0. PagesOf(o.last) \in Nat \ {0}
    BY ObservingIsList, ListFacts
<1>1. CASE ~Anew(l, m) /\ o = Looked(m)
    <2>1. /\ o.at = m.at /\ o.page = m.page /\ o.entries = m.entries /\ Own(o) = Own(m)
          /\ o.last = m.last
        BY <1>1, LookedIsList
    <2>2. l.at = m.at /\ View(l) = View(m)
        BY <1>1, <2>1 DEF Anew
    <2>3. Own(l) = Own(m)
        BY <2>2 DEF Own, EntryOf
    <2>4. CASE m.page = 1
        BY <1>0, <2>1, <2>4
    <2>5. CASE m = l
        BY <2>1, <2>5 DEF LastReaches
    <2>6. CASE m.at = "nodes" => l.at = m.at /\ m.last = l.last /\ Reaches(l, m.page)
        <3>1. m.last = l.last /\ m.page <= PagesOf(l.last)
            BY <2>1, <2>3, <2>6 DEF Reaches
        <3>2. QED BY <1>0, <2>1, <3>1, ListFacts
    <2>7. QED BY <2>4, <2>5, <2>6
<1>2. ASSUME NEW entry \in Refreshed(Own(m)), NEW n \in Lists, Anew(l, m), o = Looked(n),
             n.at = m.at, n.page = m.page, View(n) = View(m),
             n.entries = Put(l.entries, View(m), entry),
             n.last = IF l.at = m.at /\ Own(l).data # NoData THEN Own(l).data ELSE m.last
      PROVE  /\ ~Own(o).failed
             /\ \E view \in DOMAIN o.entries :
                  /\ o.entries[view].failed
                  /\ o.entries[view].data = o.last
                  /\ view.page >= o.page
    <2>1. /\ o.at = n.at /\ o.page = n.page /\ o.entries = n.entries /\ Own(o) = Own(n)
          /\ o.last = n.last
        BY <1>2, LookedIsList
    <2>2. View(m) \in Views /\ l.entries \in Caches /\ Own(m) \in Entries
        BY <1>2, OwnIsEntry DEF Anew, Lists
    <2>3. entry \in Entries /\ (entry.data = NoData => ~entry.failed)
        BY <2>2, RefreshedIsEntry
    <2>4. /\ DOMAIN n.entries = DOMAIN l.entries \cup {View(m)}
          /\ n.entries[View(m)] = entry
          /\ \A v \in DOMAIN l.entries : v # View(m) => n.entries[v] = l.entries[v]
        BY <1>2 DEF Put
    <2>5. Own(n) = entry
        BY <1>2, <2>4 DEF Own, EntryOf
    <2>6. l.at = "nodes" /\ m.at = "nodes" /\ m.last = l.last /\ Reaches(l, m.page)
        <3>1. m.page # 1
            BY <1>0, <1>2, <2>1
        <3>2. m # l
            BY <1>2 DEF Anew
        <3>3. QED BY <1>2, <2>1, <3>1, <3>2
    <2>7. Own(l).data # NoData /\ o.last = Own(l).data
        <3>1. CASE Own(l).data = NoData
            <4>1. o.last = l.last /\ m.page <= PagesOf(l.last)
                BY <1>2, <2>1, <2>6, <3>1 DEF Reaches
            <4>2. QED BY <1>0, <1>2, <2>1, <4>1, ListFacts
        <3>2. QED BY <1>2, <2>1, <2>6, <3>1
    <2>8. Own(l).failed /\ m.page <= l.page
        <3>1. ~(m.page <= PagesOf(Own(l).data))
            BY <1>0, <1>2, <2>1, <2>7, ListFacts
        <3>2. QED BY <2>6, <2>7, <3>1 DEF Reaches
    <2>9. View(l) \in DOMAIN l.entries /\ Own(l) = l.entries[View(l)]
        BY <2>6 DEF OwnIsCached, Own, EntryOf
    <2>10. View(l) # View(m)
        BY <1>2, <2>6 DEF Anew
    <2>11. View(l) \in DOMAIN o.entries /\ o.entries[View(l)] = Own(l)
        BY <2>1, <2>4, <2>9, <2>10
    <2>12. View(l).page >= o.page
        BY <1>2, <2>1, <2>8, ListFacts DEF View
    <2>13. QED BY <2>1, <2>3, <2>5, <2>7, <2>8, <2>11, <2>12
<1>3. QED BY <1>1, <1>2, ObservingIsLooking

(* The pages that the admin, the effect and the text may lead to.             *)
LEMMA PagesReached ==
    ASSUME NEW l \in Lists, l.at = "nodes", LastReaches(l), NEW p \in Nat \ {0},
           (~ClampDue(l) /\ p <= l.page) \/ p <= PagesOf(Shown(l))
    PROVE  Reaches(l, p)
<1>1. ListPages["nodes"].keepsPrevious /\ ListPages["nodes"].clampsOnSuccess
    BY DEF ListPages, NodesPage
<1>2. ASSUME Own(l).data # NoData
      PROVE  p <= PagesOf(Own(l).data) \/ (Own(l).failed /\ p <= l.page)
    <2>1. Shown(l) = Own(l).data
        BY <1>2 DEF Shown
    <2>2. ~ClampDue(l) => l.page <= PagesOf(Shown(l)) \/ Own(l).failed
        BY <1>2, <2>1, ListFacts DEF ClampDue, IsSuccess
    <2>3. QED BY <2>1, <2>2, ListFacts
<1>3. ASSUME Own(l).data = NoData, l.last # NoData
      PROVE  p <= PagesOf(l.last)
    <2>1. CASE Own(l).failed
        <3>1. Shown(l) = NoData
            BY <1>3, <2>1 DEF Shown
        <3>2. l.page <= PagesOf(l.last)
            BY <1>3, <2>1, ListFacts DEF LastReaches
        <3>3. QED BY <3>1, <3>2, ListFacts
    <2>2. CASE ~Own(l).failed
        <3>1. Shown(l) = l.last
            BY <1>1, <1>3, <2>2 DEF Shown
        <3>2. ~ClampDue(l) => l.page <= PagesOf(l.last)
            BY <1>3, <2>2, <3>1, ListFacts DEF ClampDue, IsSuccess
        <3>3. QED BY <3>1, <3>2, ListFacts
    <2>3. QED BY <2>1, <2>2
<1>4. QED BY <1>2, <1>3 DEF Reaches

(* A step that turns no page.                                                 *)
LEMMA StayingReaches ==
    ASSUME NEW l \in Lists, NEW o \in Lists, ~ClampDue(l), LastReaches(l),
           o.at = l.at, o.page = l.page, o.last = l.last \/ Own(o).data # NoData,
           Own(o).data = NoData => Own(l).data = NoData
    PROVE  LastReaches(o)
<1> SUFFICES ASSUME o.at = "nodes", Own(o).data = NoData, o.last # NoData,
                    o.page > PagesOf(o.last)
             PROVE  FALSE
    BY DEF LastReaches
<1>1. ListPages["nodes"].keepsPrevious
    BY DEF ListPages, NodesPage
<1>2. Own(l).data = NoData /\ l.last # NoData /\ l.page > PagesOf(l.last) /\ l.at = "nodes"
    OBVIOUS
<1>3. ~Own(l).failed
    BY <1>2 DEF LastReaches
<1>4. Shown(l) = l.last
    BY <1>1, <1>2, <1>3 DEF Shown
<1>5. QED BY <1>2, <1>3, <1>4 DEF ClampDue, IsSuccess

-------------------------------------------------------------------------------
(* No list is open.                                                           *)
LEMMA NoListIsList ==
    NoList \in Lists /\ NoList.at = "none" /\ NoList.entries = <<>>
<1> DEFINE none == <<>>
<1>1. none \in Caches
    <2>1. none = [view \in {} |-> NoEntry]
        OBVIOUS
    <2> HIDE DEF none
    <2>2. none \in [{} -> Entries]
        BY <2>1
    <2>3. QED BY <2>2, CachesAreMade
<1>2. NoList = [at |-> "none", param |-> "", text |-> "", deferred |-> "", filter |-> NoFilter,
                page |-> 1, size |-> FirstSize, last |-> NoData, selected |-> {}, seen |-> {},
                confirm |-> FALSE, batch |-> "none", entries |-> none]
    BY DEF NoList
<1> HIDE DEF none
<1>3. NoList \in Lists
    BY <1>1, <1>2, TextsAssumption, ListAssumption, NumbersAreData DEF Lists
<1>4. QED BY <1>2, <1>3 DEF none

(* A list that is opened begins on its first page.                            *)
LEMMA MountedIsList ==
    ASSUME NEW l \in Lists, NEW page \in {"none"} \cup DOMAIN ListPages, NEW param \in Texts
    PROVE  /\ Mounted(l, page, param) \in Lists /\ Mounted(l, page, param).entries = l.entries
           /\ Mounted(l, page, param).page = 1 /\ Mounted(l, page, param).at = page
<1> DEFINE batch == IF l.batch = "mine" THEN "old" ELSE l.batch
           m == Mounted(l, page, param)
<1>1. ListShape(NoList)
    BY DEF NoList, ListShape, ListFields
<1>2. ListShape(m)
    BY <1>1 DEF ListShape, ListFields, Mounted
<1>3. /\ m.at = page /\ m.param = param /\ m.text = param /\ m.deferred = param
      /\ m.filter = NoList.filter /\ m.page = NoList.page /\ m.size = NoList.size
      /\ m.last = NoList.last /\ m.selected = NoList.selected /\ m.seen = NoList.seen
      /\ m.confirm = NoList.confirm /\ m.batch = batch /\ m.entries = l.entries
    BY <1>1 DEF ListShape, ListFields, Mounted
<1>4. batch \in {"none", "mine", "old"} /\ l.entries \in Caches
    BY DEF Lists
<1>5. /\ NoList.filter \in Filters /\ NoList.page = 1 /\ NoList.size \in Sizes
      /\ NoList.last \in Data /\ NoList.selected \in SUBSET Rows /\ NoList.seen \in SUBSET Rows
      /\ NoList.confirm \in BOOLEAN
    BY ListAssumption, NumbersAreData DEF NoList
<1> HIDE DEF m, batch
<1>6. m \in Lists
    BY <1>2, <1>3, <1>4, <1>5, FieldsMakeList
<1>7. QED BY <1>3, <1>5, <1>6 DEF m

(* A link to the open page either changes the text or nothing.                *)
LEMMA FollowedIsList ==
    ASSUME NEW l \in Lists, NEW param \in Texts
    PROVE  /\ FollowLink(l, param) \in Lists /\ FollowLink(l, param).entries = l.entries
           /\ FollowLink(l, param).at = l.at
           /\ FollowLink(l, param).page = 1 \/ FollowLink(l, param) = l
<1> DEFINE m == FollowLink(l, param)
<1>1. CASE param = l.param
    BY <1>1 DEF FollowLink
<1>2. CASE param # l.param
    <2>1. ListShape(l)
        BY DEF Lists, ListShape, ListFields
    <2>2. ListShape(m)
        BY <1>2, <2>1 DEF ListShape, ListFields, FollowLink
    <2>3. /\ m.at = l.at /\ m.param = param /\ m.text = param /\ m.deferred = l.deferred
          /\ m.filter = l.filter /\ m.page = 1 /\ m.size = l.size /\ m.last = l.last
          /\ m.selected = {} /\ m.seen = {} /\ m.confirm = l.confirm /\ m.batch = l.batch
          /\ m.entries = l.entries
        BY <1>2, <2>1 DEF ListShape, ListFields, FollowLink
    <2>4. /\ l.at \in {"none"} \cup DOMAIN ListPages /\ l.deferred \in Texts
          /\ l.filter \in Filters /\ l.size \in Sizes /\ l.last \in Data
          /\ l.confirm \in BOOLEAN /\ l.batch \in {"none", "mine", "old"}
          /\ l.entries \in Caches
        BY DEF Lists
    <2> HIDE DEF m
    <2>5. m \in Lists
        BY <2>2, <2>3, <2>4, FieldsMakeList
    <2>6. QED BY <2>3, <2>5 DEF m
<1>3. QED BY <1>1, <1>2

(* A change of the view: of text, filter, size or page.                        *)
LEMMA ChangedIsList ==
    ASSUME NEW l \in Lists,
           NEW m, \/ \E text \in Texts : m = [Turned(l) EXCEPT !.text = text]
                  \/ \E filter \in Filters : m = [Turned(l) EXCEPT !.filter = filter]
                  \/ m = [Turned(l) EXCEPT !.text = "", !.filter = NoFilter]
                  \/ \E size \in Sizes : m = [Turned(l) EXCEPT !.size = size]
    PROVE  m \in Lists /\ m.entries = l.entries /\ m.page = 1 /\ m.at = l.at
<1> DEFINE t == Turned(l)
<1>1. t \in Lists /\ t.page = 1 /\ t.entries = l.entries /\ t.at = l.at
    BY TurnedIsList
<1> HIDE DEF t
<1>2. ASSUME NEW text \in Texts, m = [t EXCEPT !.text = text]
      PROVE  m \in Lists /\ m.entries = l.entries /\ m.page = 1 /\ m.at = l.at
    BY <1>1, <1>2 DEF Lists
<1>3. ASSUME NEW filter \in Filters, m = [t EXCEPT !.filter = filter]
      PROVE  m \in Lists /\ m.entries = l.entries /\ m.page = 1 /\ m.at = l.at
    BY <1>1, <1>3 DEF Lists
<1>4. ASSUME m = [t EXCEPT !.text = "", !.filter = NoFilter]
      PROVE  m \in Lists /\ m.entries = l.entries /\ m.page = 1 /\ m.at = l.at
    <2> DEFINE u == [t EXCEPT !.text = ""]
    <2>1. m = [u EXCEPT !.filter = NoFilter]
        BY <1>1, <1>4 DEF Lists
    <2>2. u \in Lists /\ u.entries = l.entries /\ u.page = 1 /\ u.at = l.at
        BY <1>1, TextsAssumption DEF Lists
    <2> HIDE DEF u
    <2>3. QED BY <2>1, <2>2, ListAssumption DEF Lists
<1>5. ASSUME NEW size \in Sizes, m = [t EXCEPT !.size = size]
      PROVE  m \in Lists /\ m.entries = l.entries /\ m.page = 1 /\ m.at = l.at
    BY <1>1, <1>5 DEF Lists
<1>6. QED BY <1>2, <1>3, <1>4, <1>5 DEF t

(* Setting the page leaves the rest.                                          *)
LEMMA PagedIsList ==
    ASSUME NEW l \in Lists, NEW page \in Nat \ {0}
    PROVE  \A m \in {[l EXCEPT !.page = page], [Turned(l) EXCEPT !.page = page]} :
            /\ m \in Lists /\ m.entries = l.entries /\ m.page = page /\ m.at = l.at
            /\ m.last = l.last
<1> DEFINE t == Turned(l)
<1>1. t \in Lists /\ t.entries = l.entries /\ t.at = l.at /\ t.last = l.last
    BY TurnedIsList
<1> HIDE DEF t
<1>2. ASSUME NEW k \in Lists, k.entries = l.entries, k.at = l.at, k.last = l.last,
             NEW m, m = [k EXCEPT !.page = page]
      PROVE  /\ m \in Lists /\ m.entries = l.entries /\ m.page = page /\ m.at = l.at
             /\ m.last = l.last
    BY <1>2 DEF Lists
<1>3. QED BY <1>1, <1>2 DEF t

-------------------------------------------------------------------------------
PagedInv ==
    /\ list \in Lists
    /\ OwnIsCached(list)
    /\ LastReaches(list)
    /\ list.at # "none" => list.at \in Visited

(* A handler that turns to a page within reach keeps the invariant.           *)
LEMMA ObservingKeeps ==
    ASSUME PagedInv, NEW m \in Lists, m.entries = list.entries,
           m.at # "none" => m.at \in Visited,
           list' \in Observing(list, m),
           \/ m.page = 1
           \/ m = list
           \/ m.at = "nodes" => list.at = m.at /\ m.last = list.last /\ Reaches(list, m.page)
    PROVE  PagedInv'
<1>1. list' \in Lists /\ OwnIsCached(list') /\ list'.at = m.at
    BY ObservingIsList DEF PagedInv
<1>2. LastReaches(list')
    BY ObservingReaches DEF PagedInv
<1>3. QED BY <1>1, <1>2 DEF PagedInv

(* So does a step that stays on page and view and takes no data away.         *)
LEMMA StayingKeeps ==
    ASSUME PagedInv, Settled, NEW o \in Lists, list' = o \/ list' = Looked(o),
           o.at = list.at, o.page = list.page, o.last = list.last, View(o) = View(list),
           DOMAIN o.entries = DOMAIN list.entries,
           Own(o).data = NoData => Own(list).data = NoData
    PROVE  PagedInv'
<1>1. /\ list' \in Lists /\ list'.at = list.at /\ list'.page = list.page
      /\ View(list') = View(list) /\ DOMAIN list'.entries = DOMAIN list.entries
      /\ Own(list').data = NoData => Own(list).data = NoData
      /\ list'.last = list.last \/ Own(list').data # NoData
    BY LookedIsList
<1>2. LastReaches(list')
    BY <1>1, StayingReaches DEF PagedInv, Settled
<1>3. QED BY <1>1, <1>2 DEF PagedInv, OwnIsCached

WithEntry(l, view, entry) == [l EXCEPT !.entries = [l.entries EXCEPT ![view] = entry]]

(* An answer, or a failure, sets one entry of the cache.                      *)
LEMMA EntryIsSet ==
    ASSUME NEW l \in Lists, NEW view \in DOMAIN l.entries, NEW entry \in Entries,
           entry.data = NoData => l.entries[view].data = NoData
    PROVE  LET m == WithEntry(l, view, entry)
           IN  /\ m \in Lists /\ m.at = l.at /\ m.page = l.page /\ m.last = l.last
               /\ View(m) = View(l) /\ DOMAIN m.entries = DOMAIN l.entries
               /\ Own(m).data = NoData => Own(l).data = NoData
<1> DEFINE m == WithEntry(l, view, entry)
<1> DEFINE entries == [l.entries EXCEPT ![view] = entry]
<1>1. DOMAIN entries = DOMAIN l.entries
    OBVIOUS
<1>2. entries \in Caches
    <2>1. l.entries \in Caches
        BY DEF Lists
    <2>2. DOMAIN l.entries \in SUBSET Views /\ entries \in [DOMAIN l.entries -> Entries]
        BY <2>1, CachesHoldEntries
    <2> HIDE DEF entries
    <2>3. QED BY <2>2, CachesAreMade
<1>3. \A v \in DOMAIN l.entries : entries[v].data = NoData => l.entries[v].data = NoData
    OBVIOUS
<1> HIDE DEF entries
<1>4. m = [l EXCEPT !.entries = entries]
    BY DEF entries, WithEntry
<1> HIDE DEF m
<1>5. m \in Lists
    BY <1>2, <1>4, FieldsAreSet
<1>6. /\ m.at = l.at /\ m.page = l.page /\ m.last = l.last /\ m.deferred = l.deferred
      /\ m.filter = l.filter /\ m.size = l.size /\ m.entries = entries
    BY <1>4 DEF Lists
<1>7. View(m) = View(l)
    BY <1>6 DEF View
<1>8. Own(m).data = NoData => Own(l).data = NoData
    BY <1>1, <1>3, <1>6, <1>7 DEF Own, EntryOf
<1>9. QED BY <1>1, <1>5, <1>6, <1>7, <1>8 DEF m

(* Asking again keeps the invariant.                                          *)
LEMMA ReaskedKeeps ==
    ASSUME PagedInv, Settled, list.at # "none", NEW l \in Lists, list' = Reasked(l),
           l.at = list.at, l.page = list.page, l.last = list.last, View(l) = View(list),
           l.entries = list.entries
    PROVE  PagedInv'
<1> DEFINE entry == [data |-> Own(l).data, fetching |-> TRUE,
                     failed |-> Own(l).failed /\ Own(l).data # NoData]
           m == WithEntry(l, View(l), entry)
<1>1. View(l) \in DOMAIN l.entries
    BY DEF PagedInv, OwnIsCached
<1>2. Own(l) = l.entries[View(l)] /\ Own(l) = Own(list)
    BY <1>1 DEF Own, EntryOf
<1>3. list' = Looked(m)
    BY DEF Reasked, WithEntry
<1>4. entry \in Entries /\ entry.data = Own(l).data
    BY OwnIsEntry DEF Entries
<1> HIDE DEF entry
<1>5. /\ m \in Lists /\ m.at = l.at /\ m.page = l.page /\ m.last = l.last
      /\ View(m) = View(l) /\ DOMAIN m.entries = DOMAIN l.entries
      /\ Own(m).data = NoData => Own(l).data = NoData
    BY <1>1, <1>2, <1>4, EntryIsSet
<1> HIDE DEF m
<1>6. QED BY <1>2, <1>3, <1>5, StayingKeeps

(* A page that is visited begins on its first page.                           *)
LEMMA ListVisitsKeepPages ==
    ASSUME PagedInv, NEW page \in Visited, NEW param \in Texts, ListVisits(page, param)
    PROVE  PagedInv'
<1>1. list \in Lists
    BY DEF PagedInv
<1>2. "" \in Texts
    BY TextsAssumption
<1>3. CASE page \notin DOMAIN ListPages
    <2>1. list' \in Observing(list, Mounted(list, "none", ""))
        BY <1>3 DEF ListVisits
    <2>2. "none" \in {"none"} \cup DOMAIN ListPages
        OBVIOUS
    <2> DEFINE m == Mounted(list, "none", "")
    <2>3. m \in Lists /\ m.entries = list.entries /\ m.page = 1 /\ m.at = "none"
        BY <1>1, <1>2, <2>2, MountedIsList
    <2> HIDE DEF m
    <2>4. list' \in Observing(list, m)
        BY <2>1 DEF m
    <2>5. QED BY <2>3, <2>4, ObservingKeeps
<1>4. CASE page \in DOMAIN ListPages /\ page = list.at
    <2>1. list' \in Observing(list, FollowLink(list, param))
        BY <1>4 DEF ListVisits
    <2>2. QED BY <1>1, <1>4, <2>1, FollowedIsList, ObservingKeeps
<1>5. CASE page \in DOMAIN ListPages /\ page # list.at
    <2>1. list' \in Observing(list, Mounted(list, page, param))
        BY <1>5 DEF ListVisits
    <2>2. QED BY <1>1, <1>5, <2>1, MountedIsList, ObservingKeeps
<1>6. QED BY <1>3, <1>4, <1>5

(* A handler of the selection or of a batch.                                   *)
OnlyChoosesFrom(l, m) ==
    /\ m.at = l.at /\ m.param = l.param /\ m.text = l.text /\ m.deferred = l.deferred
    /\ m.filter = l.filter /\ m.page = l.page /\ m.size = l.size /\ m.last = l.last
    /\ m.seen = l.seen /\ m.entries = l.entries

(* Selecting rows, and a batch, leave view and cache.                         *)
LEMMA ChoosingIsList ==
    ASSUME NEW l \in Lists, NEW m, ListShape(m), OnlyChoosesFrom(l, m),
           m.selected \in SUBSET Rows, m.confirm \in BOOLEAN, m.batch \in {"none", "mine", "old"}
    PROVE  m \in Lists /\ View(m) = View(l) /\ Own(m) = Own(l)
<1>1. /\ l.at \in {"none"} \cup DOMAIN ListPages /\ l.param \in Texts /\ l.text \in Texts
      /\ l.deferred \in Texts /\ l.filter \in Filters /\ l.page \in Nat \ {0}
      /\ l.size \in Sizes /\ l.last \in Data /\ l.seen \in SUBSET Rows /\ l.entries \in Caches
    BY DEF Lists
<1>2. m \in Lists
    BY <1>1, FieldsMakeList DEF OnlyChoosesFrom
<1>3. View(m) = View(l)
    BY DEF OnlyChoosesFrom, View
<1>4. Own(m) = Own(l)
    BY <1>3 DEF OnlyChoosesFrom, Own, EntryOf
<1>5. QED BY <1>2, <1>3, <1>4

(* ... and so the invariant.                                                  *)
LEMMA ChoosingKeeps ==
    ASSUME PagedInv, Settled, ListShape(list'), OnlyChoosesFrom(list, list'),
           list'.selected \in SUBSET Rows, list'.confirm \in BOOLEAN,
           list'.batch \in {"none", "mine", "old"}
    PROVE  PagedInv'
<1>1. list' \in Lists /\ View(list') = View(list) /\ Own(list') = Own(list)
    BY ChoosingIsList DEF PagedInv
<1>2. QED BY <1>1, StayingKeeps DEF OnlyChoosesFrom

(* Every handler and answer of the lists keeps it.                            *)
LEMMA ListNextKeepsPages ==
    ASSUME PagedInv, ListNext
    PROVE  PagedInv'
<1>0. /\ list \in Lists /\ LastReaches(list)
      /\ list.at # "none" => list.at \in Visited
    BY DEF PagedInv
<1>1. CASE Defer
    <2> DEFINE m == [list EXCEPT !.deferred = list.text]
    <2>1. list' \in Observing(list, m) /\ ~ClampDue(list)
        BY <1>1 DEF Defer, Settled
    <2>2. list.text \in Texts
        BY <1>0 DEF Lists
    <2>3. m \in Lists
        BY <1>0, <2>2, FieldsAreSet
    <2>4. m.entries = list.entries /\ m.at = list.at /\ m.last = list.last /\ m.page = list.page
        BY <1>0 DEF Lists
    <2> HIDE DEF m
    <2>5. m.at = "nodes" => Reaches(list, m.page)
        <3>1. list.page \in Nat \ {0} /\ list.page <= list.page
            BY <1>0, ListFacts
        <3>2. QED BY <1>0, <2>1, <2>4, <3>1, PagesReached
    <2>6. QED BY <1>0, <2>1, <2>3, <2>4, <2>5, ObservingKeeps
<1>2. ASSUME NEW page \in Nat \ {0},
             NEW m \in {[list EXCEPT !.page = page], [Turned(list) EXCEPT !.page = page]},
             list' \in Observing(list, m),
             page = 1 \/ (~ClampDue(list) /\ page <= list.page) \/ page <= PagesOf(Shown(list))
      PROVE  PagedInv'
    <2>1. /\ m \in Lists /\ m.entries = list.entries /\ m.page = page /\ m.at = list.at
          /\ m.last = list.last
        BY <1>0, PagedIsList, Zenon
    <2>2. m.at = "nodes" => page = 1 \/ Reaches(list, page)
        BY <1>0, <1>2, <2>1, PagesReached, ZenonT(30)
    <2>3. QED BY <1>0, <1>2, <2>1, <2>2, ObservingKeeps
<1>3. CASE ClampPage
    <2>1. list' \in Observing(list, [list EXCEPT !.page = PagesOf(Shown(list))])
        BY <1>3 DEF ClampPage
    <2> DEFINE pages == PagesOf(Shown(list))
    <2>2. pages \in Nat \ {0} /\ pages <= PagesOf(Shown(list))
        BY <1>0, ListFacts
    <2> HIDE DEF pages
    <2>3. list' \in Observing(list, [list EXCEPT !.page = pages])
        BY <2>1 DEF pages
    <2>4. QED BY <1>2, <2>2, <2>3
<1>4. CASE ChangePage
    <2>1. PICK page \in PaginationBar(list) :
            list' \in Observing(list, [Turned(list) EXCEPT !.page = page])
        BY <1>4 DEF ChangePage
    <2>2. ~ClampDue(list)
        BY <1>4 DEF ChangePage, ListFree, Settled
    <2>3. /\ page \in Nat \ {0}
          /\ page <= list.page \/ page <= PagesOf(Shown(list))
        BY <1>0, ListFacts DEF PaginationBar
    <2>4. QED BY <1>2, <2>1, <2>2, <2>3
<1>5. ASSUME NEW m, list' \in Observing(list, m),
             \/ \E text \in Texts : m = [Turned(list) EXCEPT !.text = text]
             \/ \E filter \in Filters : m = [Turned(list) EXCEPT !.filter = filter]
             \/ m = [Turned(list) EXCEPT !.text = "", !.filter = NoFilter]
             \/ \E size \in Sizes : m = [Turned(list) EXCEPT !.size = size]
      PROVE  PagedInv'
    <2>1. m \in Lists /\ m.entries = list.entries /\ m.page = 1 /\ m.at = list.at
        BY <1>0, <1>5, ChangedIsList
    <2>2. QED BY <1>0, <1>5, <2>1, ObservingKeeps
<1>6. CASE ChangeSearch
    BY <1>5, <1>6 DEF ChangeSearch, Searches
<1>7. CASE ChangeFilter
    BY <1>5, <1>7 DEF ChangeFilter, NodesFilters, OperationLogsFilters, ProxyRequestLogsFilters
<1>8. CASE ChangePageSize
    BY <1>5, <1>8 DEF ChangePageSize
<1>9. ASSUME Settled, NEW view \in DOMAIN list.entries, NEW entry \in Entries,
             entry.data = NoData => list.entries[view].data = NoData,
             list' = Looked(WithEntry(list, view, entry))
      PROVE  PagedInv'
    <2> DEFINE m == WithEntry(list, view, entry)
    <2>1. /\ m \in Lists /\ m.at = list.at /\ m.page = list.page /\ m.last = list.last
          /\ View(m) = View(list) /\ DOMAIN m.entries = DOMAIN list.entries
          /\ Own(m).data = NoData => Own(list).data = NoData
        BY <1>0, <1>9, EntryIsSet
    <2> HIDE DEF m
    <2>2. list' = Looked(m)
        BY <1>9 DEF m
    <2>3. QED BY <1>9, <2>1, <2>2, StayingKeeps
<1>10. list.entries \in Caches
    BY <1>0 DEF Lists
<1>11. CASE Arrive
    <2>0. PICK view \in DOMAIN list.entries : \E data \in Answers(view) :
            list' = Looked([list EXCEPT !.entries[view] =
                        [data |-> data, fetching |-> FALSE, failed |-> FALSE]])
        BY <1>11 DEF Arrive
    <2>1. PICK data \in Answers(view) :
            list' = Looked([list EXCEPT !.entries[view] =
                        [data |-> data, fetching |-> FALSE, failed |-> FALSE]])
        BY <2>0
    <2> DEFINE entry == [data |-> data, fetching |-> FALSE, failed |-> FALSE]
    <2>2. list' = Looked(WithEntry(list, view, entry)) /\ Settled
        BY <1>11, <2>1 DEF Arrive, WithEntry
    <2>3. data \in Data /\ data # NoData
        BY <1>10, CachesHoldEntries, NumbersAreData
    <2>4. entry \in Entries /\ entry.data # NoData
        BY <2>3 DEF Entries
    <2> HIDE DEF entry
    <2>5. QED BY <1>9, <2>2, <2>4
<1>12. CASE FetchFails
    <2>1. PICK view \in DOMAIN list.entries :
            list' = Looked([list EXCEPT !.entries[view] =
                        [data |-> list.entries[view].data, fetching |-> FALSE, failed |-> TRUE]])
        BY <1>12 DEF FetchFails
    <2> DEFINE entry == [data |-> list.entries[view].data, fetching |-> FALSE, failed |-> TRUE]
    <2>2. list' = Looked(WithEntry(list, view, entry)) /\ Settled
        BY <1>12, <2>1 DEF FetchFails, WithEntry
    <2>3. list.entries[view] \in Entries
        BY <1>10, CachesHoldEntries
    <2>4. entry \in Entries /\ entry.data = list.entries[view].data
        BY <2>3 DEF Entries
    <2> HIDE DEF entry
    <2>5. QED BY <1>9, <2>2, <2>4
<1>13. CASE Refetch
    BY <1>0, <1>13, ReaskedKeeps DEF Refetch
<1>14. ListShape(list)
    BY <1>0 DEF Lists, ListShape, ListFields
<1>15. CASE ToggleSelected \/ SelectAll
    <2>1. list.selected \subseteq Rows /\ Shown(list).ids \subseteq Rows
        BY <1>0, OwnIsEntry, NumbersAreData DEF Lists
    <2>2. Settled
        BY <1>15 DEF ToggleSelected, SelectAll, ListFree
    <2>3. PICK ids \in SUBSET Rows : list' = [list EXCEPT !.selected = ids]
        <3>1. CASE ToggleSelected
            <4>1. PICK id \in Shown(list).ids :
                    list' = [list EXCEPT !.selected =
                        IF id \in list.selected THEN list.selected \ {id}
                        ELSE list.selected \cup {id}]
                BY <3>1 DEF ToggleSelected
            <4>2. QED BY <2>1, <4>1
        <3>2. CASE SelectAll
            <4>1. list' = [list EXCEPT !.selected = {}]
                  \/ list' = [list EXCEPT !.selected = Shown(list).ids]
                BY <3>2 DEF SelectAll
            <4>2. QED BY <2>1, <4>1
        <3>3. QED BY <1>15, <3>1, <3>2
    <2>4. ListShape(list') /\ OnlyChoosesFrom(list, list')
        BY <1>14, <2>3 DEF ListShape, ListFields, OnlyChoosesFrom
    <2>5. /\ list'.selected = ids /\ list'.confirm = list.confirm /\ list'.batch = list.batch
        BY <1>14, <2>3 DEF ListShape, ListFields
    <2>6. QED BY <1>0, <2>2, <2>4, <2>5, ChoosingKeeps DEF Lists
<1>16. CASE RequestBatch
    <2>1. Settled /\ list' = [list EXCEPT !.confirm = TRUE]
        BY <1>16 DEF RequestBatch, ListFree
    <2>2. ListShape(list') /\ OnlyChoosesFrom(list, list')
        BY <1>14, <2>1 DEF ListShape, ListFields, OnlyChoosesFrom
    <2>3. /\ list'.selected = list.selected /\ list'.confirm = TRUE /\ list'.batch = list.batch
        BY <1>14, <2>1 DEF ListShape, ListFields
    <2>4. QED BY <1>0, <2>1, <2>2, <2>3, ChoosingKeeps DEF Lists
<1>17. CASE AnswerConfirm
    <2>1. PICK batch \in {"none", "mine"} :
            list' = [list EXCEPT !.confirm = FALSE, !.batch = batch]
        BY <1>17 DEF AnswerConfirm
    <2>2. Settled
        BY <1>17 DEF AnswerConfirm
    <2>3. ListShape(list') /\ OnlyChoosesFrom(list, list')
        BY <1>14, <2>1 DEF ListShape, ListFields, OnlyChoosesFrom
    <2>4. /\ list'.selected = list.selected /\ list'.confirm = FALSE /\ list'.batch = batch
        BY <1>14, <2>1 DEF ListShape, ListFields
    <2>5. QED BY <1>0, <2>2, <2>3, <2>4, ChoosingKeeps DEF Lists
<1>18. CASE BatchSucceeds
    <2> DEFINE selected == IF list.batch = "mine" THEN {} ELSE list.selected
               done == [list EXCEPT !.batch = "none", !.selected = selected]
    <2>1. list' = done \/ (list.at = "nodes" /\ list' = Reasked(done))
        BY <1>18 DEF BatchSucceeds
    <2>2. Settled
        BY <1>18 DEF BatchSucceeds
    <2>3. selected \in SUBSET Rows
        BY <1>0 DEF Lists
    <2> HIDE DEF selected
    <2>4. ListShape(done) /\ OnlyChoosesFrom(list, done)
        BY <1>14 DEF ListShape, ListFields, OnlyChoosesFrom
    <2>5. done.selected = selected /\ done.confirm = list.confirm /\ done.batch = "none"
        BY <1>14 DEF ListShape, ListFields
    <2> HIDE DEF done
    <2>6. done \in Lists /\ View(done) = View(list)
        BY <1>0, <2>3, <2>4, <2>5, ChoosingIsList DEF Lists
    <2>7. CASE list' = done
        BY <1>0, <2>2, <2>3, <2>4, <2>5, <2>7, ChoosingKeeps DEF Lists
    <2>8. CASE list.at = "nodes" /\ list' = Reasked(done)
        BY <2>2, <2>4, <2>6, <2>8, ReaskedKeeps DEF OnlyChoosesFrom
    <2>9. QED BY <2>1, <2>7, <2>8
<1>19. CASE BatchFails
    <2>1. Settled /\ list' = [list EXCEPT !.batch = "none"]
        BY <1>19 DEF BatchFails
    <2>2. ListShape(list') /\ OnlyChoosesFrom(list, list')
        BY <1>14, <2>1 DEF ListShape, ListFields, OnlyChoosesFrom
    <2>3. /\ list'.selected = list.selected /\ list'.confirm = list.confirm
          /\ list'.batch = "none"
        BY <1>14, <2>1 DEF ListShape, ListFields
    <2>4. QED BY <1>0, <2>1, <2>2, <2>3, ChoosingKeeps DEF Lists
<1>20. QED BY <1>1, <1>3, <1>4, <1>6, <1>7, <1>8, <1>11, <1>12, <1>13, <1>15, <1>16, <1>17,
              <1>18, <1>19 DEF ListNext

(* At the start no list is open and nothing is cached.                        *)
LEMMA PagedInit == Init => PagedInv
<1> SUFFICES ASSUME Init PROVE PagedInv
    OBVIOUS
<1>1. route.page \in Visited /\ route.param \in Texts
    BY DEF Init, Routes
<1> DEFINE m == IF route.page \in DOMAIN ListPages
                THEN Mounted(NoList, route.page, route.param) ELSE NoList
<1>2. list \in Observing(NoList, m)
    BY DEF Init
<1>3. /\ m \in Lists /\ m.entries = NoList.entries
      /\ m.at # "none" => m.at \in Visited
      /\ m.page = 1 \/ m = NoList
    <2>1. CASE route.page \in DOMAIN ListPages
        <3> DEFINE mounted == Mounted(NoList, route.page, route.param)
        <3>0. NoList \in Lists /\ route.page \in {"none"} \cup DOMAIN ListPages
            BY <2>1, NoListIsList
        <3>1. /\ mounted \in Lists /\ mounted.entries = NoList.entries /\ mounted.page = 1
              /\ mounted.at = route.page
            BY <1>1, <3>0, MountedIsList
        <3>2. m = mounted
            BY <2>1
        <3> HIDE DEF m, mounted
        <3>3. QED BY <1>1, <3>1, <3>2
    <2>2. CASE route.page \notin DOMAIN ListPages
        BY <2>2, NoListIsList
    <2>3. QED BY <2>1, <2>2
<1> HIDE DEF m
<1>4. OwnIsCached(NoList) /\ LastReaches(NoList)
    BY NoListIsList DEF OwnIsCached, LastReaches
<1>5. list \in Lists /\ OwnIsCached(list) /\ list.at = m.at
    BY <1>2, <1>3, <1>4, NoListIsList, ObservingIsList
<1>6. LastReaches(list)
    BY <1>2, <1>3, <1>4, NoListIsList, ObservingReaches
<1>7. QED BY <1>3, <1>5, <1>6 DEF PagedInv

(* Steps of the other parts leave the lists alone.                            *)
LEMMA PagedStep ==
    ASSUME PagedInv, [Next]_vars
    PROVE  PagedInv'
<1>1. CASE UNCHANGED list
    BY <1>1 DEF PagedInv, OwnIsCached, LastReaches, Own, EntryOf, View
<1>2. CASE Navigate \/ GoToResult
    <2>1. PICK page \in Visited, param \in Texts : ListVisits(page, param)
        BY <1>2 DEF Navigate, GoToResult, PartsVisit
    <2>2. QED BY <2>1, ListVisitsKeepPages
<1>3. CASE ListNext
    BY <1>3, ListNextKeepsPages
<1>4. QED BY <1>1, <1>2, <1>3, PartsAreApart DEF Next, vars

(* Numbers that are shown while the page turned to has none reach that page.  *)
THEOREM ListsAreWellPaged == Spec => []PagedInv
<1>1. QED BY PagedInit, PagedStep, PTL DEF Spec

(* The nodes page leaves the page the admin turned to only for numbers of that *)
(* page or a later one, whatever answers are late, missing or torn (the effect *)
(* of NodesPage, keepPreviousData).  The pages of logs do not ask whether there *)
(* is an answer.                                                              *)
THEOREM PagesAreLeftForTheirNumbers ==
    ASSUME Visited \cap {"operation-logs", "proxy-request-logs"} = {}
    PROVE  Spec => ClampOnlyBeyondEnd
<1>1. ASSUME PagedInv, ClampPage
      PROVE  \E view \in DOMAIN list.entries :
                LET entry == list.entries[view]
                IN  /\ view = View(list) \/ (entry.failed /\ entry.data = list.last)
                    /\ view.page >= list.page
                    /\ entry.data # NoData
                    /\ list.page > PagesOf(entry.data)
    <2>1. list \in Lists /\ ClampDue(list) /\ list.at # "none"
        BY <1>1 DEF PagedInv, ClampPage, ClampDue
    <2>2. list.at = "nodes"
        BY <1>1, <2>1 DEF PagedInv, Lists, ListPages
    <2>3. ~Own(list).failed /\ Shown(list) # NoData /\ list.page > PagesOf(Shown(list))
        BY <2>1, <2>2 DEF ClampDue, IsSuccess, ListPages, NodesPage
    <2>4. list.page \in Nat \ {0} /\ View(list).page = list.page
        BY <2>1, ListFacts DEF View
    <2>5. CASE Own(list).data # NoData
        <3>1. View(list) \in DOMAIN list.entries /\ Own(list) = list.entries[View(list)]
            BY <1>1, <2>1 DEF PagedInv, OwnIsCached, Own, EntryOf
        <3>2. Shown(list) = Own(list).data
            BY <2>5 DEF Shown
        <3>3. QED BY <2>3, <2>4, <2>5, <3>1, <3>2
    <2>6. CASE Own(list).data = NoData
        <3>1. Shown(list) = list.last
            BY <2>3, <2>6 DEF Shown
        <3>2. PICK view \in DOMAIN list.entries :
                /\ list.entries[view].failed
                /\ list.entries[view].data = list.last
                /\ view.page >= list.page
            BY <1>1, <2>2, <2>3, <2>6, <3>1 DEF PagedInv, LastReaches
        <3>3. QED BY <2>3, <3>1, <3>2
    <2>7. QED BY <2>5, <2>6
<1>2. PagedInv => [ClampPage =>
        \E view \in DOMAIN list.entries :
            LET entry == list.entries[view]
            IN  /\ view = View(list) \/ (entry.failed /\ entry.data = list.last)
                /\ view.page >= list.page
                /\ entry.data # NoData
                /\ list.page > PagesOf(entry.data)]_list
    BY <1>1
<1>3. QED BY <1>2, ListsAreWellPaged, PTL DEF ClampOnlyBeyondEnd

(* Every part of the console keeps its type.                                  *)
THEOREM TypeCorrect == Spec => []TypeOK
<1>1. PagedInv => ListTypeOK
    <2>1. ASSUME PagedInv
          PROVE  ListTypeOK
        <3>1. list \in Lists /\ list.entries \in Caches
            BY <2>1 DEF PagedInv, Lists
        <3>2. DOMAIN list.entries \subseteq Views
              /\ \A view \in DOMAIN list.entries : list.entries[view] \in Entries
            BY <3>1, CachesHoldEntries
        <3>3. QED BY <2>1, <3>1, <3>2 DEF ListTypeOK, PagedInv, OwnIsCached, Lists
    <2>2. QED BY <2>1
<1>2. /\ SearchInv => SearchTypeOK
      /\ DialogInv => DialogTypeOK
      /\ CredentialsInv => CredentialsTypeOK
      /\ StoreInv => StoreTypeOK /\ route \in Routes
    BY DEF SearchInv, SearchStates, SearchTypeOK, DialogInv, CredentialsInv, StoreInv, Sound, FirstMissed,
           StoreTypeOK
<1>3. PagedInv /\ SearchInv /\ DialogInv /\ CredentialsInv /\ StoreInv => TypeOK
    BY <1>1, <1>2 DEF TypeOK
<1>4. QED BY <1>3, ListsAreWellPaged, SearchIsConsistent, DialogIsConsistent,
            CredentialsAreConsistent, StoreIsSound, PTL

===============================================================================
