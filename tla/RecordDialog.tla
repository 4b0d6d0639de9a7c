------------------------------ MODULE RecordDialog ------------------------------
(***************************************************************************)
(* The form in which subscriptions, groups and keyword rules are created and *)
(* edited.  The three pages have the same handlers; one of them is mounted   *)
(* at a time.  A save goes on when its page is left; its answer then finds   *)
(* no form.                                                                  *)
(***************************************************************************)
EXTENDS Console

CONSTANTS
    Records,    \* ids of subscriptions, groups or rules
    NoRecord,   \* a new record
    MaxSaves    \* BOUND on the saves in flight

ASSUME RecordsAssumption == NoRecord \notin Records /\ MaxSaves \in Nat

(* The fields that must be filled in.                                        *)
SubscriptionForm == {"name", "url"}
GroupForm == {"name"}
RuleForm == {"name", "keywords"}

RecordPages ==
    [page \in {"subscriptions", "groups", "keyword-groups"} |->
        CASE page = "subscriptions" -> SubscriptionForm
          [] page = "groups"        -> GroupForm
          [] OTHER                  -> RuleForm]

(* of: history, the record the draft was begun from.  missing: the required  *)
(* fields that are empty.  saves: in flight, and whether of this mount.      *)
ClosedDialog == [open |-> FALSE, editing |-> NoRecord, of |-> NoRecord, missing |-> {}]

NoDialog == [form |-> ClosedDialog, saves |-> {}]

Saves == [to : Records \cup {NoRecord}, of : Records \cup {NoRecord}, mine : BOOLEAN]

DialogOnly == UNCHANGED <<route, search, list, credentials, store>>

DialogVisits(page) ==
    dialog' = IF page = route.page THEN dialog
              ELSE [form |-> ClosedDialog, saves |-> {[s EXCEPT !.mine = FALSE] : s \in dialog.saves}]

-------------------------------------------------------------------------------
OnRecordPage == route.page \in DOMAIN RecordPages

OpenCreate ==
    /\ OnRecordPage /\ ~dialog.form.open
    /\ dialog' = [dialog EXCEPT !.form =
            [open |-> TRUE, editing |-> NoRecord, of |-> NoRecord,
             missing |-> RecordPages[route.page]]]
    /\ DialogOnly

OpenEdit ==
    /\ OnRecordPage /\ ~dialog.form.open
    /\ \E id \in Records :
        dialog' = [dialog EXCEPT !.form =
            [open |-> TRUE, editing |-> id, of |-> id, missing |-> {}]]
    /\ DialogOnly

TypeField ==
    /\ dialog.form.open
    /\ \E field \in RecordPages[route.page] :
        dialog' = [dialog EXCEPT !.form.missing = IF field \in @ THEN @ \ {field} ELSE @ \cup {field}]
    /\ DialogOnly

CloseModal ==
    /\ dialog.form.open
    /\ dialog' = [dialog EXCEPT !.form = ClosedDialog]
    /\ DialogOnly

SavePending == \E save \in dialog.saves : save.mine

(* An id is edited, none is created; NoRecord is the answer to "which id?".  *)
SubmitRecord ==
    /\ dialog.form.open /\ dialog.form.missing = {} /\ ~SavePending
    /\ Cardinality(dialog.saves) < MaxSaves
    /\ dialog' = [dialog EXCEPT !.saves =
            @ \cup {[to |-> dialog.form.editing, of |-> dialog.form.of, mine |-> TRUE]}]
    /\ DialogOnly

(* Whatever the form is open for by now.                                     *)
SaveSucceeds ==
    /\ \E save \in dialog.saves :
        dialog' = [form |-> IF save.mine THEN ClosedDialog ELSE dialog.form,
                   saves |-> dialog.saves \ {save}]
    /\ DialogOnly

SaveFails ==
    /\ \E save \in dialog.saves : dialog' = [dialog EXCEPT !.saves = @ \ {save}]
    /\ DialogOnly

DialogNext ==
    \/ OpenCreate
    \/ OpenEdit
    \/ TypeField
    \/ CloseModal
    \/ SubmitRecord
    \/ SaveSucceeds
    \/ SaveFails

-------------------------------------------------------------------------------
Forms == [open : BOOLEAN, editing : Records \cup {NoRecord}, of : Records \cup {NoRecord},
          missing : SUBSET {"name", "url", "keywords"}]

DialogTypeOK ==
    /\ dialog \in [form : Forms, saves : SUBSET Saves]
    /\ dialog.form.open => OnRecordPage

===============================================================================
