-------------------------------- MODULE SearchBox --------------------------------
(***************************************************************************)
(* The search box of the shell (components/layout/AppShell.tsx): results are *)
(* fetched while the admin types, for the text React has caught up with, and *)
(* one of them is highlighted for the keyboard.  Effects run some time after *)
(* the render that calls for them, and before the next render; a key may be  *)
(* pressed in between.                                                       *)
(***************************************************************************)
EXTENDS Console

CONSTANT MaxItems   \* BOUND on the results for a text

ASSUME MaxItemsAssumption == MaxItems \in Nat

Keys == Texts \ {""}

Effects == {"close", "first", "within"}

(* found: the cached results, by text; Unknown ones have never arrived.      *)
(* asked: texts being looked up.  due: effects of the last render, to run.   *)
Unknown == -1

ClosedSearch == [open |-> FALSE, text |-> "", deferred |-> "", active |-> 0,
                 found |-> [t \in Keys |-> Unknown], asked |-> {}, due |-> {}]

(* The number of results listed.                                             *)
Items(s) ==
    IF s.deferred = "" THEN 0
    ELSE IF s.found[s.deferred] = Unknown THEN 0 ELSE s.found[s.deferred]

(* s is rendered after r: the effects whose dependencies changed are due.    *)
Rendered(r, s) ==
    [s EXCEPT !.due = @ \cup {e \in Effects :
        CASE e = "close"  -> s.text # r.text
          [] e = "first"  -> s.deferred # r.deferred
          [] e = "within" -> Items(s) # Items(r)}]

(* The query is enabled: it is fetched if nothing is known, or it is stale.  *)
Asking(r, s) ==
    IF s.open /\ s.deferred # "" /\ (~r.open \/ r.deferred # s.deferred)
    THEN {[s EXCEPT !.asked = @ \cup {s.deferred}]}
         \cup {t \in {s} : s.found[s.deferred] # Unknown}
    ELSE {s}

SearchOnly == UNCHANGED <<route, list, dialog, credentials, store>>

Becomes(s) == search' \in {Rendered(search, t) : t \in Asking(search, s)}

-------------------------------------------------------------------------------
OpenByShortcut ==
    /\ search.due = {}
    /\ Becomes([search EXCEPT !.open = TRUE])
    /\ SearchOnly

PointElsewhere ==
    /\ search.due = {} /\ search.open
    /\ Becomes([search EXCEPT !.open = FALSE])
    /\ SearchOnly

FocusInput ==
    /\ search.due = {} /\ search.text # ""
    /\ Becomes([search EXCEPT !.open = TRUE])
    /\ SearchOnly

TypeQuery ==
    /\ search.due = {}
    /\ \E text \in Texts \ {search.text} :
        Becomes([search EXCEPT !.text = text, !.open = text # ""])
    /\ SearchOnly

DeferQuery ==
    /\ search.due = {} /\ search.deferred # search.text
    /\ Becomes([search EXCEPT !.deferred = search.text])
    /\ SearchOnly

(* Mutant: the list may get shorter than where the highlight is.             *)
MutantWithin(s) == s.active

Within(s) ==
    LET last == IF Items(s) = 0 THEN 0 ELSE Items(s) - 1
    IN  IF s.active < last THEN s.active ELSE last

(* In the order of their declaration.                                        *)
RunEffects ==
    /\ search.due # {}
    /\ LET closed  == IF "close" \in search.due /\ search.text = ""
                      THEN [search EXCEPT !.open = FALSE] ELSE search
           atFirst == IF "first" \in search.due THEN [closed EXCEPT !.active = 0] ELSE closed
           within  == IF "within" \in search.due
                      THEN [atFirst EXCEPT !.active = Within(atFirst)] ELSE atFirst
       IN  Becomes([within EXCEPT !.due = {}])
    /\ SearchOnly

ResultsArrive ==
    /\ search.due = {}
    /\ \E text \in search.asked, n \in 0..MaxItems :
        Becomes([search EXCEPT !.found[text] = n, !.asked = @ \ {text}])
    /\ SearchOnly

SearchFails ==
    /\ search.due = {}
    /\ \E text \in search.asked : Becomes([search EXCEPT !.asked = @ \ {text}])
    /\ SearchOnly

-------------------------------------------------------------------------------
(* Keys may be pressed while effects are due.                                *)
Escape ==
    /\ search.open
    /\ Becomes([search EXCEPT !.open = FALSE])
    /\ SearchOnly

(* Mutant: the highlight moves past the last result.                         *)
MutantArrowDown ==
    /\ Items(search) > 0
    /\ search' = [search EXCEPT !.active = @ + 1]
    /\ SearchOnly

ArrowDown ==
    /\ Items(search) > 0
    /\ search' = [search EXCEPT !.active = (@ + 1) % Items(search)]
    /\ SearchOnly

ArrowUp ==
    /\ Items(search) > 0
    /\ search' = [search EXCEPT !.active = (@ - 1 + Items(search)) % Items(search)]
    /\ SearchOnly

Hover ==
    /\ search.open /\ Items(search) > 0
    /\ \E i \in 0..(Items(search) - 1) : search' = [search EXCEPT !.active = i]
    /\ SearchOnly

(* Enter takes the highlighted result or, if there is no such, the first.    *)
Enter ==
    /\ Items(search) > 0
    /\ Becomes([search EXCEPT !.open = FALSE, !.text = ""])

SearchNext ==
    \/ OpenByShortcut
    \/ PointElsewhere
    \/ FocusInput
    \/ TypeQuery
    \/ DeferQuery
    \/ RunEffects
    \/ ResultsArrive
    \/ SearchFails
    \/ Escape
    \/ ArrowDown
    \/ ArrowUp
    \/ Hover

-------------------------------------------------------------------------------
SearchTypeOK ==
    search \in [open : BOOLEAN, text : Texts, deferred : Texts, active : 0..MaxItems,
                found : [Keys -> Unknown..MaxItems], asked : SUBSET Keys, due : SUBSET Effects]

(* Whenever the effects have run, the highlight is on one of the results that *)
(* are listed, if there are any: however texts, late answers for other texts, *)
(* shorter answers for the same one and keys follow each other.               *)
HighlightIsShown == search.due = {} /\ Items(search) > 0 => search.active < Items(search)

===============================================================================
