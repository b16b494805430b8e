-------------------------------- MODULE History --------------------------------
(***************************************************************************)
(* The history of exchanges: its table (internal/store/store.go), a page   *)
(* that polls it and clears it (internal/ui/ui.go, web/history.js), and    *)
(* the repeater, whose tabs name exchanges and whose results become some   *)
(* (internal/repeater, internal/ui/repeater.go, web/repeater.js).          *)
(*                                                                         *)
(* An exchange is the number of its save: two are never the same, whatever *)
(* ids they get.  A page's requests travel: the server handles them at     *)
(* one moment, and the page its answers at a later one.                    *)
(***************************************************************************)
EXTENDS Sessions, FiniteSetsExt, Functions

CONSTANTS Limit,     \* rows per answer of GET /api/exchanges
          MaxSaves   \* bound: exchanges that are saved

ASSUME HistoryAssumption == Limit \in Nat \ {0} /\ MaxSaves \in Nat

VARIABLES exchanges,  \* the table: [ids -> exchanges]
          saved,      \* exchanges saved so far, which is sqlite_sequence as well
          page,       \* the History view, below
          tab         \* a Repeater tab, below

historyVars == <<exchanges, saved, page, tab>>
vars == <<sessionVars, historyVars>>

Rows == DOMAIN exchanges
None == <<>>   \* no rows

\* lastId and items as in history.js, poll and clear as far as their requests are;
\* first is the lowest id of the first answer, wiped what Clear took from the view.
NewPage == [lastId |-> 0, items |-> None, poll |-> "idle", answer |-> None,
            clear |-> "idle", first |-> 0, wiped |-> {}]

\* source is sourceId, of the exchange it was opened from; kept: the body cannot be
\* edited; body: what the send in progress sends; results as in repeater.js.
NoTab == [source |-> 0, of |-> 0, kept |-> FALSE, sending |-> FALSE, body |-> 0, results |-> None]

TypeOK ==
  /\ SessionsTypeOK
  /\ saved \in 0..MaxSaves
  /\ Rows \subseteq 1..saved /\ Range(exchanges) \subseteq 1..saved
  /\ page.lastId \in 0..saved
  /\ page.poll \in {"idle", "asked", "answered"} /\ page.clear \in {"idle", "asked", "done"}
  /\ DOMAIN page.items \subseteq 1..saved
  /\ tab.source \in 0..saved /\ DOMAIN tab.results \subseteq 1..saved

Init ==
  /\ SessionsInit
  /\ exchanges = None /\ saved = 0
  /\ page = NewPage /\ tab = NoTab

-----------------------------------------------------------------------------
(* The table.                                                              *)

With(rows, id, x) == [i \in DOMAIN rows \cup {id} |-> IF i = id THEN x ELSE rows[i]]

\* Mutant: without AUTOINCREMENT, an id after the highest one that is there.
NextIdOfRows == IF Rows = {} THEN 1 ELSE Max(Rows) + 1

\* AUTOINCREMENT: an id after the highest one that ever was.
NextId == saved + 1

\* Store.Save: one statement, on the one connection there is.
Insert ==
  /\ saved < MaxSaves
  /\ exchanges' = With(exchanges, NextId, saved + 1)
  /\ saved' = saved + 1

\* The proxy saves an exchange; a save that fails is only logged.
Save == Insert /\ UNCHANGED <<page, tab>>

\* The highest, and the lowest, Limit of a set of ids.
Newest(ids) == {i \in ids : Cardinality({j \in ids : j > i}) < Limit}
Oldest(ids) == {i \in ids : Cardinality({j \in ids : j < i}) < Limit}

\* Mutant: the most recent rows, after as before.
ListNewest(after) == Newest({i \in Rows : i > after})

\* Store.List: what follows the last seen row, or the most recent rows.
List(after) == IF after > 0 THEN Oldest({i \in Rows : i > after}) ELSE Newest(Rows)

\* Store.Get: the exchange with an id, or ErrNotFound.
NotFound == 0
Get(id) == IF id \in Rows THEN exchanges[id] ELSE NotFound

-----------------------------------------------------------------------------
(* The History view.                                                       *)

PollAsk ==
  /\ page.poll = "idle"
  /\ page' = [page EXCEPT !.poll = "asked"]
  /\ UNCHANGED <<exchanges, saved, tab>>

\* handleList.
PollAnswer ==
  /\ page.poll = "asked"
  /\ page' = [page EXCEPT !.poll = "answered",
                          !.answer = [i \in List(page.lastId) |-> exchanges[i]]]
  /\ UNCHANGED <<exchanges, saved, tab>>

\* addRows: rows that are shown already stay as they are.
AddRows ==
  /\ page.poll = "answered"
  /\ LET ids == DOMAIN page.answer
         new == ids \ DOMAIN page.items
     IN page' = [page EXCEPT
          !.poll = "idle", !.answer = None,
          !.items = [i \in ids \cup DOMAIN @ |-> IF i \in new THEN page.answer[i] ELSE @[i]],
          !.lastId = Max({@} \cup new),
          !.first = IF @ = 0 /\ ids # {} THEN Min(ids) ELSE @]
  /\ UNCHANGED <<exchanges, saved, tab>>

\* The poll's request or its answer is lost.
PollFails ==
  /\ page.poll \in {"asked", "answered"}
  /\ page' = [page EXCEPT !.poll = "idle", !.answer = None]
  /\ UNCHANGED <<exchanges, saved, tab>>

ClearAsk ==
  /\ page.clear = "idle"
  /\ page' = [page EXCEPT !.clear = "asked"]
  /\ UNCHANGED <<exchanges, saved, tab>>

\* handleClear, for this page or another one; what its failure leaves is as before.
Clear ==
  /\ exchanges' = None
  /\ \/ page.clear = "asked" /\ page' = [page EXCEPT !.clear = "done"]
     \/ UNCHANGED page
  /\ UNCHANGED <<saved, tab>>

\* The view is emptied when the answer arrives; lastId stays.
ClearAnswered ==
  /\ page.clear = "done"
  /\ page' = [page EXCEPT !.clear = "idle", !.items = None, !.wiped = @ \cup DOMAIN page.items]
  /\ UNCHANGED <<exchanges, saved, tab>>

\* The browser reloads the page; the tabs are in its localStorage.
Reload ==
  /\ page' = NewPage
  /\ UNCHANGED <<exchanges, saved, tab>>

-----------------------------------------------------------------------------
(* The repeater.                                                           *)

\* openFromExchange on a row of the view, with handleRepeaterSeed: one that has been
\* cleared is not found.  A body that is no text, or was truncated, is kept.
OpenTab ==
  /\ tab.source = 0
  /\ \E i \in DOMAIN page.items, kept \in BOOLEAN :
       /\ Get(i) # NotFound
       /\ tab' = [NoTab EXCEPT !.source = i, !.of = page.items[i], !.kept = kept]
  /\ UNCHANGED <<exchanges, saved, page>>

\* handleRepeaterSend, up to the send: a body that the tab does not have is the one
\* of the exchange it names, or none if there is no such exchange.
Send ==
  /\ tab.source # 0 /\ ~tab.sending
  /\ tab' = [tab EXCEPT
       !.sending = TRUE,
       !.body = IF tab.kept THEN Get(tab.source) ELSE tab.of]
  /\ UNCHANGED <<exchanges, saved, page>>

\* Service.Send saves what it got, also for a caller that went away; the tab gets the
\* id, unless it is the one that went away.
Sent ==
  /\ tab.sending
  /\ Insert
  /\ \/ tab' = [tab EXCEPT !.sending = FALSE, !.body = 0, !.results = With(@, NextId, saved')]
     \/ tab' = [tab EXCEPT !.sending = FALSE, !.body = 0]
  /\ UNCHANGED page

Next ==
  \/ /\ \/ Save
        \/ PollAsk \/ PollAnswer \/ AddRows \/ PollFails
        \/ ClearAsk \/ Clear \/ ClearAnswered \/ Reload
        \/ OpenTab \/ Send \/ Sent
     /\ UNCHANGED sessionVars
  \/ SessionsNext /\ UNCHANGED historyVars

Spec == Init /\ [][Next]_vars

-----------------------------------------------------------------------------
(* Properties.                                                             *)

\* Polling with the last id it saw, a view misses no row between its first answer and
\* its last, however many are saved between two polls and whatever is cleared
\* meanwhile (store.go:248), but for those its own Clear took off it.
NoRowSkipped ==
  page.first # 0 =>
    \A i \in Rows : i \in page.first..page.lastId => i \in DOMAIN page.items \cup page.wiped

\* "Ids are never reused (AUTOINCREMENT), so UI clients polling with a last-seen id
\* keep working" (store.go:320): an id that a view, a tab or a result list keeps over
\* a Clear never comes to name another exchange, and a tab never resends the body of
\* another one.
IdsKeepTheirMeaning ==
  /\ \A i \in Rows :
       /\ i \in DOMAIN page.items => page.items[i] = exchanges[i]
       /\ i \in DOMAIN tab.results => tab.results[i] = exchanges[i]
       /\ i = tab.source => tab.of = exchanges[i]
  /\ tab.body \in {NotFound, tab.of}

\* "Resent unchanged from the stored bytes" (README:277).
\* Not so: README, section 5.
KeptBodyIsResent == tab.sending => tab.body = tab.of

=============================================================================
