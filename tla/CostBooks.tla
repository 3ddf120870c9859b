------------------------------- MODULE CostBooks -------------------------------
(***************************************************************************)
(* The stored costing of a register (services/costing_store.py) and the    *)
(* pages that read it (services/analytics.py, _Costing).  Costing a row    *)
(* takes the row, the employee's PF flag, the configuration the request    *)
(* loaded and the published versions of it.  The result is stored beside   *)
(* a digest of all of these, its basis, and used while the basis is the    *)
(* same as that of the request.                                            *)
(*                                                                         *)
(* A request reads at READ COMMITTED, one thing after the other, while     *)
(* registers are uploaded again and configurations change, and it stores   *)
(* what it worked out in a transaction of its own.  An ingredient is       *)
(* identified with the number of changes made to it; a published version   *)
(* is there or not, because the basis names the versions themselves: one   *)
(* that is withdrawn leaves the basis as it was before.                    *)
(***************************************************************************)
EXTENDS Naturals, FiniteSets

CONSTANTS
  Requests,      \* pages that show costs
  ChangeBound,   \* how often each of the ingredients changes
  TurnBound,     \* how often a version is published or withdrawn
  RequestBound   \* how many costings are worked out

Ingredients == {"rows", "flags", "base"}

NoBook == [basis |-> {}, costs |-> {}]

VARIABLES
  made,       \* how often the rows, the PF flags and the base configuration changed
  published,  \* is a dated version in force for the month
  turns,      \* how often that changed
  book,       \* the stored costing of the register: the basis and the figures
  req,        \* what each request has read so far, and what it shows
  worked      \* how many costings were worked out

vars == <<made, published, turns, book, req, worked>>

Idle == [at |-> "idle", began |-> [i \in Ingredients |-> 0], could |-> {}, base |-> 0, token |-> 0,
         versions |-> FALSE, flags |-> 0, shows |-> {}]

--------------------------------------------------------------------------------
\* The figures are those of exactly these rows, flags and configuration.
\* They are torn when the versions changed since the request took its basis.
CostRow(rows, r, versions) ==
  {[rows |-> rows, flags |-> r.flags, base |-> r.base, versions |-> versions, torn |-> versions # r.versions]}

\* Mutant: without the PF flags, which come from the master.
RegisterBasisUnflagged(r) == {[token |-> r.token, base |-> r.base, versions |-> r.versions, flags |-> 0]}

\* What a request's costing would rest on: the token of the rows, the configuration
\* it loaded, the versions, and the flags.
RegisterBasis(r) == {[token |-> r.token, base |-> r.base, versions |-> r.versions, flags |-> r.flags]}

\* Used only when its basis is today's.
Fresh(b, r) == b.costs # {} /\ b.basis = RegisterBasis(r)

\* What is left of a request once its page is shown.
Shown(r, figures) == [Idle EXCEPT !.at = "shown", !.began = r.began, !.could = r.could, !.shows = figures]

\* A published version is what a request could have seen since it began.
Seen(r, q) == [r EXCEPT !.could = @ \cup {q}]

Init ==
  /\ made = [i \in Ingredients |-> 0]
  /\ published \in BOOLEAN
  /\ turns = 0
  /\ book = NoBook
  /\ req = [p \in Requests |-> Idle]
  /\ worked = 0

\* CostContext: the components and the base configuration are loaded once.
Open(p) ==
  /\ req[p].at = "idle"
  /\ req' = [req EXCEPT ![p] = [Idle EXCEPT !.at = "open", !.began = made, !.base = made["base"], !.could = {published}]]
  /\ UNCHANGED <<made, published, turns, book, worked>>

\* configuration_basis: the revision of the rows is read before any row.
TakeBasis(p) ==
  /\ req[p].at = "open"
  /\ req' = [req EXCEPT ![p].at = "based", ![p].token = made["rows"], ![p].versions = published]
  /\ UNCHANGED <<made, published, turns, book, worked>>

\* _book: the flags, then the stored costing if it is of the same basis.
ReadBook(p) ==
  /\ req[p].at = "based"
  /\ LET r == [req[p] EXCEPT !.flags = made["flags"]] IN
     req' = [req EXCEPT ![p] = IF Fresh(book, r) THEN Shown(r, book.costs)
                               ELSE [r EXCEPT !.at = "missed"]]
  /\ UNCHANGED <<made, published, turns, book, worked>>

\* cost_register: the rows as they are by now, with the versions as they are by now.
Work(p) ==
  /\ req[p].at = "missed"
  /\ worked < RequestBound
  /\ worked' = worked + 1
  /\ req' = [req EXCEPT ![p].at = "worked",
                        ![p].shows = CostRow(made["rows"], req[p], published)]
  /\ UNCHANGED <<made, published, turns, book>>

\* store, aside: it commits, or is skipped because another request holds the row.
Store(p) ==
  /\ req[p].at = "worked"
  /\ book' \in {[basis |-> RegisterBasis(req[p]), costs |-> req[p].shows], book}
  /\ req' = [req EXCEPT ![p] = Shown(@, @.shows)]
  /\ UNCHANGED <<made, published, turns, worked>>

Leave(p) ==
  /\ req[p].at = "shown"
  /\ req' = [req EXCEPT ![p] = Idle]
  /\ UNCHANGED <<made, published, turns, book, worked>>

\* A register is uploaded again, the master changes, or the base configuration does.
Change(i) ==
  /\ made[i] < ChangeBound
  /\ made' = [made EXCEPT ![i] = @ + 1]
  /\ UNCHANGED <<published, turns, book, req, worked>>

\* A dated version is published, or withdrawn; then the list of versions is as before.
ChangeVersions ==
  /\ published' = ~published
  /\ turns < TurnBound
  /\ turns' = turns + 1
  /\ req' = [p \in Requests |-> IF req[p].at = "idle" THEN req[p] ELSE Seen(req[p], published')]
  /\ UNCHANGED <<made, book, worked>>

Next ==
  \/ \E p \in Requests : Open(p) \/ TakeBasis(p) \/ ReadBook(p) \/ Work(p) \/ Store(p) \/ Leave(p)
  \/ \E i \in Ingredients : Change(i)
  \/ ChangeVersions

Spec == Init /\ [][Next]_vars

--------------------------------------------------------------------------------
\* What a page shows was worked out of rows, PF flags and a configuration that were
\* there at some moment since the request began, whoever worked it out: "the worst a
\* stale entry can cost is time" (models/derived_cache.py:18). Torn figures are
\* excepted: worked out while a version was in force, under a basis taken before it
\* was published, they are found again once it is withdrawn.
BooksAreOfTheirTime ==
  \A p \in Requests : req[p].at = "shown" => \A c \in req[p].shows :
    /\ \A i \in Ingredients : req[p].began[i] <= c[i]
    /\ c.versions \in req[p].could \/ c.torn
================================================================================
