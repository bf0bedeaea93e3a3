--------------------------- MODULE CheckpointPages ---------------------------
(***************************************************************************)
(* `list` of the Progress Recorder (progress/mod.rs): newest-first pages   *)
(* of one project's ledger.  A reader walks the history by handing the     *)
(* next_cursor of a page back as before_checkpoint_id of the next query,   *)
(* while other processes go on recording, and while still others open the  *)
(* database and upgrade it (LedgerMigration).  Each page is one SELECT.    *)
(***************************************************************************)
EXTENDS LedgerMigration, Sequences, SequencesExt

CONSTANTS
    Readers,        \* clients walking the history
    Ids,            \* checkpoint identities
    Projects,       \* projects of the ledger
    WorkItems,      \* work items of a checkpoint
    NoItem,         \* no work item (NULL)
    None,           \* no cursor (NULL)
    MaxLimit        \* largest page size asked for (100 in the code)

ASSUME OldRowsAssumption == OldRows \subseteq Ids /\ IsFiniteSet(OldRows)
ASSUME NoneAssumption == None \notin Ids
ASSUME LimitAssumption == MaxLimit \in Nat \ {0}

VARIABLES
    ledger,         \* rows of gareji_checkpoints in rowid order
    walk            \* what each reader asked for and was given

pageVars == <<ledger, walk>>
vars == <<migrationVars, pageVars>>

Items == WorkItems \cup {NoItem}
Checkpoints == [id : Ids, project : Projects, item : Items]
\* item = NoItem in a query means any work item (?2 IS NULL).
Scopes == [project : Projects, item : Items]

Idle == [state |-> "idle"]
Walks ==
    [state : {"reading", "done"}, scope : Scopes,
     first : Ids \cup {None}, cursor : Ids \cup {None},
     pages : Seq(Seq(Ids)), limits : Seq(1 .. MaxLimit), from : Nat]

TypeOK ==
    /\ MigrationTypeOK
    /\ ledger \in Seq(Checkpoints)
    /\ \A r \in Readers : walk[r] = Idle \/ walk[r] \in Walks

\* A database of version 1 or 2 has rows; which identity came first is no matter.
Init ==
    /\ MigrationInit
    /\ ledger \in IF ~tables THEN {<<>>}
                 ELSE {l \in [1 .. Cardinality(OldRows) -> Checkpoints] :
                         \A k \in DOMAIN l : l[k].id = SetToSeq(OldRows)[k]}
    /\ walk = [r \in Readers |-> Idle]

-----------------------------------------------------------------------------
(* The query *)

\* The scope columns of a row that is not backfilled are NULL and match nothing.
Matches(row, scope) ==
    /\ row.id \notin unscoped
    /\ row.project = scope.project
    /\ scope.item = NoItem \/ row.item = scope.item

Known(id) == \E i \in DOMAIN ledger : ledger[i].id = id
Rowid(id) == CHOOSE i \in DOMAIN ledger : ledger[i].id = id

\* Faulty variant: the cursor row again.
BeforeOrAt(i, before) == before = None \/ (Known(before) /\ i <= Rowid(before))
\* rowid < (SELECT rowid ...): false for every row if the cursor is unknown (NULL).
Before(i, before) == before = None \/ (Known(before) /\ i < Rowid(before))

\* One row more than the page, to learn whether there is another page.
FetchLimit(limit) == limit + 1

\* ORDER BY rowid DESC
NewestFirst(rows) ==
    CHOOSE s \in [1 .. Cardinality(rows) -> rows] :
        \A i, j \in 1 .. Cardinality(rows) : i < j => s[i] > s[j]
IdsOf(rows) == [k \in 1 .. Cardinality(rows) |-> ledger[NewestFirst(rows)[k]].id]

\* ... LIMIT ?4
Fetched(scope, before, limit) ==
    LET ids == IdsOf({i \in DOMAIN ledger : Matches(ledger[i], scope) /\ Before(i, before)})
    IN  SubSeq(ids, 1, IF Len(ids) < FetchLimit(limit) THEN Len(ids) ELSE FetchLimit(limit))

\* Faulty variant: a full page is taken for an unfinished one.
HasMoreIfFull(fetched, limit) == Len(fetched) >= limit
HasMore(fetched, limit) == Len(fetched) > limit

\* truncate, and the cursor of the next page
Page(scope, before, limit) ==
    LET fetched == Fetched(scope, before, limit)
        page == SubSeq(fetched, 1, IF HasMore(fetched, limit) THEN limit ELSE Len(fetched))
    IN  [ids |-> page, next |-> IF HasMore(fetched, limit) THEN Last(page) ELSE None]

-----------------------------------------------------------------------------
(* record inserts a row after the last; identities are unique.  Any process
   that has the ledger open may record and read. *)
Record(c) ==
    /\ IsOpen
    /\ ~Known(c.id)
    /\ ledger' = Append(ledger, c)
    /\ UNCHANGED <<migrationVars, walk>>

\* A walk begins with a query that may already name a cursor, any identity at
\* all, and goes on with the cursor of the page before.
Begun(r, scope, before) ==
    IF walk[r] = Idle
    THEN [state |-> "reading", scope |-> scope, first |-> before, cursor |-> before,
          pages |-> <<>>, limits |-> <<>>, from |-> Len(ledger)]
    ELSE walk[r]

(* A reader may ask for another page size with each query. *)
ReadPage(r, scope, before, limit) ==
    /\ IsOpen
    /\ walk[r] = Idle \/ (walk[r].state = "reading" /\ scope = walk[r].scope
                                                   /\ before = walk[r].cursor)
    /\ LET page == Page(scope, before, limit)
           w == Begun(r, scope, before)
       IN  walk' = [walk EXCEPT ![r] =
                      [w EXCEPT !.state = IF page.next = None THEN "done" ELSE "reading",
                                !.cursor = page.next,
                                !.pages = Append(@, page.ids),
                                !.limits = Append(@, limit)]]
    /\ UNCHANGED <<migrationVars, ledger>>

\* Identities are interchangeable: any one that is new will do.
NewCheckpoints ==
    IF \A id \in Ids : Known(id) THEN {}
    ELSE LET new == CHOOSE id \in Ids : ~Known(id) IN {c \in Checkpoints : c.id = new}

Next ==
    \/ Migrate /\ UNCHANGED pageVars
    \/ \E c \in NewCheckpoints : Record(c)
    \/ \E r \in Readers, scope \in Scopes, before \in Ids \cup {None}, limit \in 1 .. MaxLimit :
         ReadPage(r, scope, before, limit)

Spec == Init /\ [][Next]_vars

\* A process that opens the ledger goes on, and a failed command is run again.
FairSpec ==
    /\ Spec
    /\ \A p \in Procs :
         /\ WF_vars(OpenStep(p) /\ UNCHANGED pageVars)
         /\ WF_vars(Retry(p) /\ UNCHANGED pageVars)

-----------------------------------------------------------------------------
(* Properties *)

\* What a walk has to return: the rows of its scope that the ledger held when
\* its first page was read, newest first, from its first cursor on.
RowsOf(w) ==
    {i \in 1 .. w.from :
        /\ ledger[i].project = w.scope.project
        /\ w.scope.item \in {NoItem, ledger[i].item}
        /\ w.first # None => /\ \E k \in 1 .. w.from : ledger[k].id = w.first
                            /\ i < Rowid(w.first)}
Expected(w) == IdsOf(RowsOf(w))

(* Following next_cursor returns every checkpoint of the scope exactly once and
   newest first, whatever is recorded between two pages and however the page
   size changes, and also of an upgraded ledger: the pages so far are a prefix
   of the history the walk began with, and a walk that is done has all of it. *)
WalkIsExact ==
    /\ TypeOK
    /\ \A r \in Readers : walk[r] # Idle =>
         LET seen == FlattenSeq(walk[r].pages)
         IN  IF walk[r].state = "done" THEN seen = Expected(walk[r])
             ELSE IsStrictPrefix(seen, Expected(walk[r]))

(* A page is as long as was asked for, except the last, which is empty only if
   the walk returns nothing at all: no client is sent to an empty page. *)
PagesAreFull ==
    \A r \in Readers : walk[r] # Idle =>
        LET w == walk[r] IN
        \A k \in DOMAIN w.pages :
            /\ Len(w.pages[k]) <= w.limits[k]
            /\ (k < Len(w.pages) \/ w.state = "reading") => Len(w.pages[k]) = w.limits[k]
            /\ k > 1 => w.pages[k] # <<>>

=============================================================================
