---------------------------- MODULE Transactions ----------------------------
(***************************************************************************)
(* How the domain modules (studio, production, live_record, quality, ...)  *)
(* run a command: inside one SqlTransactionScope over the unit of work of  *)
(* platform/persistence/unit_of_work.py, with their tables and the outbox. *)
(*                                                                         *)
(* The database is READ COMMITTED, and the commands of several requests    *)
(* are under way at the same time.  A command is two steps: it reads the   *)
(* rows it needs and decides what to write (Begin), and it writes and      *)
(* commits (Commit).  What it writes is a set of statements: the columns   *)
(* an UPDATE sets are the ones it names, and the row it finds may not be   *)
(* the row that was read.                                                  *)
(***************************************************************************)
EXTENDS Integers

CONSTANTS
    Calls,         \* commands that may be under way at the same time
    None,          \* no row, no value
    Unstated,      \* {None} if requests may leave expected_version out, {} if they do not
    MaxVersion     \* bound on the version of each row

VARIABLES
    row,       \* the tables: id -> row, or None
    call,      \* each command under way: what it will write, and tell
    told       \* what the outbox said last of each row

txVars == <<row, call, told>>

Present(id) == row[id] # None

\* expected_version of a request for a row that is there: the version the caller has
\* seen, or left out.  A version that is wrong when the row is read is refused there
\* and then, and so is a request for a row that is not there.
Stated(id) == IF Present(id) THEN {row[id].version} \union Unstated ELSE {}

Insert(id, new) ==
    [on |-> id, set |-> new, where |-> None, fresh |-> TRUE, gone |-> FALSE, must |-> TRUE,
     unique |-> {}, tells |-> None]

\* An UPDATE, conditional on the version unless expected is None.  When it finds no
\* row, the command fails and is rolled back ...
Update(id, set, expected) ==
    [Insert(id, set) EXCEPT !.where = expected, !.fresh = FALSE]

\* ... or, where the command does not look at the result, goes on.
Attempt(id, set, expected) == [Update(id, set, expected) EXCEPT !.must = FALSE]

Delete(id) == [Attempt(id, <<>>, None) EXCEPT !.gone = TRUE]

\* A statement on a table with a unique constraint on a column.
Unique(w, column) == [w EXCEPT !.unique = {column}]

\* A statement with an event that is recorded if it finds its row.
Telling(w, what) == [w EXCEPT !.tells = what]

\* A repository's update leaves the columns alone that it is given None for.
Given(set) == [f \in {g \in DOMAIN set : set[g] # None} |-> set[f]]

\* The columns of set over those of a row.
Over(set, r) ==
    [f \in DOMAIN set \union DOMAIN r |-> IF f \in DOMAIN set THEN set[f] ELSE r[f]]

\* What an edit changes of a row: the fields with a new value.
Changed(id, patch) == [f \in {g \in DOMAIN Given(patch) : patch[g] # row[id][g]} |-> patch[f]]

Bumped(id, set) == Over(set, [version |-> row[id].version + 1])

-----------------------------------------------------------------------------

\* says: what the events of the command say of rows
Begin(c, writes, says) ==
    /\ call[c] = None
    /\ \A w \in writes : ~w.fresh /\ ~w.gone => row[w.on].version < MaxVersion[w.on]
    /\ call' = [call EXCEPT ![c] = [writes |-> writes, says |-> says]]
    /\ UNCHANGED <<row, told>>

\* Mutant of Finds: an UPDATE does not look at the version.
FindsAny(w) == IF w.fresh THEN row[w.on] = None ELSE row[w.on] # None

\* Another row of the table has the value of a unique column.
Clashes(w) ==
    \E column \in w.unique, id \in DOMAIN row \ {w.on} :
        /\ row[id] # None
        /\ column \in DOMAIN row[id]
        /\ row[id][column] = w.set[column]

\* The statement finds its row; an INSERT, that there is none with its key.
Finds(w) ==
    /\ IF w.fresh THEN row[w.on] = None
       ELSE row[w.on] # None /\ w.where \in {None, row[w.on].version}
    /\ ~Clashes(w)

Written(w) == IF w.gone THEN None ELSE IF w.fresh THEN w.set ELSE Over(w.set, row[w.on])

Commit(c) ==
    /\ call[c] # None
    /\ call' = [call EXCEPT ![c] = None]
    /\ IF \A w \in call[c].writes : w.must => Finds(w)
       THEN /\ row' = [id \in DOMAIN row |->
                  LET found == {w \in call[c].writes : w.on = id /\ Finds(w)}
                  IN  IF found = {} THEN row[id] ELSE Written(CHOOSE w \in found : TRUE)]
            /\ told' = [id \in DOMAIN told |->
                  LET found == {w \in call[c].writes : w.on = id /\ w.tells # None /\ Finds(w)}
                  IN  IF found # {} THEN (CHOOSE w \in found : TRUE).tells
                      ELSE IF id \in DOMAIN call[c].says THEN call[c].says[id] ELSE told[id]]
       ELSE UNCHANGED <<row, told>>

\* The request is cancelled, the database fails or the process dies.
Rollback(c) ==
    /\ call[c] # None
    /\ call' = [call EXCEPT ![c] = None]
    /\ UNCHANGED <<row, told>>

Finish == \E c \in Calls : Commit(c) \/ Rollback(c)
=============================================================================
