------------------------------ MODULE History ------------------------------
(***************************************************************************)
(* get_history: a client turns the pages of a user's jobs, newest first,   *)
(* while other requests insert rows.  A cursor is the created_at and the   *)
(* id of the last row of a page; encode_cursor and decode_cursor lose      *)
(* nothing of either.  The filters narrow the rows and are left out.       *)
(***************************************************************************)
EXTENDS JobSubmission

CONSTANTS PageSize      \* limit, after clamp_limit

ASSUME PageSizeAssumption == PageSize \in Nat \ {0}

VARIABLES reader        \* a client that turns the pages

\* next: the row next_cursor names, if there is a further page.  History: seen
\* are the rows of the pages so far, twice those that were on two of them, due
\* the rows there were when the first page was read.
Fresh == [next |-> {}, seen |-> {}, twice |-> {}, due |-> {}]

\* Types of create_job's state and of the reader: it has read pages of committed
\* rows, and a cursor is one of them.
TypeOK ==
    /\ SubmissionTypeOK
    /\ reader \in [next: SUBSET jobs, seen: SUBSET jobs, twice: SUBSET jobs, due: SUBSET jobs]
    /\ \A row, other \in reader.next : row = other

-----------------------------------------------------------------------------

\* (created_at, id) < (cursor_created_at, cursor_id), as PostgreSQL compares rows.
Before(a, b) == a.at < b.at \/ (a.at = b.at /\ a.id < b.id)

MutBeyond(cursor) == {row \in jobs : row.at < cursor.at}

\* The rows a cursor leaves.
Beyond(cursor) == {row \in jobs : Before(row, cursor)}

\* ORDER BY created_at DESC, id DESC LIMIT: the rows with less than a page of
\* newer ones.
Newer(rows, row) == {other \in rows : Before(row, other)}
Page(rows) == {row \in rows : Cardinality(Newer(rows, row)) < PageSize}

\* One row more than the page holds is asked for.
HasMore(rows) == Cardinality(rows) > PageSize

\* next_cursor names the last row of the page.
Oldest(page) == CHOOSE row \in page : \A other \in page : ~Before(other, row)

Read(rows, seen, twice, due) ==
    reader' = [next  |-> IF HasMore(rows) THEN {Oldest(Page(rows))} ELSE {},
               seen  |-> seen \cup Page(rows),
               twice |-> twice \cup (seen \cap Page(rows)),
               due   |-> due]

FirstPage ==
    /\ reader.next = {}
    /\ Read(jobs, {}, {}, jobs)
    /\ UNCHANGED vars

NextPage ==
    /\ \E row \in reader.next :
          Read(Beyond(row), reader.seen, reader.twice, reader.due)
    /\ UNCHANGED vars

Init == SubmissionInit /\ reader = Fresh
Next == \/ SubmissionNext /\ UNCHANGED reader
        \/ FirstPage \/ NextPage
Spec == Init /\ [][Next]_<<vars, reader>>

-----------------------------------------------------------------------------

(***************************************************************************)
(* However many rows are inserted between two pages, and although a row    *)
(* may become visible after rows with a later created_at, no row is shown  *)
(* twice and, once there is no further page, none that was there when the  *)
(* first page was read is missing (get_history, JobRepo.list_for_user).    *)
(***************************************************************************)
PagesComplete ==
    /\ reader.twice = {}
    /\ reader.next = {} => reader.due \subseteq reader.seen
=============================================================================
