------------------------------ MODULE TodoData ------------------------------
(***************************************************************************)
(* A todo item and what an update does to it (todo.rs).                    *)
(*                                                                         *)
(* Title, description, priority, owner and blocked_by are overwritten      *)
(* alike: they are one field here, title.  `done` stands for completed_at. *)
(***************************************************************************)
CONSTANTS
    Titles,     \* what the title field can be
    Stamps      \* the moments an update can happen at

Statuses         == {"pending", "done", "cancelled"}   \* "pending": pending, in_progress
TerminalStatuses == {"done", "cancelled"}
NoStamp          == "no stamp"
ASSUME StampsAssumption == NoStamp \notin Stamps

Row    == [title : Titles, status : Statuses, done : Stamps \cup {NoStamp}]
Change == [field : {"title"}, to : Titles] \cup [field : {"status"}, to : Statuses]

\* A faulty version: completed_at is set anew by every terminal status.
ApplyAlwaysStamps(row, c, now) ==
    IF c.field = "title" THEN [row EXCEPT !.title = c.to]
    ELSE [row EXCEPT !.status = c.to,
                     !.done = IF c.to \in TerminalStatuses THEN now ELSE NoStamp]

\* The fields an update changes: completed_at follows the status.
ApplyChange(row, c, now) ==
    IF c.field = "title" THEN [row EXCEPT !.title = c.to]
    ELSE LET was  == row.status \in TerminalStatuses
             will == c.to \in TerminalStatuses
         IN  [row EXCEPT !.status = c.to,
                         !.done = IF ~was /\ will THEN now
                                  ELSE IF was /\ ~will THEN NoStamp ELSE @]

\* A todo has a completion time exactly while its status is terminal.
StampMatchesStatus(row) == row.done # NoStamp <=> row.status \in TerminalStatuses

=============================================================================
