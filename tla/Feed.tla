-------------------------------- MODULE Feed --------------------------------
(***************************************************************************)
(* The endless lists of the task screens, read by cursor: a task's         *)
(* timeline (getTimeline, getTaskDetailWithTimeline and getTaskEvents),    *)
(* its attachments (getTaskAttachments) and a user's recently viewed tasks *)
(* (getRecentlyViewedTasks).  A cursor is the key of the last row of a     *)
(* page, and the next page has the rows with smaller keys.  The key of a   *)
(* timeline event is unique; createdAt and lastViewedAt are not, and the   *)
(* latter moves.  A page of the timeline is read in three statements: the  *)
(* events, the users they name and the attachments they show.              *)
(***************************************************************************)
EXTENDS Integers, Sequences, FiniteSets, SequencesExt, FiniteSetsExt

CONSTANTS
  RowLimit,      \* bound: rows of the list
  KeyLimit,      \* bound: keys
  ChangeLimit,   \* bound: removals and repeated views
  Shape,         \* what the rows say, by their order of insertion: an event's
                 \* type, the persons it names and whether it has a file
  PageCap        \* the largest limit of the code (20, 50 or 100)

VARIABLES
  list,      \* which of the lists
  rows,      \* its rows
  counted,   \* the events the task's read model has counted
  edits,     \* removals and repeated views so far
  walk       \* the client that scrolls

vars == <<list, rows, counted, edits, walk>>

Lists == {"timeline", "attachments", "recent"}

RowId == 1..RowLimit

NoKey == 0

\* live: the attachment is not deleted, a row's own in the attachments, the one
\* an event is about in the timeline.
Row == [key : 1..KeyLimit, live : BOOLEAN]

Away == [step |-> "away"]

Scroll ==
  [step : {"header", "read", "hydrate", "done"}, cursor : 0..KeyLimit, limit : 1..PageCap,
   page : Seq(RowId),       \* the rows read, to be served
   seen : Seq(RowId),       \* the rows served
   shown : SUBSET RowId,    \* the rows served with a preview of their file
   unnamed : SUBSET RowId,  \* the rows served with a person not looked up
   ties : SUBSET (1..KeyLimit),   \* the keys at which a page ended
   steady : SUBSET RowId,   \* the rows that were there from the start, unmoved
   header : 0..RowLimit]    \* the eventCount of the header

WalkState == {Away} \cup Scroll

TypeOK ==
  /\ list \in Lists \cup {"none"}
  /\ rows \in Seq(Row) /\ Len(rows) <= RowLimit
  /\ counted \in 0..RowLimit
  /\ edits \in 0..ChangeLimit
  /\ walk \in WalkState

Init ==
  /\ list = "none" /\ rows = <<>> /\ counted = 0 /\ edits = 0
  /\ walk = Away

Choose(l) ==
  /\ list = "none" /\ list' = l
  /\ UNCHANGED <<rows, counted, edits, walk>>

Newest == Max({0} \cup {rows[n].key : n \in DOMAIN rows})

----------------------------------------------------------------------------
(* The writers.                                                            *)

\* appendEvent: the key is made of the clock and a random part before the
\* insert, so that events may arrive out of the order of their keys; the read
\* model counts the event in a second write.
InsertEvent(key) ==
  /\ list = "timeline" /\ counted = Len(rows)
  /\ Len(rows) < RowLimit
  /\ key \notin {rows[n].key : n \in DOMAIN rows}
  /\ rows' = Append(rows, [key |-> key, live |-> TRUE])
  /\ UNCHANGED <<list, counted, edits, walk>>

CountEvent ==
  /\ list = "timeline" /\ counted < Len(rows)
  /\ counted' = counted + 1
  /\ UNCHANGED <<list, rows, edits, walk>>

\* insertMany of attachments, or the first view of tasks: each at the moment
\* it is stored, several of them in the same millisecond.
InsertRow(key) ==
  /\ list \in {"attachments", "recent"}
  /\ Len(rows) < RowLimit
  /\ key \in {Newest, Newest + 1} \cap 1..KeyLimit
  /\ rows' = Append(rows, [key |-> key, live |-> TRUE])
  /\ UNCHANGED <<list, counted, edits, walk>>

Unsteady(n) == IF walk = Away THEN walk ELSE [walk EXCEPT !.steady = @ \ {n}]

\* removeAttachment.
RemoveFile(n) ==
  /\ list \in {"timeline", "attachments"} /\ edits < ChangeLimit
  /\ n \in DOMAIN rows /\ rows[n].live
  /\ list = "timeline" => Shape[n].file
  /\ rows' = [rows EXCEPT ![n].live = FALSE]
  /\ edits' = edits + 1
  /\ walk' = IF list = "attachments" THEN Unsteady(n) ELSE walk
  /\ UNCHANGED <<list, counted>>

\* markTaskViewed and markMultipleTasksViewed of tasks viewed before.
ViewAgain(set, key) ==
  /\ list = "recent" /\ edits < ChangeLimit
  /\ set # {} /\ set \subseteq DOMAIN rows
  /\ key \in {Newest, Newest + 1} \cap 1..KeyLimit
  /\ rows' = [n \in DOMAIN rows |-> IF n \in set THEN [rows[n] EXCEPT !.key = key] ELSE rows[n]]
  /\ edits' = edits + 1
  /\ walk' = IF walk = Away THEN walk ELSE [walk EXCEPT !.steady = @ \ set]
  /\ UNCHANGED <<list, counted>>

----------------------------------------------------------------------------
(* The reader.                                                             *)

Listed == {n \in DOMAIN rows : list = "attachments" => rows[n].live}

Below(n, cursor) == cursor = NoKey \/ rows[n].key < cursor

\* The rows of a page and one more; rows of one key in any order.
Fetched(cursor, limit) ==
  LET all == {n \in Listed : Below(n, cursor)} IN
  {SubSeq(s, 1, Min({limit + 1, Len(s)})) :
     s \in {t \in SetToSeqs(all) : \A i, j \in DOMAIN t : i < j => rows[t[i]].key >= rows[t[j]].key}}

\* buildPaginatedResponse.
HasMore(items, limit) == Len(items) > limit

PageOf(items, limit) == SubSeq(items, 1, Min({limit, Len(items)}))

\* The cursor from the extra row, which the page does not have.
FromExtra(items, limit) == rows[items[Len(items)]].key

FromLast(items, limit) == rows[items[limit]].key

NextCursor(items, limit) == IF HasMore(items, limit) THEN FromLast(items, limit) ELSE NoKey

\* The client opens the list; the task's detail has a header, read first.
Open(limit, header) ==
  /\ walk = Away /\ list # "none"
  /\ header => list = "timeline"
  /\ walk' = [step |-> IF header THEN "header" ELSE "read", cursor |-> NoKey,
              limit |-> limit, page |-> <<>>, seen |-> <<>>, shown |-> {}, unnamed |-> {}, ties |-> {},
              steady |-> Listed, header |-> 0]
  /\ UNCHANGED <<list, rows, counted, edits>>

ReadHeader ==
  /\ walk # Away /\ walk.step = "header"
  /\ walk' = [walk EXCEPT !.header = counted, !.step = "read"]
  /\ UNCHANGED <<list, rows, counted, edits>>

\* A page is taken from the rows found, with the cursor of the next one.
TakePage ==
  /\ walk # Away /\ walk.step = "read"
  /\ \E items \in Fetched(walk.cursor, walk.limit) :
       LET next == NextCursor(items, walk.limit) IN
       walk' = [walk EXCEPT !.page = PageOf(items, walk.limit), !.cursor = next,
                            !.ties = IF next = NoKey THEN @ ELSE @ \cup {next},
                            !.step = "hydrate"]
  /\ UNCHANGED <<list, rows, counted, edits>>

\* getTimeline, getTaskAttachments and getRecentlyViewedTasks.
ReadTimeline == list = "timeline" /\ TakePage

ReadAttachments == list = "attachments" /\ TakePage

ReadRecent == list = "recent" /\ TakePage

\* timeline-mapper.util.ts.  extractUserIdsFromEvents: whoever an event's data names, of any type.
Extracted(event) == {event.by} \cup ({event.to, event.from, event.delegatedTo, event.delegatedBy} \ {""})

\* The persons serializeTimelineEvent and buildDelegationSummary resolve.
Resolved(event) ==
  {event.by} \cup
  (IF event.type # "REASSIGNED" THEN {}
   ELSE IF event.delegatedTo # "" /\ event.delegatedBy # ""
     THEN {event.delegatedTo, event.delegatedBy}
   ELSE IF event.to # "" THEN {event.to, event.from} \ {""}
   ELSE {})

LookedUp(page) == UNION {Extracted(Shape[n]) : n \in Range(page)}

\* extractAttachmentIdsFromEvents, and the find of those not deleted.
Previews(page) == {n \in Range(page) : Shape[n].file /\ rows[n].live}

\* The page is served, and the client asks for the next one.
Serve ==
  /\ walk # Away /\ walk.step = "hydrate"
  /\ walk' = [walk EXCEPT !.seen = @ \o walk.page, !.page = <<>>,
                          !.shown = @ \cup Previews(walk.page),
                          !.unnamed = @ \cup {n \in Range(walk.page) :
                                               ~(Resolved(Shape[n]) \subseteq LookedUp(walk.page))},
                          !.step = IF walk.cursor = NoKey THEN "done" ELSE "read"]
  /\ UNCHANGED <<list, rows, counted, edits>>

Next ==
  \/ \E l \in Lists : Choose(l)
  \/ \E key \in 1..KeyLimit : InsertEvent(key) \/ InsertRow(key)
  \/ CountEvent
  \/ \E n \in RowId : RemoveFile(n)
  \/ \E set \in SUBSET RowId, key \in 1..KeyLimit : ViewAgain(set, key)
  \/ \E limit \in 1..PageCap, header \in BOOLEAN : Open(limit, header)
  \/ ReadHeader
  \/ ReadTimeline \/ ReadAttachments \/ ReadRecent
  \/ Serve

Spec == Init /\ [][Next]_vars

----------------------------------------------------------------------------
(* Properties.                                                             *)

\* Scrolling shows no row twice, though rows are inserted, removed and moved
\* to the top meanwhile.
ScrollShowsOnce == walk # Away => IsInjective(walk.seen)

\* A client that scrolled to the end has seen every row that was there from
\* the start and did not move.  In the lists whose keys may tie, a row with
\* the key of a page's last row may be missing: the next page starts below it.
ScrollComplete ==
  (walk # Away /\ walk.step = "done") =>
    \A n \in walk.steady :
      \/ n \in Range(walk.seen)
      \/ list # "timeline" /\ rows[n].key \in walk.ties

\* The detail's header never counts an event the first page would not have:
\* the header is read first, and an event is inserted before it is counted.
HeaderNotAhead ==
  (walk # Away /\ walk.step \in {"hydrate", "done"} /\ walk.ties = {})
    => walk.header <= Len(walk.seen \o walk.page)

\* Nobody who exists is shown as 'User': whoever the mapper names in a page was
\* looked up with it.  And an event is shown without its file only if the file
\* has been deleted.
PagesAreWhole ==
  walk # Away =>
    /\ walk.unnamed = {}
    /\ list = "timeline" =>
         \A n \in Range(walk.seen) : Shape[n].file /\ rows[n].live => n \in walk.shown

============================================================================
