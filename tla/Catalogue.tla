----------------------------- MODULE Catalogue -----------------------------
(***************************************************************************)
(* The back office's collections, and a client that reads one of them page *)
(* by page until the answer says there is no next page, while documents    *)
(* are added, changed and deleted.  The services are written alike; each   *)
(* definition ...Service says what one of them does, and the actions read  *)
(* it.  A behaviour follows one collection, since none looks at another.   *)
(*                                                                         *)
(* A document has a tag: the field its collection is sorted or filtered    *)
(* by, where there is one.  The database lists an unsorted collection in   *)
(* the order of insertion.                                                 *)
(***************************************************************************)
EXTENDS Integers, Sequences, FiniteSets, SequencesExt

CONSTANTS
  DocLimit,      \* bound: documents stored
  ChangeLimit,   \* bound: updates and removals
  Tag,           \* positive numbers: values of the field a collection is sorted or filtered by
  PageCap        \* the 100 documents cake-customization answers at most

----------------------------------------------------------------------------
(* The services.                                                           *)
(*   order   "oldest" first, "newest" first, or by "tag"                   *)
(*   atOnce  one statement reads the page and the total                    *)
(*   filter  the query may ask for one tag                                 *)
(*   capped  a page has PageCap documents at most                          *)
(*   paged   findAll takes a page and a limit                              *)
(*   update, remove  the service has the operation                         *)

Plain == [order |-> "oldest", atOnce |-> TRUE, filter |-> FALSE, capped |-> FALSE,
          paged |-> TRUE, update |-> TRUE, remove |-> TRUE]

CategoryService == Plain

OutletTypeService == Plain

ProductService == [Plain EXCEPT !.filter = TRUE]

TaskCategoryService == [Plain EXCEPT !.order = "tag"]

CakeCustomizationService == [Plain EXCEPT !.filter = TRUE, !.capped = TRUE]

AddressService == [Plain EXCEPT !.paged = FALSE]

CustomCakeService ==
  [Plain EXCEPT !.order = "newest", !.atOnce = FALSE, !.filter = TRUE,
                !.update = FALSE, !.remove = FALSE]

UploadedCakesService ==
  [Plain EXCEPT !.order = "newest", !.atOnce = FALSE, !.filter = TRUE,
                !.update = FALSE, !.remove = FALSE]

UsersService == [Plain EXCEPT !.filter = TRUE]

OutletService == [Plain EXCEPT !.filter = TRUE]

OutletTableService == [Plain EXCEPT !.order = "newest", !.filter = TRUE]

FormService == [Plain EXCEPT !.order = "newest"]

ReviewService == [Plain EXCEPT !.filter = TRUE]

Services ==
  {CategoryService, OutletTypeService, ProductService, TaskCategoryService,
   CakeCustomizationService, AddressService, CustomCakeService, UploadedCakesService,
   UsersService, OutletService, OutletTableService, FormService, ReviewService}

----------------------------------------------------------------------------
NoService == [order |-> "none"]

NoTag == 0

Away == [step |-> "away"]

VARIABLES
  service,   \* the collection of this behaviour, once chosen
  docs,      \* its documents in the order of insertion: live and tag
  changes,   \* updates and removals so far
  reader     \* the client that walks the pages

vars == <<service, docs, changes, reader>>

DocId == 1..DocLimit

Reading ==
  [step : {"count", "find", "done"}, page : 1..(DocLimit + 1), limit : 0..(DocLimit + PageCap),
   tag : Tag \cup {NoTag}, total : 0..DocLimit,
   seen : Seq(DocId),        \* the documents shown so far, in order
   steady : SUBSET DocId,    \* matching from the first page until now
   left : BOOLEAN, moved : BOOLEAN, added : BOOLEAN,   \* a document left or moved within the listing,
                                   \* or joined it, since the first page
   split : BOOLEAN]          \* one joined it between a count and its find

ReaderState == {Away} \cup Reading

TypeOK ==
  /\ service \in Services \cup {NoService}
  /\ docs \in Seq([live : BOOLEAN, tag : Tag]) /\ Len(docs) <= DocLimit
  /\ changes \in 0..ChangeLimit
  /\ reader \in ReaderState

Init ==
  /\ service = NoService
  /\ docs = <<>>
  /\ changes = 0
  /\ reader = Away

Walking == reader.step \in {"count", "find"}

Matches(doc, tag) == doc.live /\ tag \in {NoTag, doc.tag}

\* What a change of the documents means for the walk under way.
Told(new) ==
  IF ~Walking THEN reader
  ELSE LET before == {n \in DOMAIN docs : Matches(docs[n], reader.tag)}
           after  == {n \in DOMAIN new : Matches(new[n], reader.tag)} IN
       [reader EXCEPT
          !.steady = @ \cap after,
          !.left   = @ \/ ~(before \subseteq after),
          !.added  = @ \/ ~(after \subseteq before),
          !.split  = @ \/ (reader.step = "find" /\ ~(after \subseteq before)),
          !.moved  = @ \/ \E n \in before \cap after : docs[n].tag # new[n].tag]

----------------------------------------------------------------------------
(* The operations.                                                         *)

Choose(s) ==
  /\ service = NoService
  /\ service' = s
  /\ UNCHANGED <<docs, changes, reader>>

\* create: one insert.
Create(tag) ==
  /\ service # NoService
  /\ Len(docs) < DocLimit
  /\ docs' = Append(docs, [live |-> TRUE, tag |-> tag])
  /\ reader' = Told(docs')
  /\ UNCHANGED <<service, changes>>

\* update: findOneAndUpdate of a live document.
Update(n, tag) ==
  /\ service # NoService /\ service.update
  /\ n \in DOMAIN docs /\ docs[n].live /\ docs[n].tag # tag
  /\ changes < ChangeLimit /\ changes' = changes + 1
  /\ docs' = [docs EXCEPT ![n].tag = tag]
  /\ reader' = Told(docs')
  /\ UNCHANGED service

\* remove: findOneAndUpdate of a live document to isDeleted.
SoftDelete(n) ==
  /\ service # NoService /\ service.remove
  /\ n \in DOMAIN docs /\ docs[n].live
  /\ changes < ChangeLimit /\ changes' = changes + 1
  /\ docs' = [docs EXCEPT ![n].live = FALSE]
  /\ reader' = Told(docs')
  /\ UNCHANGED service

\* The documents findAll matches, in its order; of equal tags the newest first.
Before(m, n) ==
  CASE service.order = "oldest" -> m < n
    [] service.order = "newest" -> m > n
    [] service.order = "tag" -> docs[m].tag < docs[n].tag \/ (docs[m].tag = docs[n].tag /\ m > n)

Listed(tag) == {n \in DOMAIN docs : Matches(docs[n], tag)}

Place(tag, n) == Cardinality({m \in Listed(tag) : Before(m, n)}) + 1

Sorted(tag) ==
  [i \in 1..Cardinality(Listed(tag)) |-> CHOOSE n \in Listed(tag) : Place(tag, n) = i]

\* limit 0: none was asked for.
PerPage(limit) ==
  CASE ~service.paged -> 0
    [] service.capped -> IF limit \in 1..PageCap THEN limit ELSE PageCap
    [] OTHER -> limit

Skip(page, limit) == (page - 1) * limit

LastOnPage(page, limit) == Skip(page, limit) + limit

Page(tag, page, limit) ==
  LET all == Sorted(tag) IN
  IF limit = 0 THEN all
  ELSE SubSeq(all, Skip(page, limit) + 1, Min({LastOnPage(page, limit), Len(all)}))

OneShort(page, limit, total) == limit # 0 /\ (page + 1) * limit <= total

HasNextPage(page, limit, total) == limit # 0 /\ page * limit < total

\* The client begins with page 1; without a limit a page is everything.
Begin(limit, tag) ==
  /\ service # NoService
  /\ reader = Away
  /\ tag # NoTag => service.filter
  /\ reader' = [step |-> "count", page |-> 1, limit |-> PerPage(limit), tag |-> tag,
                total |-> 0, seen |-> <<>>,
                steady |-> Listed(tag),
                left |-> FALSE, moved |-> FALSE, added |-> FALSE, split |-> FALSE]
  /\ UNCHANGED <<service, docs, changes>>

\* The answer to one page, and the client's next request.
Shown(total) ==
  LET r == reader IN
  [r EXCEPT !.total = total,
            !.seen = @ \o Page(r.tag, r.page, r.limit),
            !.step = IF HasNextPage(r.page, r.limit, total) THEN "count" ELSE "done",
            !.page = IF HasNextPage(r.page, r.limit, total) THEN @ + 1 ELSE @]

\* $facet, or find: the page and its total in one statement.
ReadAtOnce ==
  /\ reader.step = "count" /\ service.atOnce
  /\ reader' = Shown(Len(Sorted(reader.tag)))
  /\ UNCHANGED <<service, docs, changes>>

\* countDocuments, and then find.
Count ==
  /\ reader.step = "count" /\ ~service.atOnce
  /\ reader' = [reader EXCEPT !.total = Len(Sorted(reader.tag)), !.step = "find"]
  /\ UNCHANGED <<service, docs, changes>>

Find ==
  /\ reader.step = "find"
  /\ reader' = Shown(reader.total)
  /\ UNCHANGED <<service, docs, changes>>

Next ==
  \/ \E s \in Services : Choose(s)
  \/ \E tag \in Tag : Create(tag) \/ \E n \in DocId : Update(n, tag)
  \/ \E n \in DocId : SoftDelete(n)
  \/ \E limit \in 0..DocLimit, tag \in Tag \cup {NoTag} : Begin(limit, tag)
  \/ ReadAtOnce
  \/ Count
  \/ Find

Spec == Init /\ [][Next]_vars

----------------------------------------------------------------------------
(* Properties.                                                             *)

\* A client that walked all pages saw every document that matched from the
\* first page to the last, unless one was deleted or moved within the listing
\* meanwhile, or, where the count and the page are two statements, one was
\* added between them (then a client may be told there is no next page while
\* one is left).
WalkComplete ==
  (reader.step = "done" /\ ~reader.left /\ ~reader.moved /\ ~reader.split)
    => reader.steady \subseteq Range(reader.seen)

\* No document is shown twice, unless one moved within the listing meanwhile
\* or, in a listing that is not oldest first, one was added.
WalkShowsOnce ==
  (Walking \/ reader.step = "done") =>
    (reader.moved \/ (reader.added /\ (service.order # "oldest" \/ reader.tag # NoTag))
      \/ IsInjective(reader.seen))

============================================================================
