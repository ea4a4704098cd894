------------------------------- MODULE Services -------------------------------
(***************************************************************************)
(* The services beside the event log of the tasks: accounts, the cached    *)
(* admins, reviews, outlets, forms, the receipts of pushes, and who finds  *)
(* a task where.  They share no state that these models tell apart: a      *)
(* behaviour is one of one component, which `part` names, while the        *)
(* variables of the others keep their initial values.                      *)
(***************************************************************************)
EXTENDS Integers, Sequences, FiniteSets

CONSTANTS
  Parts,          \* the components of interest
  Request,        \* requests in flight, in every component
  Customer,       \* scans and forms in flight
  None,           \* no account, outlet, token or person
  Account, Number, Email,                               \* Accounts
  People, Caller, CacheTicks, SlowTicks,                \* AdminCache
  Outlet, Admin, Manager, Review, PatchLimit,           \* Reviews
  Table, Name,                                          \* Outlets, with Outlet
  Form, Builtin, Asked, Required, WriteLimit, ChangeLimit,  \* Forms
  Token, Junk, Owner, Ticket, Cron, BatchLimit,         \* PushReceipts
  Staff, Site                                           \* TaskLists, with Admin

VARIABLES
  part,
  users, request, respaced,
  admins, cache, query, recent, answer,
  closed, managed, profile, reviews, requests, owed, patches,
  outlets, tables, jobs, scans, cut, crossed,
  questions, writes, forms, work, filling,
  registered, gone, push, expo, record, stored, ripe, cron, everGone, removed,
  handled,
  task, unread, managers, linked, settled

accountVars   == <<users, request, respaced>>
adminVars     == <<admins, cache, query, recent, answer>>
reviewVars    == <<closed, managed, profile, reviews, requests, owed, patches>>
outletVars    == <<outlets, tables, jobs, scans, cut, crossed>>
formVars      == <<questions, writes, forms, work, filling>>
receiptVars   == <<registered, gone, push, expo, record, stored, ripe, cron,
                   everGone, removed, handled>>
listVars      == <<task, unread, managers, linked, settled>>

-------------------------------------------------------------------------------
Accounts == INSTANCE Accounts WITH Nobody <- None
Admins   == INSTANCE AdminCache WITH Person <- People
Feedback == INSTANCE Reviews
Places   == INSTANCE Outlets
Surveys  == INSTANCE Forms
Receipts == INSTANCE PushReceipts WITH NoToken <- None, settled <- handled
Lists    == INSTANCE TaskLists WITH
              Manager <- Staff, Outlet <- Site, NoOutlet <- None, Nobody <- None

ASSUME NoneAssumption == None \notin Accounts!Typed
ASSUME FiniteAssumption == IsFiniteSet(Request) /\ IsFiniteSet(Token)
ASSUME NamesAssumption == Outlet # {} /\ Name # {}
ASSUME RolesAssumption == Admin \cap Staff = {}
ASSUME BuiltinAssumption ==
  /\ Builtin \in Seq(Surveys!Key) \ {<<>>}
  /\ Surveys!IsInjective(Builtin)
  /\ Asked \subseteq Seq(Surveys!Key)
ASSUME BoundsAssumption ==
  {CacheTicks, SlowTicks, PatchLimit, WriteLimit} \subseteq Nat

-------------------------------------------------------------------------------
AllInit ==
  /\ part \in Parts
  /\ Accounts!Init
  /\ Admins!Init
  /\ Feedback!Init
  /\ Places!Init
  /\ Surveys!Init
  /\ Receipts!Init
  /\ Lists!Init

AllVars == <<part, accountVars, adminVars, reviewVars, outletVars, formVars,
             receiptVars, listVars>>

AccountStep ==
  /\ part = "accounts" /\ Accounts!Next
  /\ UNCHANGED <<part, adminVars, reviewVars, outletVars, formVars,
                 receiptVars, listVars>>

AdminStep ==
  /\ part = "admins" /\ Admins!Next
  /\ UNCHANGED <<part, accountVars, reviewVars, outletVars, formVars,
                 receiptVars, listVars>>

ReviewStep ==
  /\ part = "reviews" /\ Feedback!Next
  /\ UNCHANGED <<part, accountVars, adminVars, outletVars, formVars,
                 receiptVars, listVars>>

OutletStep ==
  /\ part = "outlets" /\ Places!Next
  /\ UNCHANGED <<part, accountVars, adminVars, reviewVars, formVars,
                 receiptVars, listVars>>

FormStep ==
  /\ part = "forms" /\ Surveys!Next
  /\ UNCHANGED <<part, accountVars, adminVars, reviewVars, outletVars,
                 receiptVars, listVars>>

ReceiptStep ==
  /\ part = "receipts" /\ Receipts!Next
  /\ UNCHANGED <<part, accountVars, adminVars, reviewVars, outletVars,
                 formVars, listVars>>

ListStep ==
  /\ part = "lists" /\ Lists!Next
  /\ UNCHANGED <<part, accountVars, adminVars, reviewVars, outletVars,
                 formVars, receiptVars>>

AllNext ==
  \/ AccountStep
  \/ AdminStep
  \/ ReviewStep
  \/ OutletStep
  \/ FormStep
  \/ ReceiptStep
  \/ ListStep

AllSpec == AllInit /\ [][AllNext]_AllVars

-------------------------------------------------------------------------------
(* Properties *)

\* Every component keeps its variables within their types.
AllTypeOK ==
  /\ part \in Parts
  /\ part = "accounts" => Accounts!TypeOK
  /\ part = "admins" => Admins!TypeOK
  /\ part = "reviews" => Feedback!TypeOK
  /\ part = "outlets" => Places!TypeOK
  /\ part = "forms" => Surveys!TypeOK
  /\ part = "receipts" => Receipts!TypeOK
  /\ part = "lists" => Lists!TypeOK

\* UsersService: however requests that look for an account and then create or
\* revive one interleave, a number has one account, unless one was revived
\* under a number typed with spaces.
OneAccountPerNumber == part = "accounts" => Accounts!OneAccountPerNumber

\* UsersService.getAdminIds: whatever calls overlap, an answer is the set of
\* admins of some instant of the last minute.
AdminsRecent == part = "admins" => Admins!AdminsRecent

\* ReviewService: a complaint is announced as resolved once each time it is, a
\* user has read it once, and the badge, which two functions compute, counts
\* what its user can find and mark as read.
ComplaintsTracked ==
  part = "reviews" =>
    /\ Feedback!ResolvedOnce /\ Feedback!ReadOnce
    /\ Feedback!BadgesAgree /\ Feedback!BadgeCanBeCleared

\* OutletTableService: an outlet's list and its tables agree except for what is
\* between two writes or died there, live tables of an outlet have different
\* names, and a scanned code opens only an outlet that was open.
TablesAgree ==
  part = "outlets" =>
    Places!ListAgrees /\ Places!NamesDiffer /\ Places!ScanFindsLive

\* FormService: forms keep every built-in question, unchanged and in order,
\* share none, and a customer who answered what was asked is refused only
\* when the form changed meanwhile.
FormsWhole ==
  part = "forms" =>
    Surveys!FormWhole /\ Surveys!BuiltinsStay /\ Surveys!RefusedOnlyIfChanged

\* NotificationsService: a dead device's ticket is kept until its token is gone
\* or a day has passed, only tokens Expo reported are taken from users, and a
\* push reported as submitted was handed over for every token.
ReceiptsSettled ==
  part = "receipts" =>
    /\ Receipts!DeadNotForgotten /\ Receipts!OnlyDeadRemoved
    /\ Receipts!SubmittedToAll

\* The unread badges agree with one another and with the lists they belong to,
\* and what is on a user's screen can be opened.
BadgesMatchLists ==
  part = "lists" => Lists!BadgesMatchLists /\ Lists!ScreenOpens
===============================================================================
