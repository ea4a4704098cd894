------------------------------ MODULE Accounts ------------------------------
(***************************************************************************)
(* How UsersService and its callers find or create the account of a phone  *)
(* number.  A one-time-password request, an OTP sign-in, a review, a       *)
(* custom or uploaded cake and the admin's form all do so, and each looks  *)
(* first and writes later: the look-ups and writes of several requests     *)
(* interleave.  Accounts are never erased, only marked as deleted.         *)
(*                                                                         *)
(* A phone number as typed is the number and whether it has inner spaces;  *)
(* normalizePhoneNumber drops them.                                        *)
(***************************************************************************)
EXTENDS Naturals, FiniteSets

CONSTANTS
  Account,  \* ids of user documents
  Request,  \* requests in progress
  Number,   \* phone numbers
  Email,    \* normalized e-mail addresses
  Nobody    \* "no account", "no e-mail"

VARIABLES
  users,     \* id -> user document
  request,   \* request -> where it is
  respaced   \* history: accounts revived under a number with spaces

avars == <<users, request, respaced>>

Typed == [number : Number, spaced : BOOLEAN]

\* normalizePhoneNumber.
Normalize(phone) == [phone EXCEPT !.spaced = FALSE]

Doc == [state : {"none", "live", "deleted"}, phone : Typed \cup {Nobody},
        email : Email \cup {Nobody}]

Kind == {"otp", "login", "review", "cake", "form"}
Step == {"new", "find", "create", "insert", "revive", "taken?", "profile",
         "save", "list", "done", "failed"}

Fresh == [kind |-> "otp", step |-> "new", phone |-> Nobody, email |-> Nobody,
          user |-> Nobody, skipped |-> FALSE]

Init ==
  /\ users = [u \in Account |->
                [state |-> "none", phone |-> Nobody, email |-> Nobody]]
  /\ request = [q \in Request |-> Fresh]
  /\ respaced = {}

TypeOK ==
  /\ users \in [Account -> Doc]
  /\ request \in [Request ->
       [kind : Kind, step : Step, phone : Typed \cup {Nobody},
        email : Email \cup {Nobody}, user : Account \cup {Nobody},
        skipped : BOOLEAN]]
  /\ respaced \subseteq Account

To(q, step) == request' = [request EXCEPT ![q].step = step]
ToWith(q, step, u) ==
  request' = [request EXCEPT ![q].step = step, ![q].user = u]

------------------------------------------------------------------------------
(* Look-ups and the unique indexes *)

Matches(u, phone, email) ==
  \/ phone # Nobody /\ users[u].phone = phone
  \/ email # Nobody /\ users[u].email = email

\* findUserByIdentifiers: the documents one of which it answers with.
FindBy(phone, email, includeDeleted) ==
  {u \in Account :
     /\ users[u].state \in IF includeDeleted THEN {"live", "deleted"} ELSE {"live"}
     /\ Matches(u, phone, email)}

\* The unique sparse indexes: strings as stored, deleted documents included.
IndexAdmits(u, phone, email) ==
  \A v \in Account \ {u} : users[v].state # "none" => ~Matches(v, phone, email)

------------------------------------------------------------------------------
(* The requests *)

\* A request comes in.  Only the admin's form and a review hand the number on
\* as it was typed; forms and OTP sign-ins may name an e-mail address.
Arrive(q, kind, phone, email) ==
  /\ request[q].step = "new"
  /\ email # Nobody => kind \in {"login", "form"}
  /\ request' = [request EXCEPT ![q] =
       [@ EXCEPT !.kind = kind, !.email = email,
                 !.step = IF kind = "form" THEN "create" ELSE "find",
                 !.phone = IF kind \in {"form", "review"} THEN phone
                           ELSE Normalize(phone)]]
  /\ UNCHANGED <<users, respaced>>

\* What a request does with the account it has found or made.
Continue(kind) ==
  CASE kind = "login" -> "taken?"
    [] kind = "cake" -> "save"
    [] OTHER -> "done"

\* The request looks for a live account, an OTP sign-in by number and then by
\* e-mail address.
Find(q) ==
  LET r       == request[q]
      byPhone == FindBy(Normalize(r.phone), Nobody, FALSE)
      found   == IF byPhone = {} /\ r.kind = "login"
                 THEN FindBy(Nobody, r.email, FALSE) ELSE byPhone
  IN
  /\ r.step = "find"
  /\ \/ found = {} /\ To(q, "create")
     \/ \E u \in found : ToWith(q, Continue(r.kind), u)
  /\ UNCHANGED <<users, respaced>>

\* users.create looks again, deleted accounts included: one of those will be
\* revived, a live one means that the number or address is taken.
CreateLooks(q) ==
  LET r     == request[q]
      found == FindBy(Normalize(r.phone), r.email, TRUE)
  IN
  /\ r.step = "create"
  /\ \/ found = {} /\ To(q, "insert")
     \/ \E u \in found :
          IF users[u].state = "deleted" THEN ToWith(q, "revive", u)
          ELSE To(q, "failed")
  /\ UNCHANGED <<users, respaced>>

\* Mutant: the number is stored as it was typed.
StoredAsTyped(phone) == phone

\* The number of a new document.
StoredPhone(phone) == Normalize(phone)

\* The new document is saved unless an index refuses it.
Insert(q, u) ==
  LET r == request[q] IN
  /\ r.step = "insert"
  /\ users[u].state = "none"
  /\ IF IndexAdmits(u, StoredPhone(r.phone), r.email)
     THEN /\ users' = [users EXCEPT ![u] =
               [state |-> "live", phone |-> StoredPhone(r.phone),
                email |-> r.email]]
          /\ ToWith(q, Continue(r.kind), u)
     ELSE /\ To(q, "failed")
          /\ UNCHANGED users
  /\ UNCHANGED respaced

\* A deleted account is revived with the fields of the request as they came.
Revive(q) ==
  LET r == request[q]
      u == r.user
      email == IF r.email = Nobody THEN users[u].email ELSE r.email
  IN
  /\ r.step = "revive"
  /\ IF IndexAdmits(u, r.phone, email)
     THEN /\ users' = [users EXCEPT ![u] =
               [state |-> "live", phone |-> r.phone, email |-> email]]
          /\ respaced' = IF r.phone.spaced THEN respaced \cup {u} ELSE respaced
          /\ To(q, Continue(r.kind))
     ELSE /\ To(q, "failed")
          /\ UNCHANGED <<users, respaced>>

\* signInWithOtp: is the address another live user's?  Then it is left out.
EmailTaken(q) ==
  LET r == request[q] IN
  /\ r.step = "taken?"
  /\ request' = [request EXCEPT ![q].step = "profile",
       ![q].skipped = \E v \in FindBy(Nobody, r.email, FALSE) : v # r.user]
  /\ UNCHANGED <<users, respaced>>

\* The profile is updated, which an index may refuse: the sign-in fails.
UpdateProfile(q) ==
  LET r == request[q]
      email == IF r.email = Nobody \/ r.skipped THEN users[r.user].email
               ELSE r.email
  IN
  /\ r.step = "profile"
  /\ IF IndexAdmits(r.user, Nobody, email)
     THEN users' = [users EXCEPT ![r.user].email = email] /\ To(q, "done")
     ELSE UNCHANGED users /\ To(q, "failed")
  /\ UNCHANGED respaced

\* The cake of a request is stored, and then added to its user's list.
SaveCake(q) ==
  /\ request[q].step = "save"
  /\ To(q, "list")
  /\ UNCHANGED <<users, respaced>>

ListCake(q) ==
  /\ request[q].step = "list"
  /\ To(q, "done")
  /\ UNCHANGED <<users, respaced>>

\* The request is answered, and another may come in.
Answer(q) ==
  /\ request[q].step \in {"done", "failed"}
  /\ request' = [request EXCEPT ![q] = Fresh]
  /\ UNCHANGED <<users, respaced>>

\* The database or the OTP service fails, or the process dies.
Fail(q) ==
  /\ request[q].step \notin {"new", "done", "failed"}
  /\ To(q, "failed")
  /\ UNCHANGED <<users, respaced>>

------------------------------------------------------------------------------
(* Other calls *)

Remove(u) ==
  /\ users[u].state = "live"
  /\ users' = [users EXCEPT ![u].state = "deleted"]
  /\ UNCHANGED <<request, respaced>>

\* A profile is edited: the number is normalized, deleted accounts can be
\* edited, too.
Update(u, phone) ==
  /\ users[u].state # "none"
  /\ users[u].phone # Normalize(phone)
  /\ IndexAdmits(u, Normalize(phone), Nobody)
  /\ users' = [users EXCEPT ![u].phone = Normalize(phone)]
  /\ UNCHANGED <<request, respaced>>

Next ==
  \/ \E q \in Request :
       \/ \E kind \in Kind, phone \in Typed, email \in Email \cup {Nobody} :
            Arrive(q, kind, phone, email)
       \/ Find(q) \/ CreateLooks(q) \/ Revive(q) \/ EmailTaken(q)
       \/ UpdateProfile(q) \/ SaveCake(q) \/ ListCake(q) \/ Fail(q) \/ Answer(q)
       \/ \E u \in Account : Insert(q, u)
  \/ \E u \in Account : Remove(u) \/ \E phone \in Typed : Update(u, phone)

Spec == Init /\ [][Next]_avars

------------------------------------------------------------------------------
(* Properties *)

SameNumber(u, v) ==
  /\ users[u].phone # Nobody /\ users[v].phone # Nobody
  /\ users[u].phone.number = users[v].phone.number

\* However requests interleave, and whatever is deleted and revived, a phone
\* number has one account, unless an account was revived under a number typed
\* with spaces.
OneAccountPerNumber ==
  \A u, v \in Account :
    u # v /\ SameNumber(u, v) => u \in respaced \/ v \in respaced

\* normalize.util: numbers with and without spaces are treated the same, so that
\* no number has two accounts.
SpacesDoNotMatter ==
  \A u, v \in Account : u # v => ~SameNumber(u, v)
==============================================================================
