---------------------------- MODULE ServicesProofs ----------------------------
(***************************************************************************)
(* For any accounts, people, outlets, reviews, tables, forms, tokens and   *)
(* tickets: an account per number, recent admins, tracked complaints,      *)
(* tables that agree with their outlets, whole forms, receipts that are    *)
(* not forgotten, badges that match the lists, and types throughout.       *)
(*                                                                         *)
(* Each component has an inductive invariant and a lemma that its steps    *)
(* keep it; the theorems at the end lift these to the composition.         *)
(***************************************************************************)
EXTENDS Services, FiniteSetTheorems, NaturalsInduction, WellFoundedInduction, TLAPS

-------------------------------------------------------------------------------
(* Functions defined from one number to the next                           *)

\* Induction over the naturals, for a set of them: a set that has 0 and with
\* each number its successor has them all.
LEMMA NatSetInduction ==
  ASSUME NEW S, 0 \in S, \A n \in Nat : n \in S => n + 1 \in S
  PROVE  Nat \subseteq S
<1>. SUFFICES ASSUME NEW m \in Nat, m \notin S PROVE FALSE
  OBVIOUS
<1>. DEFINE T == Nat \ S
<1>1. T \subseteq Nat /\ T # {}
  OBVIOUS
<1>2. IsWellFoundedOn(OpToRel(<, Nat), Nat)
  BY NatLessThanWellFounded
<1>. HIDE DEF T
<1>3. PICK x \in T : \A y \in T : <<y, x>> \notin OpToRel(<, Nat)
  BY <1>1, <1>2, WFMin
<1>. USE DEF T
<1>4. x \in Nat /\ x # 0 /\ x - 1 \in Nat
  OBVIOUS
<1>5. <<x - 1, x>> \in OpToRel(<, Nat)
  BY <1>4 DEF OpToRel
<1>6. x - 1 \in S
  BY <1>3, <1>4, <1>5
<1>7. (x - 1) + 1 \in S /\ (x - 1) + 1 = x
  BY <1>4, <1>6
<1>. QED
  BY <1>7

\* What holds at first and from each number to the next holds up to any number.
LEMMA StaysWithin ==
  ASSUME NEW S, NEW f, NEW n \in Nat, f[0] \in S,
         \A i \in 1..n : f[i - 1] \in S => f[i] \in S
  PROVE  f[n] \in S
<1>. DEFINE T == {m \in Nat : m <= n => f[m] \in S}
<1>1. 0 \in T
  OBVIOUS
<1>2. ASSUME NEW m \in Nat, m \in T PROVE m + 1 \in T
  <2>. SUFFICES ASSUME m + 1 <= n PROVE f[m + 1] \in S
    OBVIOUS
  <2>1. f[m] \in S /\ m + 1 \in 1..n /\ (m + 1) - 1 = m
    BY <1>2
  <2>. QED
    BY <2>1
<1>. HIDE DEF T
<1>3. Nat \subseteq T
  BY <1>1, <1>2, NatSetInduction
<1>. QED
  BY <1>3 DEF T

\* The steps from a number and the value before it to its value, and the values
\* they lead to up to a number.
Steps(S) == [Nat \X S -> S]

Iterates(f, S, z, step, n) ==
  /\ f \in [0..n -> S]
  /\ f[0] = z
  /\ \A i \in 1..n : f[i] = step[<<i, f[i - 1]>>]

\* However far one goes, there is a function whose first value and whose step
\* from one number to the next are the given ones.
LEMMA IterationExists ==
  ASSUME NEW S, NEW z \in S, NEW step \in Steps(S), NEW n \in Nat
  PROVE  \E f : Iterates(f, S, z, step, n)
<1>. DEFINE T == {m \in Nat : \E f : Iterates(f, S, z, step, m)}
<1>1. 0 \in T
  <2>. DEFINE f == [i \in 0..0 |-> z]
  <2>1. Iterates(f, S, z, step, 0)
    BY DEF Iterates
  <2>. QED
    BY <2>1
<1>2. ASSUME NEW m \in Nat, m \in T PROVE m + 1 \in T
  <2>1. PICK f : Iterates(f, S, z, step, m)
    BY <1>2
  <2>. DEFINE g == [i \in 0..(m + 1) |-> IF i = m + 1 THEN step[<<i, f[m]>>] ELSE f[i]]
  <2>2. f[m] \in S /\ step[<<m + 1, f[m]>>] \in S
    BY <2>1 DEF Iterates, Steps
  <2>3. g \in [0..(m + 1) -> S]
    BY <2>1, <2>2 DEF Iterates
  <2>4. \A i \in 0..m : g[i] = f[i]
    OBVIOUS
  <2>5. g[m + 1] = step[<<m + 1, f[m]>>]
    OBVIOUS
  <2>. HIDE DEF g
  <2>6. g[0] = z
    BY <2>1, <2>4 DEF Iterates
  <2>7. ASSUME NEW i \in 1..(m + 1) PROVE g[i] = step[<<i, g[i - 1]>>]
    <3>1. CASE i = m + 1
      BY <2>4, <2>5, <3>1
    <3>2. CASE i # m + 1
      BY <2>1, <2>4, <3>2 DEF Iterates
    <3>. QED
      BY <3>1, <3>2
  <2>. QED
    BY <2>3, <2>6, <2>7 DEF Iterates
<1>. HIDE DEF T
<1>3. Nat \subseteq T
  BY <1>1, <1>2, NatSetInduction
<1>. QED
  BY <1>3 DEF T

-------------------------------------------------------------------------------
(* Accounts                                                                *)

\* A request in progress knows its number, and from the steps that write to an
\* account on, which account.
RequestsKnown ==
  \A q \in Request :
    /\ request[q].step # "new" => request[q].phone \in Accounts!Typed
    /\ request[q].step \in {"revive", "taken?", "profile"}
         => request[q].user \in Account

\* Only a stored account has a number, and only a number that was revived as
\* typed has spaces.
NumbersKept ==
  \A u \in Account :
    /\ users[u].state = "none" => users[u].phone = None
    /\ u \notin respaced /\ users[u].phone # None => ~users[u].phone.spaced

\* The index: no two accounts hold the same string.
PhonesDiffer ==
  \A u, v \in Account :
    u # v /\ users[u].phone # None => users[u].phone # users[v].phone

AccountInv ==
  /\ Accounts!TypeOK
  /\ RequestsKnown
  /\ NumbersKept
  /\ PhonesDiffer

\* A request of this component.
AccountRequest ==
  [kind : Accounts!Kind, step : Accounts!Step,
   phone : Accounts!Typed \cup {None}, email : Email \cup {None},
   user : Account \cup {None}, skipped : BOOLEAN]

LEMMA NormalizedTyped ==
  ASSUME NEW phone \in Accounts!Typed
  PROVE  /\ Accounts!Normalize(phone) \in Accounts!Typed
         /\ ~Accounts!Normalize(phone).spaced
BY DEF Accounts!Typed, Accounts!Normalize

LEMMA InitAccountInv ==
  ASSUME Accounts!Init
  PROVE  AccountInv
<1>1. /\ users = [u \in Account |->
                    [state |-> "none", phone |-> None, email |-> None]]
      /\ request = [q \in Request |-> Accounts!Fresh]
      /\ respaced = {}
  BY DEF Accounts!Init
<1>2. Accounts!TypeOK
  BY <1>1 DEF Accounts!TypeOK, Accounts!Doc, Accounts!Fresh, Accounts!Step,
              Accounts!Kind
<1>3. RequestsKnown
  BY <1>1 DEF RequestsKnown, Accounts!Fresh
<1>4. NumbersKept /\ PhonesDiffer
  BY <1>1 DEF NumbersKept, PhonesDiffer
<1>. QED
  BY <1>2, <1>3, <1>4 DEF AccountInv

\* Two accounts with the same number, neither revived as typed, would hold the
\* same string.
LEMMA AccountInvImplies ==
  ASSUME AccountInv
  PROVE  Accounts!OneAccountPerNumber
<1>. SUFFICES ASSUME NEW u \in Account, NEW v \in Account,
                     u # v, Accounts!SameNumber(u, v),
                     u \notin respaced, v \notin respaced
     PROVE  FALSE
  BY DEF Accounts!OneAccountPerNumber
<1>1. users[u].phone \in Accounts!Typed /\ users[v].phone \in Accounts!Typed
  BY DEF AccountInv, Accounts!TypeOK, Accounts!Doc, Accounts!SameNumber
<1>2. ~users[u].phone.spaced /\ ~users[v].phone.spaced
  BY DEF AccountInv, NumbersKept, Accounts!SameNumber
<1>3. users[u].phone = users[v].phone
  BY <1>1, <1>2 DEF Accounts!Typed, Accounts!SameNumber
<1>. QED
  BY <1>3 DEF AccountInv, PhonesDiffer, Accounts!SameNumber

\* A number that the index admits is written to an account: it is another
\* account's neither as a stored string nor as the missing one.
LEMMA PhoneWritten ==
  ASSUME NEW u \in Account, NEW doc \in Accounts!Doc, NEW email,
         AccountInv, doc.state # "none", doc.phone \in Accounts!Typed,
         Accounts!IndexAdmits(u, doc.phone, email),
         users' = [users EXCEPT ![u] = doc],
         respaced \subseteq respaced',
         ~doc.phone.spaced \/ u \in respaced'
  PROVE  users' \in [Account -> Accounts!Doc] /\ NumbersKept' /\ PhonesDiffer'
<1>1. users \in [Account -> Accounts!Doc]
  BY DEF AccountInv, Accounts!TypeOK
<1>2. /\ users' \in [Account -> Accounts!Doc]
      /\ users'[u] = doc
      /\ \A v \in Account : v # u => users'[v] = users[v]
  BY <1>1
<1>3. doc.phone # None
  BY NoneAssumption
<1>4. ASSUME NEW v \in Account, v # u
      PROVE  users[v].phone # doc.phone
  <2>1. CASE users[v].state = "none"
    BY <1>3, <2>1 DEF AccountInv, NumbersKept
  <2>2. CASE users[v].state # "none"
    BY <1>3, <1>4, <2>2 DEF Accounts!IndexAdmits, Accounts!Matches
  <2>. QED
    BY <2>1, <2>2
<1>5. NumbersKept'
  BY <1>2 DEF AccountInv, NumbersKept
<1>6. PhonesDiffer'
  <2>. SUFFICES ASSUME NEW v \in Account, NEW w \in Account,
                       v # w, users'[v].phone # None
       PROVE  users'[v].phone # users'[w].phone
    BY DEF PhonesDiffer
  <2>1. CASE v = u
    BY <1>2, <1>4, <2>1
  <2>2. CASE w = u
    BY <1>2, <1>4, <2>2
  <2>3. CASE v # u /\ w # u
    BY <1>2, <2>3 DEF AccountInv, PhonesDiffer
  <2>. QED
    BY <2>1, <2>2, <2>3
<1>. QED
  BY <1>2, <1>5, <1>6

\* A write that leaves every number alone.
LEMMA PhonesStay ==
  ASSUME AccountInv, respaced' = respaced,
         \A v \in Account : /\ users'[v].phone = users[v].phone
                            /\ users'[v].state = "none" => users[v].state = "none"
  PROVE  NumbersKept' /\ PhonesDiffer'
BY DEF AccountInv, NumbersKept, PhonesDiffer

\* A request moves on, with its fields.
LEMMA Moved ==
  ASSUME NEW q \in Request, NEW step \in Accounts!Step, AccountInv,
         request[q].step # "new" \/ step = "new",
         step \in {"revive", "taken?", "profile"} => request[q].user \in Account,
         Accounts!To(q, step)
  PROVE  /\ RequestsKnown'
         /\ request' \in [Request -> AccountRequest]
<1>1. request \in [Request -> AccountRequest]
  BY DEF AccountInv, Accounts!TypeOK, AccountRequest
<1>2. request' = [request EXCEPT ![q].step = step]
  BY DEF Accounts!To
<1>3. /\ \A p \in Request : p # q => request'[p] = request[p]
      /\ request'[q].phone = request[q].phone
      /\ request'[q].user = request[q].user
      /\ request'[q].step = step
  BY <1>1, <1>2 DEF AccountRequest
<1>4. RequestsKnown'
  BY <1>3 DEF AccountInv, RequestsKnown
<1>5. request' \in [Request -> AccountRequest]
  BY <1>1, <1>2 DEF AccountRequest
<1>. QED
  BY <1>4, <1>5

\* A request moves on with the account it has found.
LEMMA MovedWith ==
  ASSUME NEW q \in Request, NEW step \in Accounts!Step, NEW u \in Account,
         AccountInv, request[q].step # "new",
         Accounts!ToWith(q, step, u)
  PROVE  /\ RequestsKnown'
         /\ request' \in [Request -> AccountRequest]
<1>1. request \in [Request -> AccountRequest]
  BY DEF AccountInv, Accounts!TypeOK, AccountRequest
<1>2. request' = [request EXCEPT ![q].step = step, ![q].user = u]
  BY DEF Accounts!ToWith
<1>3. /\ \A p \in Request : p # q => request'[p] = request[p]
      /\ request'[q].phone = request[q].phone
      /\ request'[q].user = u
      /\ request'[q].step = step
  BY <1>1, <1>2 DEF AccountRequest
<1>4. RequestsKnown'
  BY <1>3 DEF AccountInv, RequestsKnown
<1>5. request' \in [Request -> AccountRequest]
  BY <1>1, <1>2 DEF AccountRequest
<1>. QED
  BY <1>4, <1>5

LEMMA ContinueStep ==
  ASSUME NEW kind
  PROVE  Accounts!Continue(kind) \in {"taken?", "save", "done"}
         /\ Accounts!Continue(kind) \in Accounts!Step
BY DEF Accounts!Continue, Accounts!Step

\* The four parts after a step.
LEMMA AccountInvNext ==
  ASSUME users' \in [Account -> Accounts!Doc], NumbersKept', PhonesDiffer',
         request' \in [Request -> AccountRequest], RequestsKnown',
         respaced' \subseteq Account
  PROVE  AccountInv'
BY DEF AccountInv, Accounts!TypeOK, AccountRequest

\* A step that writes to no account.
LEMMA NoAccountWritten ==
  ASSUME AccountInv, UNCHANGED <<users, respaced>>,
         request' \in [Request -> AccountRequest], RequestsKnown'
  PROVE  AccountInv'
<1>1. users' \in [Account -> Accounts!Doc] /\ respaced' \subseteq Account
  BY DEF AccountInv, Accounts!TypeOK
<1>2. NumbersKept' /\ PhonesDiffer'
  BY PhonesStay
<1>. QED
  BY <1>1, <1>2, AccountInvNext

\* A request arrives, or is answered.
LEMMA ArriveKeeps ==
  ASSUME NEW q \in Request, NEW kind \in Accounts!Kind,
         NEW phone \in Accounts!Typed, NEW email \in Email \cup {None},
         AccountInv, Accounts!Arrive(q, kind, phone, email)
  PROVE  AccountInv'
<1>. DEFINE typed == IF kind \in {"form", "review"} THEN phone
                     ELSE Accounts!Normalize(phone)
            first == IF kind = "form" THEN "create" ELSE "find"
<1>1. typed \in Accounts!Typed
  BY NormalizedTyped
<1>2. first \in Accounts!Step /\ first \in {"create", "find"}
  BY DEF Accounts!Step
<1>3. request \in [Request -> AccountRequest]
  BY DEF AccountInv, Accounts!TypeOK, AccountRequest
<1>4. /\ request' = [request EXCEPT ![q] =
           [request[q] EXCEPT !.kind = kind, !.email = email, !.step = first,
                              !.phone = typed]]
      /\ UNCHANGED <<users, respaced>>
  BY DEF Accounts!Arrive
<1>. HIDE DEF typed, first
<1>5. /\ request' \in [Request -> AccountRequest]
      /\ request'[q].phone = typed /\ request'[q].step = first
      /\ \A p \in Request : p # q => request'[p] = request[p]
  BY <1>1, <1>2, <1>3, <1>4 DEF AccountRequest
<1>6. RequestsKnown'
  BY <1>1, <1>2, <1>5 DEF AccountInv, RequestsKnown
<1>. QED
  BY <1>4, <1>5, <1>6, NoAccountWritten

LEMMA AnswerKeeps ==
  ASSUME NEW q \in Request, AccountInv, Accounts!Answer(q)
  PROVE  AccountInv'
<1>1. request \in [Request -> AccountRequest]
  BY DEF AccountInv, Accounts!TypeOK, AccountRequest
<1>2. /\ request' = [request EXCEPT ![q] = Accounts!Fresh]
      /\ UNCHANGED <<users, respaced>>
  BY DEF Accounts!Answer
<1>3. Accounts!Fresh \in AccountRequest /\ Accounts!Fresh.step = "new"
  BY DEF Accounts!Fresh, AccountRequest, Accounts!Kind, Accounts!Step
<1>4. /\ request' \in [Request -> AccountRequest]
      /\ request'[q] = Accounts!Fresh
      /\ \A p \in Request : p # q => request'[p] = request[p]
  BY <1>1, <1>2, <1>3
<1>5. RequestsKnown'
  BY <1>3, <1>4 DEF AccountInv, RequestsKnown
<1>. QED
  BY <1>2, <1>4, <1>5, NoAccountWritten

\* The look-ups, the steps with the cake, and failures.
LEMMA LookKeeps ==
  ASSUME NEW q \in Request, AccountInv,
         \/ Accounts!Find(q) \/ Accounts!CreateLooks(q)
         \/ Accounts!SaveCake(q) \/ Accounts!ListCake(q) \/ Accounts!Fail(q)
  PROVE  AccountInv'
<1>. DEFINE To(step) == Accounts!To(q, step)
            With(step) == \E u \in Account : Accounts!ToWith(q, step, u)
<1>1. UNCHANGED <<users, respaced>> /\ request[q].step # "new"
  BY DEF Accounts!Find, Accounts!CreateLooks, Accounts!SaveCake,
         Accounts!ListCake, Accounts!Fail
<1>2. \/ \E step \in {"create", "insert", "list", "done", "failed"} : To(step)
      \/ With(Accounts!Continue(request[q].kind))
      \/ With("revive")
  <2>1. CASE Accounts!Find(q)
    BY <2>1 DEF Accounts!Find, Accounts!FindBy
  <2>2. CASE Accounts!CreateLooks(q)
    BY <2>2 DEF Accounts!CreateLooks, Accounts!FindBy
  <2>3. CASE Accounts!SaveCake(q) \/ Accounts!ListCake(q) \/ Accounts!Fail(q)
    BY <2>3 DEF Accounts!SaveCake, Accounts!ListCake, Accounts!Fail
  <2>. QED
    BY <2>1, <2>2, <2>3
<1>3. CASE \E step \in {"create", "insert", "list", "done", "failed"} : To(step)
  <2>1. PICK step \in {"create", "insert", "list", "done", "failed"} : To(step)
    BY <1>3
  <2>2. step \in Accounts!Step /\ step \notin {"revive", "taken?", "profile"}
    BY DEF Accounts!Step
  <2>. QED
    BY <1>1, <2>1, <2>2, Moved, NoAccountWritten
<1>4. CASE With(Accounts!Continue(request[q].kind)) \/ With("revive")
  <2>1. Accounts!Continue(request[q].kind) \in Accounts!Step
        /\ "revive" \in Accounts!Step
    BY ContinueStep DEF Accounts!Step
  <2>. QED
    BY <1>1, <1>4, <2>1, MovedWith, NoAccountWritten
<1>. QED
  BY <1>2, <1>3, <1>4

\* The new document has an unused id, and a normalized number that the index
\* admits.
LEMMA InsertKeeps ==
  ASSUME NEW q \in Request, NEW u \in Account, AccountInv,
         Accounts!Insert(q, u)
  PROVE  AccountInv'
<1>. DEFINE r == request[q]
            phone == Accounts!Normalize(r.phone)
            doc == [state |-> "live", phone |-> phone, email |-> r.email]
<1>1. r.step = "insert" /\ respaced' = respaced
      /\ Accounts!StoredPhone(r.phone) = phone
  BY DEF Accounts!Insert, Accounts!StoredPhone
<1>2. r \in AccountRequest /\ r.phone \in Accounts!Typed
  BY <1>1 DEF AccountInv, Accounts!TypeOK, AccountRequest, RequestsKnown
<1>3. phone \in Accounts!Typed /\ ~phone.spaced
  BY <1>2, NormalizedTyped
<1>4. doc \in Accounts!Doc
  BY <1>2, <1>3 DEF Accounts!Doc, AccountRequest
<1>5. respaced \subseteq Account /\ users \in [Account -> Accounts!Doc]
  BY DEF AccountInv, Accounts!TypeOK
<1>6. CASE Accounts!IndexAdmits(u, phone, r.email)
  <2>1. users' = [users EXCEPT ![u] = doc]
        /\ Accounts!ToWith(q, Accounts!Continue(r.kind), u)
    BY <1>1, <1>6 DEF Accounts!Insert
  <2>. HIDE DEF phone
  <2>2. doc.phone = phone /\ doc.state = "live"
    OBVIOUS
  <2>. HIDE DEF doc
  <2>3. users' \in [Account -> Accounts!Doc] /\ NumbersKept' /\ PhonesDiffer'
    BY <1>1, <1>3, <1>4, <1>6, <2>1, <2>2, PhoneWritten
  <2>4. RequestsKnown' /\ request' \in [Request -> AccountRequest]
    BY <1>1, <2>1, ContinueStep, MovedWith
  <2>. QED
    BY <1>1, <1>5, <2>3, <2>4, AccountInvNext
<1>7. CASE ~Accounts!IndexAdmits(u, phone, r.email)
  <2>1. users' = users /\ Accounts!To(q, "failed")
    BY <1>1, <1>7 DEF Accounts!Insert
  <2>2. "failed" \in Accounts!Step
    BY DEF Accounts!Step
  <2>3. RequestsKnown' /\ request' \in [Request -> AccountRequest]
    BY <1>1, <2>1, <2>2, Moved
  <2>. QED
    BY <1>1, <2>1, <2>3, NoAccountWritten
<1>. QED
  BY <1>6, <1>7

\* A deleted account comes back under the number as it was typed.
LEMMA ReviveKeeps ==
  ASSUME NEW q \in Request, AccountInv, Accounts!Revive(q)
  PROVE  AccountInv'
<1>. DEFINE r == request[q]
            u == r.user
            email == IF r.email = None THEN users[u].email ELSE r.email
            doc == [state |-> "live", phone |-> r.phone, email |-> email]
<1>1. r.step = "revive"
  BY DEF Accounts!Revive
<1>2. r \in AccountRequest /\ r.phone \in Accounts!Typed /\ u \in Account
  BY <1>1 DEF AccountInv, Accounts!TypeOK, AccountRequest, RequestsKnown
<1>3. respaced \subseteq Account /\ users \in [Account -> Accounts!Doc]
  BY DEF AccountInv, Accounts!TypeOK
<1>4. doc \in Accounts!Doc
  BY <1>2, <1>3 DEF Accounts!Doc, AccountRequest
<1>5. CASE Accounts!IndexAdmits(u, r.phone, email)
  <2>1. /\ users' = [users EXCEPT ![u] = doc]
        /\ respaced' = IF r.phone.spaced THEN respaced \cup {u} ELSE respaced
        /\ Accounts!To(q, Accounts!Continue(r.kind))
    BY <1>5 DEF Accounts!Revive
  <2>2. /\ respaced \subseteq respaced' /\ respaced' \subseteq Account
        /\ ~r.phone.spaced \/ u \in respaced'
    BY <1>2, <1>3, <2>1
  <2>3. doc.phone = r.phone /\ doc.state = "live"
    OBVIOUS
  <2>4. Accounts!Continue(r.kind) \in {"taken?", "save", "done"}
        /\ Accounts!Continue(r.kind) \in Accounts!Step
    BY ContinueStep
  <2>. HIDE DEF doc, email
  <2>5. users' \in [Account -> Accounts!Doc] /\ NumbersKept' /\ PhonesDiffer'
    BY <1>2, <1>4, <1>5, <2>1, <2>2, <2>3, PhoneWritten
  <2>6. RequestsKnown' /\ request' \in [Request -> AccountRequest]
    BY <1>1, <1>2, <2>1, <2>4, Moved
  <2>. QED
    BY <2>2, <2>5, <2>6, AccountInvNext
<1>6. CASE ~Accounts!IndexAdmits(u, r.phone, email)
  <2>1. UNCHANGED <<users, respaced>> /\ Accounts!To(q, "failed")
    BY <1>6 DEF Accounts!Revive
  <2>2. "failed" \in Accounts!Step
    BY DEF Accounts!Step
  <2>3. RequestsKnown' /\ request' \in [Request -> AccountRequest]
    BY <1>1, <2>1, <2>2, Moved
  <2>. QED
    BY <2>1, <2>3, NoAccountWritten
<1>. QED
  BY <1>5, <1>6

\* A sign-in looks whether the address is taken, and writes it or not: the
\* numbers stay.
LEMMA ProfileKeeps ==
  ASSUME NEW q \in Request, AccountInv,
         Accounts!EmailTaken(q) \/ Accounts!UpdateProfile(q)
  PROVE  AccountInv'
<1>. DEFINE r == request[q]
<1>1. request \in [Request -> AccountRequest]
      /\ users \in [Account -> Accounts!Doc] /\ respaced \subseteq Account
  BY DEF AccountInv, Accounts!TypeOK, AccountRequest
<1>2. r.step \in {"taken?", "profile"} /\ respaced' = respaced
  BY DEF Accounts!EmailTaken, Accounts!UpdateProfile
<1>3. r.user \in Account /\ r.phone \in Accounts!Typed /\ r \in AccountRequest
  BY <1>1, <1>2 DEF AccountInv, RequestsKnown
<1>4. CASE Accounts!EmailTaken(q)
  <2>. DEFINE taken == \E v \in Accounts!FindBy(None, r.email, FALSE) :
                         v # r.user
  <2>1. /\ request' = [request EXCEPT ![q].step = "profile",
                                      ![q].skipped = taken]
        /\ users' = users
    BY <1>4 DEF Accounts!EmailTaken
  <2>2. taken \in BOOLEAN
    OBVIOUS
  <2>. HIDE DEF taken
  <2>3. /\ \A p \in Request : p # q => request'[p] = request[p]
        /\ request'[q] = [r EXCEPT !.step = "profile", !.skipped = taken]
        /\ DOMAIN request' = Request /\ request' = [p \in Request |-> request'[p]]
    BY <1>1, <2>1
  <2>4. request'[q] \in AccountRequest /\ request'[q].phone = r.phone
        /\ request'[q].user = r.user
    BY <1>3, <2>2, <2>3 DEF AccountRequest, Accounts!Step
  <2>5. request' \in [Request -> AccountRequest]
    BY <1>1, <2>3, <2>4
  <2>6. RequestsKnown'
    BY <1>3, <2>3, <2>4 DEF AccountInv, RequestsKnown
  <2>. QED
    BY <1>2, <2>1, <2>5, <2>6, NoAccountWritten
<1>5. CASE Accounts!UpdateProfile(q)
  <2>. DEFINE email == IF r.email = None \/ r.skipped
                       THEN users[r.user].email ELSE r.email
  <2>1. \/ users' = users /\ Accounts!To(q, "failed")
        \/ users' = [users EXCEPT ![r.user].email = email]
           /\ Accounts!To(q, "done")
    BY <1>5 DEF Accounts!UpdateProfile
  <2>2. email \in Email \cup {None}
    BY <1>1, <1>3 DEF AccountRequest, Accounts!Doc
  <2>. HIDE DEF email
  <2>3. /\ users' \in [Account -> Accounts!Doc]
        /\ \A v \in Account : /\ users'[v].phone = users[v].phone
                              /\ users'[v].state = users[v].state
    BY <1>1, <1>3, <2>1, <2>2 DEF Accounts!Doc
  <2>4. NumbersKept' /\ PhonesDiffer'
    BY <1>2, <2>3, PhonesStay
  <2>5. "failed" \in Accounts!Step /\ "done" \in Accounts!Step
    BY DEF Accounts!Step
  <2>6. RequestsKnown' /\ request' \in [Request -> AccountRequest]
    BY <1>2, <2>1, <2>5, Moved
  <2>. QED
    BY <1>1, <1>2, <2>3, <2>4, <2>6, AccountInvNext
<1>. QED
  BY <1>4, <1>5

\* Removing an account keeps its number, and a profile gets a normalized one.
LEMMA AdminKeeps ==
  ASSUME NEW u \in Account, AccountInv,
         \/ Accounts!Remove(u)
         \/ \E phone \in Accounts!Typed : Accounts!Update(u, phone)
  PROVE  AccountInv'
<1>1. request \in [Request -> AccountRequest]
      /\ users \in [Account -> Accounts!Doc] /\ respaced \subseteq Account
  BY DEF AccountInv, Accounts!TypeOK, AccountRequest
<1>2. request' = request /\ respaced' = respaced
  BY DEF Accounts!Remove, Accounts!Update
<1>3. RequestsKnown' /\ request' \in [Request -> AccountRequest]
  BY <1>1, <1>2 DEF AccountInv, RequestsKnown
<1>4. CASE Accounts!Remove(u)
  <2>1. /\ users' \in [Account -> Accounts!Doc]
        /\ \A v \in Account : /\ users'[v].phone = users[v].phone
                              /\ users'[v].state = "none"
                                   => users[v].state = "none"
    BY <1>1, <1>4 DEF Accounts!Remove, Accounts!Doc
  <2>2. NumbersKept' /\ PhonesDiffer'
    BY <1>2, <2>1, PhonesStay
  <2>. QED
    BY <1>1, <1>2, <1>3, <2>1, <2>2, AccountInvNext
<1>5. ASSUME NEW phone \in Accounts!Typed, Accounts!Update(u, phone)
      PROVE  AccountInv'
  <2>. DEFINE new == Accounts!Normalize(phone)
              doc == [users[u] EXCEPT !.phone = new]
  <2>1. /\ users[u].state # "none"
        /\ Accounts!IndexAdmits(u, new, None)
        /\ users' = [users EXCEPT ![u].phone = new]
    BY <1>5 DEF Accounts!Update
  <2>2. new \in Accounts!Typed /\ ~new.spaced
    BY NormalizedTyped
  <2>. HIDE DEF new
  <2>3. /\ doc \in Accounts!Doc
        /\ doc.phone = new /\ doc.state = users[u].state
        /\ users' = [users EXCEPT ![u] = doc]
    BY <1>1, <2>1, <2>2 DEF Accounts!Doc
  <2>. HIDE DEF doc
  <2>4. users' \in [Account -> Accounts!Doc] /\ NumbersKept' /\ PhonesDiffer'
    BY <1>2, <2>1, <2>2, <2>3, PhoneWritten
  <2>. QED
    BY <1>1, <1>2, <1>3, <2>4, AccountInvNext
<1>. QED
  BY <1>4, <1>5

LEMMA AccountInvStep ==
  ASSUME AccountInv, [Accounts!Next]_accountVars
  PROVE  AccountInv'
<1>1. CASE UNCHANGED accountVars
  <2>1. request' \in [Request -> AccountRequest] /\ RequestsKnown'
    BY <1>1 DEF accountVars, AccountInv, Accounts!TypeOK, AccountRequest,
                RequestsKnown
  <2>. QED
    BY <1>1, <2>1, NoAccountWritten DEF accountVars
<1>2. CASE Accounts!Next
  BY <1>2, ArriveKeeps, AnswerKeeps, LookKeeps, InsertKeeps, ReviveKeeps,
     ProfileKeeps, AdminKeeps DEF Accounts!Next
<1>. QED
  BY <1>1, <1>2


-------------------------------------------------------------------------------
(* The cached admins                                                       *)

\* Valid entries are young enough: what is in the cache was true at one of the
\* instants that are already as far back as the entry has been counting down.
CacheRecent ==
  cache.left > 0 =>
    \E i \in 0..(CacheTicks - cache.left) : cache.ids \in recent[i]

\* The present set of admins is one of this tick.
PresentRecorded == admins \in recent[0]

AdminInv == Admins!TypeOK /\ CacheRecent /\ PresentRecorded /\ Admins!AdminsRecent

\* At the start everything is the present.
LEMMA InitAdminInv ==
  ASSUME CacheTicks \in Nat, SlowTicks \in Nat, Admins!Init
  PROVE  AdminInv
<1>1. Admins!TypeOK
  BY DEF Admins!Init, Admins!TypeOK, Admins!NotAsking
<1>2. CacheRecent
  BY DEF Admins!Init, CacheRecent
<1>3. 0 \in 0..CacheTicks
  OBVIOUS
<1>4. recent[0] = {People}
  BY <1>3 DEF Admins!Init
<1>5. answer \in recent[0] /\ admins \in recent[0]
  BY <1>4 DEF Admins!Init
<1>6. PresentRecorded /\ Admins!AdminsRecent
  BY <1>3, <1>5 DEF PresentRecorded, Admins!AdminsRecent
<1>. QED
  BY <1>1, <1>2, <1>6 DEF AdminInv

\* A change of the admins adds to this tick, and takes nothing away.
LEMMA SetKeeps ==
  ASSUME CacheTicks \in Nat, SlowTicks \in Nat, AdminInv,
         NEW new \in SUBSET People, Admins!SetAdmins(new)
  PROVE  AdminInv'
<1>1. recent' = [recent EXCEPT ![0] = recent[0] \cup {new}]
      /\ admins' = new /\ UNCHANGED <<cache, query, answer>>
  BY DEF Admins!SetAdmins
<1>2. recent \in [0..CacheTicks -> SUBSET SUBSET People] /\ 0 \in 0..CacheTicks
  BY DEF AdminInv, Admins!TypeOK
<1>3. recent'[0] = recent[0] \cup {new}
      /\ \A i \in 0..CacheTicks : recent[i] \subseteq recent'[i]
  BY <1>1, <1>2
<1>4. Admins!TypeOK'
  <2>1. recent' \in [0..CacheTicks -> SUBSET SUBSET People]
    BY <1>1, <1>2
  <2>. QED
    BY <1>1, <2>1 DEF AdminInv, Admins!TypeOK
<1>5. CacheRecent'
  <2>. SUFFICES ASSUME cache'.left > 0
       PROVE  \E i \in 0..(CacheTicks - cache'.left) : cache'.ids \in recent'[i]
    BY DEF CacheRecent
  <2>1. cache'.left \in 0..CacheTicks /\ cache.left > 0
    BY <1>1 DEF AdminInv, Admins!TypeOK
  <2>2. PICK i \in 0..(CacheTicks - cache.left) : cache.ids \in recent[i]
    BY <2>1 DEF AdminInv, CacheRecent
  <2>3. i \in 0..CacheTicks
    BY <1>1, <2>1
  <2>. QED
    BY <1>1, <1>3, <2>2, <2>3
<1>6. PresentRecorded'
  BY <1>1, <1>3 DEF PresentRecorded
<1>7. Admins!AdminsRecent'
  BY <1>1, <1>3 DEF AdminInv, Admins!AdminsRecent
<1>. QED
  BY <1>4, <1>5, <1>6, <1>7 DEF AdminInv

\* A call answers from the cache, starts a query, gets its answer, or fails.
LEMMA CallKeeps ==
  ASSUME CacheTicks \in Nat, SlowTicks \in Nat, AdminInv,
         NEW c \in Caller,
         Admins!Hit(c) \/ Admins!Miss(c) \/ Admins!Answered(c) \/ Admins!QueryFails(c)
  PROVE  AdminInv'
<1>1. admins' = admins /\ recent' = recent
  BY DEF Admins!Hit, Admins!Miss, Admins!Answered, Admins!QueryFails
<1>2. PresentRecorded'
  BY <1>1 DEF AdminInv, PresentRecorded
<1>3. CASE Admins!Hit(c)
  <2>1. cache' = cache /\ query' = query /\ answer' = cache.ids /\ cache.left > 0
    BY <1>3 DEF Admins!Hit, Admins!AfterHit
  <2>2. Admins!TypeOK'
    BY <1>1, <2>1 DEF AdminInv, Admins!TypeOK
  <2>3. CacheRecent'
    BY <1>1, <2>1 DEF AdminInv, CacheRecent
  <2>4. PICK i \in 0..(CacheTicks - cache.left) : cache.ids \in recent[i]
    BY <2>1 DEF AdminInv, CacheRecent
  <2>5. i \in 0..CacheTicks
    BY <2>1 DEF AdminInv, Admins!TypeOK
  <2>6. Admins!AdminsRecent'
    BY <1>1, <2>1, <2>4, <2>5 DEF Admins!AdminsRecent
  <2>. QED
    BY <1>2, <2>2, <2>3, <2>6 DEF AdminInv
<1>4. CASE Admins!Miss(c) \/ Admins!QueryFails(c)
  <2>1. UNCHANGED <<admins, recent, cache, answer>>
    BY <1>4 DEF Admins!Miss, Admins!QueryFails
  <2>2. query' \in [Caller -> Admins!NotAsking..SlowTicks]
    BY <1>4 DEF Admins!Miss, Admins!QueryFails, AdminInv, Admins!TypeOK, Admins!NotAsking
  <2>. QED
    BY <1>2, <2>1, <2>2 DEF AdminInv, Admins!TypeOK, CacheRecent, Admins!AdminsRecent
<1>5. CASE Admins!Answered(c)
  <2>1. query[c] \in 0..SlowTicks
    BY <1>5 DEF Admins!Answered, AdminInv, Admins!TypeOK, Admins!NotAsking
  <2>2. cache' = [ids |-> admins,
                  left |-> IF query[c] < CacheTicks THEN CacheTicks - query[c] ELSE 0]
        /\ answer' = admins
    BY <1>5 DEF Admins!Answered
  <2>3. cache'.left \in 0..CacheTicks
    BY <2>1, <2>2
  <2>4. query' \in [Caller -> Admins!NotAsking..SlowTicks]
    BY <1>5 DEF Admins!Answered, AdminInv, Admins!TypeOK, Admins!NotAsking
  <2>5. Admins!TypeOK'
    BY <1>1, <2>2, <2>3, <2>4 DEF AdminInv, Admins!TypeOK
  <2>6. CacheRecent'
    <3>1. 0 \in 0..(CacheTicks - cache'.left) /\ cache'.ids \in recent'[0]
      BY <1>1, <2>2, <2>3 DEF AdminInv, PresentRecorded
    <3>. QED
      BY <3>1 DEF CacheRecent
  <2>7. Admins!AdminsRecent'
    BY <1>1, <2>2 DEF AdminInv, PresentRecorded, Admins!AdminsRecent
  <2>. QED
    BY <1>2, <2>5, <2>6, <2>7 DEF AdminInv
<1>. QED
  BY <1>3, <1>4, <1>5

\* When a tick passes, every instant moves one back, and so does the entry.
LEMMA TickKeeps ==
  ASSUME CacheTicks \in Nat, SlowTicks \in Nat, AdminInv,
         Admins!Tick
  PROVE  AdminInv'
<1>1. admins' = admins /\ answer' = admins
      /\ recent' = [i \in 0..CacheTicks |-> IF i = 0 THEN {admins} ELSE recent[i - 1]]
  BY DEF Admins!Tick
<1>2. cache' = [cache EXCEPT !.left = IF cache.left = 0 THEN 0 ELSE cache.left - 1]
  BY DEF Admins!Tick
<1>3. cache \in [ids : SUBSET People, left : 0..CacheTicks]
  BY DEF AdminInv, Admins!TypeOK
<1>4. cache'.ids = cache.ids
      /\ cache'.left = (IF cache.left = 0 THEN 0 ELSE cache.left - 1)
  BY <1>2, <1>3
<1>5. Admins!TypeOK'
  <2>1. query' \in [Caller -> Admins!NotAsking..SlowTicks]
    BY DEF Admins!Tick, AdminInv, Admins!TypeOK, Admins!NotAsking
  <2>2. cache' \in [ids : SUBSET People, left : 0..CacheTicks]
    BY <1>2, <1>3
  <2>3. recent' \in [0..CacheTicks -> SUBSET SUBSET People]
    BY <1>1 DEF AdminInv, Admins!TypeOK
  <2>. QED
    BY <1>1, <2>1, <2>2, <2>3 DEF AdminInv, Admins!TypeOK
<1>6. CacheRecent'
  <2>. SUFFICES ASSUME cache'.left > 0
       PROVE  \E i \in 0..(CacheTicks - cache'.left) : cache'.ids \in recent'[i]
    BY DEF CacheRecent
  <2>1. cache.left \in 1..CacheTicks /\ cache'.left = cache.left - 1
    BY <1>3, <1>4
  <2>2. PICK i \in 0..(CacheTicks - cache.left) : cache.ids \in recent[i]
    BY <2>1 DEF AdminInv, CacheRecent
  <2>3. i + 1 \in 0..(CacheTicks - cache'.left) /\ i + 1 \in 0..CacheTicks
    BY <2>1
  <2>4. recent'[i + 1] = recent[i]
    BY <1>1, <2>3
  <2>. QED
    BY <1>4, <2>2, <2>3, <2>4
<1>7. 0 \in 0..CacheTicks /\ recent'[0] = {admins}
  BY <1>1
<1>8. PresentRecorded' /\ Admins!AdminsRecent'
  BY <1>1, <1>7 DEF PresentRecorded, Admins!AdminsRecent
<1>. QED
  BY <1>5, <1>6, <1>8 DEF AdminInv

LEMMA AdminInvStep ==
  ASSUME AdminInv, [Admins!Next]_adminVars
  PROVE  AdminInv'
<1>1. CacheTicks \in Nat /\ SlowTicks \in Nat
  BY BoundsAssumption
<1>2. CASE UNCHANGED adminVars
  BY <1>2 DEF adminVars, AdminInv, Admins!TypeOK, CacheRecent, PresentRecorded,
              Admins!AdminsRecent
<1>3. CASE Admins!Next
  BY <1>1, <1>3, SetKeeps, CallKeeps, TickKeeps DEF Admins!Next
<1>. QED
  BY <1>2, <1>3


-------------------------------------------------------------------------------
(* Reviews                                                                 *)

\* The requests that have resolved a review and not yet told of it.
Tellers(r) ==
  {q \in Request : requests[q].step = "tell" /\ requests[q].review = r}

PushesOwed == \A r \in Review : owed[r] = Cardinality(Tellers(r))

ReviewInv == Feedback!TypeOK /\ PushesOwed /\ Feedback!ReadOnce

\* The Cardinality of the component's module is the one of the facts below.
LEMMA SameCardinality == \A S : Feedback!Cardinality(S) = Cardinality(S)
BY DEF Cardinality, Feedback!Cardinality

LEMMA SubsetCounts ==
  ASSUME NEW S, S \subseteq Request
  PROVE  IsFiniteSet(S) /\ Cardinality(S) \in 0..Cardinality(Request)
<1>1. IsFiniteSet(Request)
  BY FiniteAssumption
<1>2. IsFiniteSet(S) /\ Cardinality(S) <= Cardinality(Request)
  BY <1>1, FS_Subset
<1>3. Cardinality(S) \in Nat /\ Cardinality(Request) \in Nat
  BY <1>1, <1>2, FS_CardinalityType
<1>. QED
  BY <1>2, <1>3

LEMMA TellersFinite ==
  ASSUME NEW r
  PROVE  /\ IsFiniteSet(Tellers(r))
         /\ Cardinality(Tellers(r)) \in 0..Cardinality(Request)
<1>1. Tellers(r) \subseteq Request
  BY DEF Tellers
<1>. QED
  BY <1>1, SubsetCounts

LEMMA InitReviewInv ==
  ASSUME Feedback!Init
  PROVE  ReviewInv
<1>1. (CHOOSE o \in Outlet : TRUE) \in Outlet
  BY NamesAssumption
<1>2. /\ owed = [r \in Review |-> 0]
      /\ \A q \in Request : requests[q].step = "idle"
  BY DEF Feedback!Init, Feedback!Idle
<1>3. 0 \in 0..Feedback!Cardinality(Request)
  BY FiniteAssumption, FS_CardinalityType, SameCardinality
<1>4. /\ closed \subseteq Outlet
      /\ managed \in [Outlet -> SUBSET Manager]
      /\ profile \in [Manager -> SUBSET Outlet]
      /\ requests \in [Request -> Feedback!RequestState]
      /\ patches \in 0..PatchLimit
  BY BoundsAssumption DEF Feedback!Init, Feedback!RequestState
<1>5. reviews \in [Review -> Feedback!ReviewDoc]
  BY <1>1 DEF Feedback!Init, Feedback!ReviewDoc, Feedback!Status
<1>6. Feedback!TypeOK
  BY <1>2, <1>3, <1>4, <1>5 DEF Feedback!TypeOK
<1>7. Feedback!ReadOnce
  BY DEF Feedback!Init, Feedback!ReadOnce
<1>8. \A r \in Review : Tellers(r) = {}
  BY <1>2 DEF Tellers
<1>9. PushesOwed
  BY <1>2, <1>8, FS_EmptySet DEF PushesOwed
<1>. QED
  BY <1>6, <1>7, <1>9 DEF ReviewInv

\* The two badges are one, and what they count can be found and marked.
LEMMA ReviewInvImplies ==
  ASSUME ReviewInv
  PROVE  /\ Feedback!ResolvedOnce /\ Feedback!ReadOnce
         /\ Feedback!BadgesAgree /\ Feedback!BadgeCanBeCleared
<1>1. Feedback!ResolvedOnce /\ Feedback!ReadOnce
  BY SameCardinality DEF ReviewInv, PushesOwed, Tellers, Feedback!ResolvedOnce
<1>2. \A p : Feedback!BatchScope(p) = Feedback!BadgeScope(p)
  BY DEF Feedback!BatchScope, Feedback!BadgeScope, Feedback!ManagerOutlets
<1>3. Feedback!BadgesAgree
  BY <1>2 DEF Feedback!BadgesAgree, Feedback!UnreadCount, Feedback!BadgeStatus
<1>4. Feedback!BadgeCanBeCleared
  <2>. SUFFICES ASSUME NEW p \in Feedback!Person,
                       NEW r \in Feedback!BadgeStatus(p)
       PROVE  /\ Feedback!Accessible(r, Feedback!BadgeScope(p))
              /\ \/ r \in Feedback!Listed
                 \/ p \in Manager /\ reviews[r].outlet \in profile[p] \cap closed
    BY DEF Feedback!BadgeCanBeCleared
  <2>. DEFINE scope == Feedback!BadgeScope(p)
  <2>1. scope # {} /\ r \in Feedback!PendingIn(scope)
    BY DEF Feedback!BadgeStatus, Feedback!UnreadOf
  <2>2. /\ r \in Review /\ Feedback!Live(r) /\ reviews[r].complaint
        /\ reviews[r].status = "pending" /\ reviews[r].outlet \in scope
    BY <2>1 DEF Feedback!PendingIn
  <2>3. Feedback!Accessible(r, scope)
    BY <2>2 DEF Feedback!Accessible
  <2>4. CASE reviews[r].outlet \notin closed
    BY <2>2, <2>3, <2>4 DEF Feedback!Listed
  <2>5. CASE reviews[r].outlet \in closed
    <3>1. p \notin Admin /\ reviews[r].outlet \in profile[p]
      BY <2>2, <2>5 DEF Feedback!BadgeScope, Feedback!Open
    <3>2. p \in Manager
      BY <3>1 DEF Feedback!Person
    <3>. QED
      BY <2>3, <2>5, <3>1, <3>2
  <2>. QED
    BY <2>4, <2>5
<1>. QED
  BY <1>1, <1>3, <1>4

\* A step that leaves the pushes alone: the bound on them follows from their
\* count.
LEMMA SamePushes ==
  ASSUME ReviewInv, owed' = owed,
         \A q \in Request :
           \/ requests'[q] = requests[q]
           \/ requests'[q].step # "tell" /\ requests[q].step # "tell"
  PROVE  /\ PushesOwed'
         /\ owed' \in [Review -> 0..Feedback!Cardinality(Request)]
<1>1. \A r \in Review : Tellers(r)' = Tellers(r)
  BY DEF Tellers
<1>. QED
  BY <1>1 DEF ReviewInv, PushesOwed, Feedback!TypeOK

\* A step that writes to no review and announces nothing.
LEMMA NoReviewWritten ==
  ASSUME ReviewInv, UNCHANGED <<reviews, owed>>,
         requests' \in [Request -> Feedback!RequestState],
         closed' \subseteq Outlet,
         managed' \in [Outlet -> SUBSET Manager],
         profile' \in [Manager -> SUBSET Outlet],
         patches' \in 0..PatchLimit,
         \A q \in Request :
           \/ requests'[q] = requests[q]
           \/ requests'[q].step # "tell" /\ requests[q].step # "tell"
  PROVE  ReviewInv'
<1>1. PushesOwed' /\ owed' \in [Review -> 0..Feedback!Cardinality(Request)]
  BY SamePushes
<1>2. Feedback!ReadOnce' /\ reviews' \in [Review -> Feedback!ReviewDoc]
  BY DEF ReviewInv, Feedback!TypeOK, Feedback!ReadOnce
<1>. QED
  BY <1>1, <1>2 DEF ReviewInv, Feedback!TypeOK

\* Outlets are closed, managers are moved.
LEMMA OutletsChange ==
  ASSUME ReviewInv,
         \/ \E o \in Outlet : \/ Feedback!CloseOutlet(o)
                              \/ \E m \in SUBSET Manager :
                                   Feedback!SetManagers(o, m)
         \/ \E p \in Manager, os \in SUBSET Outlet : Feedback!SetProfile(p, os)
  PROVE  ReviewInv'
<1>1. /\ closed \subseteq Outlet
      /\ managed \in [Outlet -> SUBSET Manager]
      /\ profile \in [Manager -> SUBSET Outlet]
      /\ requests \in [Request -> Feedback!RequestState]
      /\ patches \in 0..PatchLimit
  BY DEF ReviewInv, Feedback!TypeOK
<1>2. UNCHANGED <<reviews, requests, owed>>
      /\ patches < PatchLimit /\ patches' = patches + 1
  BY DEF Feedback!CloseOutlet, Feedback!SetManagers, Feedback!SetProfile
<1>3. patches' \in 0..PatchLimit
  BY <1>1, <1>2, BoundsAssumption
<1>4. /\ closed' \subseteq Outlet
      /\ managed' \in [Outlet -> SUBSET Manager]
      /\ profile' \in [Manager -> SUBSET Outlet]
  BY <1>1 DEF Feedback!CloseOutlet, Feedback!SetManagers, Feedback!SetProfile
<1>. QED
  BY <1>1, <1>2, <1>3, <1>4, NoReviewWritten

\* The first reads of a request.
LEMMA RequestBegins ==
  ASSUME NEW q \in Request, ReviewInv,
         \/ \E r \in Review, p \in Feedback!Person :
              Feedback!BeginMarkRead(q, r, p)
         \/ Feedback!FindToMark(q)
         \/ \E r \in Review, o \in Outlet, c \in BOOLEAN, s \in Feedback!Status :
              Feedback!BeginUpdate(q, r, o, c, s)
         \/ \E r \in Review : Feedback!BeginRemove(q, r)
  PROVE  ReviewInv'
<1>1. /\ closed \subseteq Outlet
      /\ managed \in [Outlet -> SUBSET Manager]
      /\ profile \in [Manager -> SUBSET Outlet]
      /\ requests \in [Request -> Feedback!RequestState]
      /\ patches \in 0..PatchLimit
  BY DEF ReviewInv, Feedback!TypeOK
<1>2. UNCHANGED <<closed, managed, profile, reviews, owed>>
  BY DEF Feedback!BeginMarkRead, Feedback!FindToMark, Feedback!BeginUpdate,
         Feedback!BeginRemove
<1>3. patches' \in 0..PatchLimit
  BY <1>1, BoundsAssumption
  DEF Feedback!BeginMarkRead, Feedback!FindToMark, Feedback!BeginUpdate,
      Feedback!BeginRemove
<1>4. requests[q].step # "tell"
  BY DEF Feedback!BeginMarkRead, Feedback!FindToMark, Feedback!BeginUpdate,
         Feedback!BeginRemove, Feedback!Idle
<1>5. \E s \in Feedback!RequestState :
        s.step # "tell" /\ requests' = [requests EXCEPT ![q] = s]
  <2>1. ASSUME NEW r \in Review, NEW p \in Feedback!Person,
               Feedback!BeginMarkRead(q, r, p)
        PROVE  \E v \in Feedback!RequestState :
                 v.step # "tell" /\ requests' = [requests EXCEPT ![q] = v]
    <3>1. Feedback!BadgeScope(p) \subseteq Outlet
      BY <1>1 DEF Feedback!BadgeScope, Feedback!Open, Feedback!Person
    <3>2. [step |-> "find", review |-> r, person |-> p,
           scope |-> Feedback!BadgeScope(p)] \in Feedback!RequestState
      BY <3>1 DEF Feedback!RequestState
    <3>. QED
      BY <2>1, <3>2 DEF Feedback!BeginMarkRead
  <2>2. CASE Feedback!FindToMark(q)
    <3>. DEFINE m == [requests[q] EXCEPT !.step = "mark"]
    <3>1. requests[q].step = "find"
          /\ \/ requests' = [requests EXCEPT ![q] = m]
             \/ requests' = [requests EXCEPT ![q] = Feedback!Idle]
      BY <2>2 DEF Feedback!FindToMark
    <3>2. requests[q] \in [step : {"find", "mark"}, review : Review,
                           person : Feedback!Person, scope : SUBSET Outlet]
      BY <1>1, <3>1 DEF Feedback!RequestState, Feedback!Idle
    <3>3. m \in Feedback!RequestState /\ m.step = "mark"
      BY <3>2 DEF Feedback!RequestState
    <3>4. Feedback!Idle \in Feedback!RequestState /\ Feedback!Idle.step = "idle"
      BY DEF Feedback!RequestState, Feedback!Idle
    <3>. HIDE DEF m
    <3>. QED
      BY <3>1, <3>3, <3>4
  <2>3. ASSUME NEW r \in Review, NEW o \in Outlet, NEW c \in BOOLEAN,
               NEW s \in Feedback!Status, Feedback!BeginUpdate(q, r, o, c, s)
        PROVE  \E v \in Feedback!RequestState :
                 v.step # "tell" /\ requests' = [requests EXCEPT ![q] = v]
    <3>1. [step |-> "patch", review |-> r, outlet |-> o, complaint |-> c,
           status |-> s] \in Feedback!RequestState
      BY DEF Feedback!RequestState
    <3>. QED
      BY <2>3, <3>1 DEF Feedback!BeginUpdate
  <2>4. ASSUME NEW r \in Review, Feedback!BeginRemove(q, r)
        PROVE  \E v \in Feedback!RequestState :
                 v.step # "tell" /\ requests' = [requests EXCEPT ![q] = v]
    <3>1. [step |-> "save", review |-> r] \in Feedback!RequestState
      BY DEF Feedback!RequestState
    <3>. QED
      BY <2>4, <3>1 DEF Feedback!BeginRemove
  <2>. QED
    BY <2>1, <2>2, <2>3, <2>4
<1>6. PICK s \in Feedback!RequestState :
        s.step # "tell" /\ requests' = [requests EXCEPT ![q] = s]
  BY <1>5
<1>7. /\ requests' \in [Request -> Feedback!RequestState]
      /\ \A p \in Request :
           \/ requests'[p] = requests[p]
           \/ requests'[p].step # "tell" /\ requests[p].step # "tell"
  BY <1>1, <1>4, <1>6
<1>. QED
  BY <1>1, <1>2, <1>3, <1>7, NoReviewWritten

\* A review is written, in a step that announces nothing: it stays a review
\* that nobody has read twice.
LEMMA ReviewWritten ==
  ASSUME ReviewInv, NEW r \in Review, NEW doc \in Feedback!ReviewDoc,
         \A p \in Feedback!Person : doc.readBy[p] <= 1,
         reviews' = [reviews EXCEPT ![r] = doc],
         UNCHANGED <<closed, managed, profile, owed, patches>>,
         requests' \in [Request -> Feedback!RequestState],
         \A q \in Request :
           \/ requests'[q] = requests[q]
           \/ requests'[q].step # "tell" /\ requests[q].step # "tell"
  PROVE  ReviewInv'
<1>1. PushesOwed' /\ owed' \in [Review -> 0..Feedback!Cardinality(Request)]
  BY SamePushes
<1>2. reviews \in [Review -> Feedback!ReviewDoc]
  BY DEF ReviewInv, Feedback!TypeOK
<1>3. reviews' \in [Review -> Feedback!ReviewDoc]
  BY <1>2
<1>4. Feedback!ReadOnce'
  BY <1>2 DEF ReviewInv, Feedback!ReadOnce
<1>. QED
  BY <1>1, <1>3, <1>4 DEF ReviewInv, Feedback!TypeOK

\* The end of a request that was not going to announce anything.
LEMMA RequestOver ==
  ASSUME ReviewInv, NEW q \in Request, requests[q].step # "tell",
         requests' = [requests EXCEPT ![q] = Feedback!Idle]
  PROVE  /\ requests' \in [Request -> Feedback!RequestState]
         /\ \A p \in Request :
              \/ requests'[p] = requests[p]
              \/ requests'[p].step # "tell" /\ requests[p].step # "tell"
<1>1. requests \in [Request -> Feedback!RequestState]
      /\ Feedback!Idle \in Feedback!RequestState
      /\ Feedback!Idle.step = "idle"
  BY DEF ReviewInv, Feedback!TypeOK, Feedback!RequestState, Feedback!Idle
<1>. QED
  BY <1>1

LEMMA CreateKeeps ==
  ASSUME ReviewInv, NEW r \in Review, NEW o \in Outlet, NEW c \in BOOLEAN,
         Feedback!Create(r, o, c)
  PROVE  ReviewInv'
<1>. DEFINE doc == [reviews[r] EXCEPT !.stored = TRUE, !.outlet = o,
                                      !.complaint = c]
<1>1. reviews[r] \in Feedback!ReviewDoc
      /\ requests \in [Request -> Feedback!RequestState]
      /\ \A p \in Feedback!Person : reviews[r].readBy[p] <= 1
  BY DEF ReviewInv, Feedback!TypeOK, Feedback!ReadOnce
<1>2. reviews' = [reviews EXCEPT ![r] = doc]
      /\ UNCHANGED <<closed, managed, profile, requests, owed, patches>>
  BY DEF Feedback!Create, ReviewInv, Feedback!TypeOK
<1>3. doc \in Feedback!ReviewDoc /\ doc.readBy = reviews[r].readBy
  BY <1>1 DEF Feedback!ReviewDoc
<1>. HIDE DEF doc
<1>. QED
  BY <1>1, <1>2, <1>3, ReviewWritten

\* The update's filter lets one of several requests of a user through.
LEMMA MarkKeeps ==
  ASSUME ReviewInv, NEW q \in Request, Feedback!Mark(q)
  PROVE  ReviewInv'
<1>. DEFINE m == requests[q]  r == m.review  p == m.person
            doc == [reviews[r] EXCEPT !.readBy[p] = @ + 1]
<1>1. requests \in [Request -> Feedback!RequestState]
      /\ reviews \in [Review -> Feedback!ReviewDoc]
      /\ \A x \in Review, y \in Feedback!Person : reviews[x].readBy[y] <= 1
  BY DEF ReviewInv, Feedback!TypeOK, Feedback!ReadOnce
<1>2. m.step = "mark" /\ requests' = [requests EXCEPT ![q] = Feedback!Idle]
      /\ UNCHANGED <<closed, managed, profile, owed, patches>>
      /\ \/ reviews' = reviews
         \/ Feedback!NotYetRead(r, p) /\ reviews' = [reviews EXCEPT ![r].readBy[p] = @ + 1]
  BY DEF Feedback!Mark
<1>3. m \in [step : {"find", "mark"}, review : Review,
             person : Feedback!Person, scope : SUBSET Outlet]
  BY <1>1, <1>2 DEF Feedback!RequestState, Feedback!Idle
<1>4. r \in Review /\ p \in Feedback!Person
  BY <1>3
<1>5. /\ requests' \in [Request -> Feedback!RequestState]
      /\ \A x \in Request :
           \/ requests'[x] = requests[x]
           \/ requests'[x].step # "tell" /\ requests[x].step # "tell"
  BY <1>2, RequestOver
<1>6. CASE reviews' = reviews
  BY <1>1, <1>2, <1>5, <1>6, NoReviewWritten DEF ReviewInv, Feedback!TypeOK
<1>7. CASE Feedback!NotYetRead(r, p)
           /\ reviews' = [reviews EXCEPT ![r].readBy[p] = @ + 1]
  <2>1. reviews[r].readBy[p] = 0 /\ reviews[r].readBy \in [Feedback!Person -> 0..2]
    BY <1>1, <1>4, <1>7 DEF Feedback!NotYetRead, Feedback!ReviewDoc
  <2>2. doc = [reviews[r] EXCEPT !.readBy = [reviews[r].readBy EXCEPT ![p] = 1]]
    BY <2>1
  <2>3. reviews' = [reviews EXCEPT ![r] = doc]
    BY <1>7
  <2>. HIDE DEF r, p, doc
  <2>4. /\ doc \in Feedback!ReviewDoc
        /\ doc.readBy = [reviews[r].readBy EXCEPT ![p] = 1]
    BY <1>1, <1>4, <2>1, <2>2 DEF Feedback!ReviewDoc
  <2>5. \A y \in Feedback!Person : doc.readBy[y] <= 1
    BY <1>1, <1>4, <2>1, <2>4
  <2>. QED
    BY <1>2, <1>4, <1>5, <2>3, <2>4, <2>5, ReviewWritten
<1>. QED
  BY <1>2, <1>6, <1>7

\* PATCH writes its fields, a removal the flag.
LEMMA WriteKeeps ==
  ASSUME ReviewInv, NEW q \in Request,
         Feedback!Update(q) \/ Feedback!Remove(q)
  PROVE  ReviewInv'
<1>. DEFINE u == requests[q]  r == u.review
            patched == [reviews[r] EXCEPT !.outlet = u.outlet,
                          !.complaint = u.complaint, !.status = u.status]
            deletion == [reviews[r] EXCEPT !.deleted = TRUE]
<1>1. requests \in [Request -> Feedback!RequestState]
      /\ reviews \in [Review -> Feedback!ReviewDoc]
      /\ \A x \in Review, y \in Feedback!Person : reviews[x].readBy[y] <= 1
  BY DEF ReviewInv, Feedback!TypeOK, Feedback!ReadOnce
<1>2. /\ u.step \in {"patch", "save"}
      /\ requests' = [requests EXCEPT ![q] = Feedback!Idle]
      /\ UNCHANGED <<closed, managed, profile, owed, patches>>
  BY DEF Feedback!Update, Feedback!Remove
<1>3. /\ requests' \in [Request -> Feedback!RequestState]
      /\ \A x \in Request :
           \/ requests'[x] = requests[x]
           \/ requests'[x].step # "tell" /\ requests[x].step # "tell"
  BY <1>2, RequestOver
<1>4. CASE Feedback!Update(q)
  <2>1. u \in [step : {"patch"}, review : Review, outlet : Outlet,
               complaint : BOOLEAN, status : Feedback!Status]
    BY <1>1, <1>4 DEF Feedback!Update, Feedback!RequestState, Feedback!Idle
  <2>2. r \in Review /\ reviews[r] \in Feedback!ReviewDoc
    BY <1>1, <2>1
  <2>3. reviews' = [reviews EXCEPT ![r] = patched]
    BY <1>1, <1>4, <2>2 DEF Feedback!Update
  <2>4. patched \in Feedback!ReviewDoc /\ patched.readBy = reviews[r].readBy
    BY <2>1, <2>2 DEF Feedback!ReviewDoc
  <2>. HIDE DEF patched, r
  <2>. QED
    BY <1>1, <1>2, <1>3, <2>2, <2>3, <2>4, ReviewWritten
<1>5. CASE Feedback!Remove(q)
  <2>1. u \in [step : {"tell", "save"}, review : Review]
    BY <1>1, <1>5 DEF Feedback!Remove, Feedback!RequestState, Feedback!Idle
  <2>2. r \in Review /\ reviews[r] \in Feedback!ReviewDoc
    BY <1>1, <2>1
  <2>3. reviews' = [reviews EXCEPT ![r] = deletion]
    BY <1>1, <1>5, <2>2 DEF Feedback!Remove
  <2>4. deletion \in Feedback!ReviewDoc /\ deletion.readBy = reviews[r].readBy
    BY <2>2 DEF Feedback!ReviewDoc
  <2>. HIDE DEF deletion, r
  <2>. QED
    BY <1>1, <1>2, <1>3, <2>2, <2>3, <2>4, ReviewWritten
<1>. QED
  BY <1>4, <1>5

\* resolveComplaint owes a push exactly if its own write made the review
\* resolved, and then its request goes on to send it.
LEMMA ResolveKeeps ==
  ASSUME ReviewInv, NEW q \in Request, NEW r \in Review,
         NEW status \in Feedback!Status, Feedback!Resolve(q, r, status)
  PROVE  ReviewInv'
<1>. DEFINE doc == [reviews[r] EXCEPT !.status = status]
            tell == [step |-> "tell", review |-> r]
<1>1. /\ requests \in [Request -> Feedback!RequestState]
      /\ reviews \in [Review -> Feedback!ReviewDoc]
      /\ owed \in [Review -> 0..Feedback!Cardinality(Request)]
      /\ \A x \in Review, y \in Feedback!Person : reviews[x].readBy[y] <= 1
      /\ \A x \in Review : owed[x] = Cardinality(Tellers(x))
  BY DEF ReviewInv, Feedback!TypeOK, Feedback!ReadOnce, PushesOwed
<1>2. /\ requests[q] = Feedback!Idle
      /\ reviews' = [reviews EXCEPT ![r] = doc]
      /\ UNCHANGED <<closed, managed, profile, patches>>
  BY <1>1 DEF Feedback!Resolve
<1>3. requests[q].step = "idle"
  BY <1>2 DEF Feedback!Idle
<1>4. doc \in Feedback!ReviewDoc /\ doc.readBy = reviews[r].readBy
  BY <1>1 DEF Feedback!ReviewDoc
<1>5. CASE ~Feedback!Announced(reviews[r].status, status)
  <2>1. requests' = requests /\ owed' = owed
    BY <1>5 DEF Feedback!Resolve, Feedback!Announced
  <2>. HIDE DEF doc
  <2>. QED
    BY <1>1, <1>2, <1>4, <2>1, ReviewWritten
<1>6. CASE Feedback!Announced(reviews[r].status, status)
  <2>1. requests' = [requests EXCEPT ![q] = tell]
        /\ owed' = [owed EXCEPT ![r] = @ + 1]
    BY <1>6 DEF Feedback!Resolve, Feedback!Announced
  <2>2. tell \in Feedback!RequestState /\ tell.step = "tell" /\ tell.review = r
    BY DEF Feedback!RequestState
  <2>. HIDE DEF doc, tell
  <2>3. /\ requests' \in [Request -> Feedback!RequestState]
        /\ requests'[q] = tell
        /\ \A p \in Request : p # q => requests'[p] = requests[p]
    BY <1>1, <2>1, <2>2
  <2>4. q \notin Tellers(r)
    BY <1>3 DEF Tellers
  <2>5. /\ Tellers(r)' = Tellers(r) \cup {q}
        /\ \A x \in Review : x # r => Tellers(x)' = Tellers(x)
    BY <1>3, <2>2, <2>3 DEF Tellers
  <2>6. Cardinality(Tellers(r) \cup {q}) = Cardinality(Tellers(r)) + 1
    BY <2>4, TellersFinite, FS_AddElement
  <2>7. /\ owed'[r] = owed[r] + 1
        /\ \A x \in Review : x # r => owed'[x] = owed[x]
        /\ owed' \in [Review -> Nat]
    <3>1. \A x \in Review : owed[x] \in Nat
      BY <1>1, TellersFinite
    <3>. QED
      BY <1>1, <2>1, <3>1
  <2>8. PushesOwed'
    BY <1>1, <2>5, <2>6, <2>7 DEF PushesOwed
  <2>9. owed' \in [Review -> 0..Feedback!Cardinality(Request)]
    <3>1. \A x \in Review : Cardinality(Tellers(x)') \in 0..Cardinality(Request)
      <4>1. \A x \in Review : Tellers(x)' \subseteq Request
        BY DEF Tellers
      <4>. QED
        BY <4>1, SubsetCounts
    <3>. QED
      BY <2>7, <2>8, <3>1, SameCardinality DEF PushesOwed
  <2>10. Feedback!ReadOnce' /\ reviews' \in [Review -> Feedback!ReviewDoc]
    BY <1>1, <1>2, <1>4 DEF Feedback!ReadOnce
  <2>. QED
    BY <1>2, <2>3, <2>8, <2>9, <2>10 DEF ReviewInv, Feedback!TypeOK
<1>. QED
  BY <1>5, <1>6

\* The push is sent or lost, and no longer owed.
LEMMA TellKeeps ==
  ASSUME ReviewInv, NEW q \in Request, Feedback!Tell(q)
  PROVE  ReviewInv'
<1>. DEFINE r == requests[q].review
<1>1. /\ requests \in [Request -> Feedback!RequestState]
      /\ owed \in [Review -> 0..Feedback!Cardinality(Request)]
      /\ \A x \in Review : owed[x] = Cardinality(Tellers(x))
  BY DEF ReviewInv, Feedback!TypeOK, PushesOwed
<1>2. /\ requests[q].step = "tell"
      /\ owed' = [owed EXCEPT ![r] = @ - 1]
      /\ requests' = [requests EXCEPT ![q] = Feedback!Idle]
      /\ UNCHANGED <<closed, managed, profile, reviews, patches>>
  BY DEF Feedback!Tell
<1>3. r \in Review
  BY <1>1, <1>2 DEF Feedback!RequestState, Feedback!Idle
<1>4. Feedback!Idle \in Feedback!RequestState /\ Feedback!Idle.step = "idle"
  BY DEF Feedback!RequestState, Feedback!Idle
<1>5. /\ requests' \in [Request -> Feedback!RequestState]
      /\ requests'[q].step = "idle"
      /\ \A p \in Request : p # q => requests'[p] = requests[p]
  BY <1>1, <1>2, <1>4
<1>6. q \in Tellers(r)
  BY <1>2 DEF Tellers
<1>7. ASSUME NEW x \in Review
      PROVE  Tellers(x)' = IF x = r THEN Tellers(x) \ {q} ELSE Tellers(x)
  BY <1>2, <1>5 DEF Tellers
<1>8. Cardinality(Tellers(r) \ {q}) = Cardinality(Tellers(r)) - 1
  BY <1>6, TellersFinite, FS_RemoveElement
<1>9. \A x \in Review : Cardinality(Tellers(x)') \in 0..Cardinality(Request)
  <2>1. \A x \in Review : Tellers(x)' \subseteq Request
    BY DEF Tellers
  <2>. QED
    BY <2>1, SubsetCounts
<1>. HIDE DEF r
<1>10. /\ owed'[r] = owed[r] - 1
       /\ \A x \in Review : x # r => owed'[x] = owed[x]
       /\ owed' = [x \in Review |-> owed'[x]]
  BY <1>1, <1>2, <1>3
<1>11. PushesOwed'
  BY <1>1, <1>7, <1>8, <1>10 DEF PushesOwed
<1>12. owed' \in [Review -> 0..Feedback!Cardinality(Request)]
  BY <1>9, <1>10, <1>11, SameCardinality DEF PushesOwed
<1>13. Feedback!ReadOnce'
  BY <1>2 DEF ReviewInv, Feedback!ReadOnce
<1>. QED
  BY <1>2, <1>5, <1>11, <1>12, <1>13 DEF ReviewInv, Feedback!TypeOK

LEMMA ReviewInvStep ==
  ASSUME ReviewInv, [Feedback!Next]_reviewVars
  PROVE  ReviewInv'
<1>1. CASE UNCHANGED reviewVars
  BY <1>1, NoReviewWritten DEF reviewVars, ReviewInv, Feedback!TypeOK
<1>2. CASE Feedback!Next
  BY <1>2, CreateKeeps, RequestBegins, ResolveKeeps, MarkKeeps, TellKeeps,
     WriteKeeps, OutletsChange DEF Feedback!Next
<1>. QED
  BY <1>1, <1>2


-------------------------------------------------------------------------------
(* Outlets and tables                                                      *)

JobDue(step, t) == \E q \in Request : jobs[q].step = step /\ jobs[q].table = t

\* A stored table's outlet is stored, and an outlet lists its own tables only.
TablesHaveHomes ==
  \A t \in Table :
    /\ tables[t].stored => outlets[tables[t].outlet].stored
    /\ \A o \in Outlet :
         t \in outlets[o].tableIds => tables[t].stored /\ tables[t].outlet = o

\* What a request knows of its table and outlet stays true while it runs.
JobsKnown ==
  \A q \in Request :
    /\ jobs[q].step = "save" => /\ ~tables[jobs[q].table].stored
                                /\ outlets[jobs[q].outlet].stored
    /\ jobs[q].step = "link" => tables[jobs[q].table].stored
    /\ jobs[q].step = "unlink" => /\ tables[jobs[q].table].stored
                                  /\ tables[jobs[q].table].deleted

\* No two requests are about to store one table.
SavesApart ==
  \A p, q \in Request :
    jobs[p].step = "save" /\ jobs[q].step = "save" /\ p # q
      => jobs[p].table # jobs[q].table

\* The unique index: two stored tables of an outlet, deleted or not, have
\* different names.
NamesApart ==
  \A t, u \in Table :
    /\ t # u /\ tables[t].stored /\ tables[u].stored
    /\ tables[t].outlet = tables[u].outlet
    => tables[t].name # tables[u].name

\* While a scan is between its two reads, its outlet is live only if it was so
\* from the beginning.
ScansKnown ==
  \A c \in Customer :
    /\ scans[c].step = "outlet" =>
         /\ tables[scans[c].table].stored
         /\ Places!Live(outlets[tables[scans[c].table].outlet]) => scans[c].open
    /\ scans[c].step = "found" => scans[c].open

\* How far a table and its outlet's list may be apart.
ListsClose ==
  \A o \in Outlet, t \in Table :
    Places!Live(outlets[o]) =>
      /\ /\ Places!Live(tables[t]) /\ tables[t].outlet = o
         /\ t \notin outlets[o].tableIds
         => JobDue("link", t) \/ t \in cut
      /\ t \in outlets[o].tableIds /\ ~Places!Live(tables[t])
         => JobDue("unlink", t) \/ t \in cut \cup crossed

OutletInv ==
  /\ Places!TypeOK
  /\ TablesHaveHomes
  /\ JobsKnown
  /\ SavesApart
  /\ NamesApart
  /\ ScansKnown
  /\ ListsClose

LEMMA InitOutletInv ==
  ASSUME Places!Init
  PROVE  OutletInv
<1>1. (CHOOSE o \in Outlet : TRUE) \in Outlet /\ (CHOOSE n \in Name : TRUE) \in Name
  BY NamesAssumption
<1>2. Places!TypeOK
  BY <1>1 DEF Places!Init, Places!TypeOK, Places!OutletDoc, Places!TableDoc,
              Places!RequestState, Places!ScanState
<1>3. /\ \A o \in Outlet : outlets[o].tableIds = {} /\ ~outlets[o].stored
      /\ \A t \in Table : ~tables[t].stored
      /\ \A q \in Request : jobs[q].step = "idle"
      /\ \A c \in Customer : scans[c].step = "idle"
  BY DEF Places!Init, Places!Idle
<1>4. /\ TablesHaveHomes /\ JobsKnown /\ SavesApart /\ NamesApart /\ ScansKnown
  BY <1>3 DEF TablesHaveHomes, JobsKnown, SavesApart, NamesApart, ScansKnown
<1>5. ListsClose
  BY <1>3 DEF ListsClose, Places!Live
<1>. QED
  BY <1>2, <1>4, <1>5 DEF OutletInv

LEMMA OutletInvImplies ==
  ASSUME OutletInv
  PROVE  Places!ListAgrees /\ Places!NamesDiffer /\ Places!ScanFindsLive
<1>1. Places!ListAgrees
  <2>. SUFFICES ASSUME NEW o \in Outlet, Places!Live(outlets[o])
       PROVE  LET own == {t \in Table : /\ Places!Live(tables[t])
                                        /\ tables[t].outlet = o}
              IN /\ own \ outlets[o].tableIds
                      \subseteq Places!Pending("link") \cup cut
                 /\ outlets[o].tableIds \ own
                      \subseteq Places!Pending("unlink") \cup cut \cup crossed
                 /\ \A t \in outlets[o].tableIds : tables[t].outlet = o
    BY DEF Places!ListAgrees
  <2>1. outlets[o].tableIds \subseteq Table
    BY DEF OutletInv, Places!TypeOK, Places!OutletDoc
  <2>2. \A t \in outlets[o].tableIds : tables[t].outlet = o
    BY <2>1 DEF OutletInv, TablesHaveHomes
  <2>3. \A step, t : JobDue(step, t) => t \in Places!Pending(step)
    BY DEF JobDue, Places!Pending
  <2>. QED
    BY <2>1, <2>2, <2>3 DEF OutletInv, ListsClose
<1>2. Places!NamesDiffer
  BY DEF OutletInv, NamesApart, Places!NamesDiffer, Places!Live
<1>3. Places!ScanFindsLive
  BY DEF OutletInv, ScansKnown, Places!ScanFindsLive
<1>. QED
  BY <1>1, <1>2, <1>3

\* The documents a request and a scan point to.
LEMMA JobFields ==
  ASSUME OutletInv, NEW q \in Request
  PROVE  /\ jobs[q].step \in {"save", "link", "unlink"} => jobs[q].table \in Table
         /\ jobs[q].step = "save" => jobs[q].outlet \in Outlet
                                     /\ jobs[q].name \in Name
<1>1. jobs[q] \in Places!RequestState
  BY DEF OutletInv, Places!TypeOK
<1>. QED
  BY <1>1 DEF Places!RequestState, Places!Idle

LEMMA ScanFields ==
  ASSUME OutletInv, NEW c \in Customer
  PROVE  scans[c].step \in {"outlet", "found", "lost"}
           => scans[c] \in [step : {"outlet", "found", "lost"}, table : Table,
                            open : BOOLEAN]
<1>1. scans[c] \in Places!ScanState
  BY DEF OutletInv, Places!TypeOK
<1>. QED
  BY <1>1 DEF Places!ScanState, Places!Idle

\* An outlet is created, or closed.
LEMMA OutletWritten ==
  ASSUME NEW o \in Outlet, OutletInv,
         Places!CreateOutlet(o) \/ Places!RemoveOutlet(o)
  PROVE  OutletInv'
<1>1. UNCHANGED <<tables, jobs, scans, cut, crossed>>
  BY DEF Places!CreateOutlet, Places!RemoveOutlet
<1>2. outlets \in [Outlet -> Places!OutletDoc] /\ tables \in [Table -> Places!TableDoc]
  BY DEF OutletInv, Places!TypeOK
<1>3. /\ outlets' \in [Outlet -> Places!OutletDoc]
      /\ \A p \in Outlet : /\ outlets'[p].tableIds = outlets[p].tableIds
                           /\ outlets[p].stored => outlets'[p].stored
                           /\ p # o => outlets'[p] = outlets[p]
      /\ \/ ~outlets[o].stored
         \/ ~Places!Live(outlets'[o])
  <2>1. CASE Places!CreateOutlet(o)
    BY <1>2, <2>1 DEF Places!CreateOutlet, Places!OutletDoc
  <2>2. CASE Places!RemoveOutlet(o)
    BY <1>2, <2>2 DEF Places!RemoveOutlet, Places!OutletDoc, Places!Live
  <2>. QED
    BY <2>1, <2>2
<1>4. \A t \in Table : tables[t].outlet \in Outlet
  BY <1>2 DEF Places!TableDoc
<1>5. Places!TypeOK'
  BY <1>1, <1>3 DEF OutletInv, Places!TypeOK
<1>6. TablesHaveHomes'
  BY <1>1, <1>3, <1>4 DEF OutletInv, TablesHaveHomes
<1>7. JobsKnown'
  BY <1>1, <1>3, JobFields DEF OutletInv, JobsKnown
<1>8. SavesApart' /\ NamesApart'
  BY <1>1 DEF OutletInv, SavesApart, NamesApart
<1>9. ScansKnown'
  <2>. SUFFICES ASSUME NEW c \in Customer, scans[c].step = "outlet",
                       Places!Live(outlets'[tables[scans[c].table].outlet])
       PROVE  scans[c].open
    BY <1>1 DEF OutletInv, ScansKnown
  <2>1. scans[c].table \in Table
    BY ScanFields
  <2>2. outlets[tables[scans[c].table].outlet].stored
    BY <2>1 DEF OutletInv, ScansKnown, TablesHaveHomes
  <2>3. tables[scans[c].table].outlet # o
    BY <1>3, <2>2
  <2>. QED
    BY <1>3, <1>4, <2>1, <2>3 DEF OutletInv, ScansKnown
<1>10. ListsClose'
  <2>. SUFFICES ASSUME NEW p \in Outlet, NEW t \in Table,
                       Places!Live(outlets'[p])
       PROVE  /\ /\ Places!Live(tables[t]) /\ tables[t].outlet = p
                 /\ t \notin outlets[p].tableIds
                 => JobDue("link", t) \/ t \in cut
              /\ t \in outlets[p].tableIds /\ ~Places!Live(tables[t])
                 => JobDue("unlink", t) \/ t \in cut \cup crossed
    BY <1>1, <1>3 DEF ListsClose, JobDue
  <2>1. CASE p = o
    BY <1>3, <2>1 DEF OutletInv, TablesHaveHomes, Places!Live
  <2>2. CASE p # o
    BY <1>3, <2>2 DEF OutletInv, ListsClose
  <2>. QED
    BY <2>1, <2>2
<1>. QED
  BY <1>5, <1>6, <1>7, <1>8, <1>9, <1>10 DEF OutletInv

\* A creation passes its check of the outlet.
LEMMA CreationBegun ==
  ASSUME NEW q \in Request, NEW t \in Table, NEW o \in Outlet, NEW n \in Name,
         OutletInv, Places!BeginCreate(q, t, o, n)
  PROVE  OutletInv'
<1>. DEFINE j == [step |-> "save", table |-> t, outlet |-> o, name |-> n]
<1>1. /\ UNCHANGED <<outlets, tables, scans, cut, crossed>>
      /\ jobs[q] = Places!Idle /\ ~tables[t].stored
      /\ \A p \in Request : jobs[p].step = "save" => jobs[p].table # t
      /\ outlets[o].stored
      /\ jobs' = [jobs EXCEPT ![q] = j]
  BY DEF Places!BeginCreate, Places!Live
<1>2. jobs \in [Request -> Places!RequestState] /\ j \in Places!RequestState
  BY DEF OutletInv, Places!TypeOK, Places!RequestState
<1>3. /\ jobs' \in [Request -> Places!RequestState]
      /\ jobs'[q] = j /\ j.step = "save" /\ j.table = t /\ j.outlet = o
      /\ \A p \in Request : p # q => jobs'[p] = jobs[p]
      /\ jobs[q].step = "idle"
  BY <1>1, <1>2 DEF Places!Idle
<1>. HIDE DEF j
<1>4. Places!TypeOK' /\ TablesHaveHomes' /\ NamesApart' /\ ScansKnown'
  BY <1>1, <1>3 DEF OutletInv, Places!TypeOK, TablesHaveHomes, NamesApart,
                    ScansKnown
<1>5. JobsKnown'
  BY <1>1, <1>3 DEF OutletInv, JobsKnown
<1>6. SavesApart'
  BY <1>1, <1>3 DEF OutletInv, SavesApart
<1>7. \A u \in Table : /\ JobDue("link", u) => JobDue("link", u)'
                       /\ JobDue("unlink", u) => JobDue("unlink", u)'
  BY <1>3 DEF JobDue
<1>8. ListsClose'
  BY <1>1, <1>7 DEF OutletInv, ListsClose
<1>. QED
  BY <1>4, <1>5, <1>6, <1>8 DEF OutletInv

\* A request ends, or dies: what it owed its table is recorded.
LEMMA RequestEnds ==
  ASSUME NEW q \in Request, OutletInv,
         UNCHANGED <<outlets, tables, scans, crossed>>,
         jobs' = [jobs EXCEPT ![q] = Places!Idle],
         cut \subseteq cut', cut' \subseteq Table,
         jobs[q].step = "save" \/ jobs[q].table \in cut'
  PROVE  OutletInv'
<1>1. jobs \in [Request -> Places!RequestState]
      /\ Places!Idle \in Places!RequestState
  BY DEF OutletInv, Places!TypeOK, Places!RequestState
<1>2. /\ jobs' \in [Request -> Places!RequestState]
      /\ jobs'[q].step = "idle"
      /\ \A p \in Request : p # q => jobs'[p] = jobs[p]
  BY <1>1 DEF Places!Idle
<1>3. Places!TypeOK' /\ TablesHaveHomes' /\ NamesApart' /\ ScansKnown'
  BY <1>2 DEF OutletInv, Places!TypeOK, TablesHaveHomes, NamesApart, ScansKnown
<1>4. JobsKnown' /\ SavesApart'
  BY <1>2 DEF OutletInv, JobsKnown, SavesApart
<1>5. \A u \in Table :
        /\ JobDue("link", u) => JobDue("link", u)' \/ u \in cut'
        /\ JobDue("unlink", u) => JobDue("unlink", u)' \/ u \in cut'
  BY <1>2 DEF JobDue
<1>6. ListsClose'
  BY <1>5 DEF OutletInv, ListsClose
<1>. QED
  BY <1>3, <1>4, <1>6 DEF OutletInv

LEMMA DeathKeeps ==
  ASSUME NEW q \in Request, OutletInv, Places!Die(q)
  PROVE  OutletInv'
<1>1. jobs[q].table \in Table /\ cut \subseteq Table
  BY JobFields DEF Places!Die, OutletInv, Places!TypeOK
<1>. QED
  BY <1>1, RequestEnds DEF Places!Die

\* The table is stored: it was nobody else's, and waits for its outlet's list.
LEMMA SaveKeeps ==
  ASSUME NEW q \in Request, OutletInv, Places!Save(q)
  PROVE  OutletInv'
<1>. DEFINE j == jobs[q]  t == j.table
            doc == [stored |-> TRUE, deleted |-> FALSE, outlet |-> j.outlet,
                    name |-> j.name]
            next == [step |-> "link", table |-> t]
<1>1. /\ j.step = "save" /\ UNCHANGED <<outlets, scans, cut, crossed>>
      /\ t \in Table /\ j.outlet \in Outlet /\ j.name \in Name
  BY JobFields DEF Places!Save
<1>2. CASE ~Places!IndexAdmits(t, j.outlet, j.name)
  <2>1. jobs' = [jobs EXCEPT ![q] = Places!Idle] /\ tables' = tables
    BY <1>1, <1>2 DEF Places!Save
  <2>2. cut' \subseteq Table
    BY <1>1 DEF OutletInv, Places!TypeOK
  <2>. QED
    BY <1>1, <2>1, <2>2, RequestEnds
<1>3. CASE Places!IndexAdmits(t, j.outlet, j.name)
  <2>1. /\ tables' = [tables EXCEPT ![t] = doc]
        /\ jobs' = [jobs EXCEPT ![q] = next]
    BY <1>1, <1>3 DEF Places!Save
  <2>2. tables \in [Table -> Places!TableDoc]
        /\ jobs \in [Request -> Places!RequestState]
    BY DEF OutletInv, Places!TypeOK
  <2>3. doc \in Places!TableDoc /\ next \in Places!RequestState
    BY <1>1 DEF Places!TableDoc, Places!RequestState
  <2>4. /\ doc.stored /\ ~doc.deleted /\ doc.outlet = j.outlet
        /\ doc.name = j.name
        /\ next.step = "link" /\ next.table = t
    OBVIOUS
  <2>5. ~tables[t].stored /\ outlets[j.outlet].stored
    BY <1>1 DEF OutletInv, JobsKnown
  <2>. HIDE DEF doc, next, j, t
  <2>6. /\ tables' \in [Table -> Places!TableDoc]
        /\ tables'[t] = doc
        /\ \A u \in Table : u # t => tables'[u] = tables[u]
        /\ jobs' \in [Request -> Places!RequestState]
        /\ jobs'[q] = next
        /\ \A p \in Request : p # q => jobs'[p] = jobs[p]
    BY <1>1, <2>1, <2>2, <2>3
  <2>7. Places!TypeOK'
    BY <1>1, <2>6 DEF OutletInv, Places!TypeOK
  <2>8. TablesHaveHomes'
    BY <1>1, <2>4, <2>5, <2>6 DEF OutletInv, TablesHaveHomes
  <2>9. JobsKnown'
    <3>. SUFFICES ASSUME NEW p \in Request
         PROVE  /\ jobs'[p].step = "save" => /\ ~tables'[jobs'[p].table].stored
                                             /\ outlets'[jobs'[p].outlet].stored
                /\ jobs'[p].step = "link" => tables'[jobs'[p].table].stored
                /\ jobs'[p].step = "unlink" => /\ tables'[jobs'[p].table].stored
                                               /\ tables'[jobs'[p].table].deleted
      BY DEF JobsKnown
    <3>1. CASE p = q
      BY <1>1, <2>4, <2>6, <3>1
    <3>2. CASE p # q
      <4>1. jobs'[p] = jobs[p]
        BY <2>6, <3>2
      <4>2. jobs[p].step = "save" => jobs[p].table # t
        BY <1>1, <3>2 DEF OutletInv, SavesApart, j, t
      <4>3. jobs[p].step \in {"link", "unlink"} => jobs[p].table # t
        BY <2>5 DEF OutletInv, JobsKnown
      <4>4. jobs[p].step \in {"save", "link", "unlink"}
              => tables'[jobs[p].table] = tables[jobs[p].table]
        BY <2>6, <4>2, <4>3, JobFields
      <4>. QED
        BY <1>1, <4>1, <4>4 DEF OutletInv, JobsKnown
    <3>. QED
      BY <3>1, <3>2
  <2>10. SavesApart'
    BY <2>4, <2>6 DEF OutletInv, SavesApart
  <2>11. NamesApart'
    <3>1. ASSUME NEW u \in Table, u # t, tables[u].stored,
                 tables[u].outlet = j.outlet
          PROVE  tables[u].name # j.name
      BY <1>3, <3>1 DEF Places!IndexAdmits
    <3>. QED
      BY <2>4, <2>6, <3>1 DEF OutletInv, NamesApart
  <2>12. ScansKnown'
    <3>. SUFFICES ASSUME NEW c \in Customer, scans[c].step = "outlet"
         PROVE  tables'[scans[c].table] = tables[scans[c].table]
      BY <1>1 DEF OutletInv, ScansKnown
    <3>1. scans[c].table \in Table /\ tables[scans[c].table].stored
      BY ScanFields DEF OutletInv, ScansKnown
    <3>. QED
      BY <2>5, <2>6, <3>1
  <2>13. \A u : u = t => JobDue("link", u)'
    BY <2>4, <2>6 DEF JobDue
  <2>14. \A u \in Table : /\ JobDue("link", u) => JobDue("link", u)'
                          /\ JobDue("unlink", u) => JobDue("unlink", u)'
    BY <1>1, <2>6 DEF JobDue, j
  <2>15. ListsClose'
    <3>. SUFFICES ASSUME NEW o \in Outlet, NEW u \in Table,
                         Places!Live(outlets[o])
         PROVE  /\ /\ Places!Live(tables'[u]) /\ tables'[u].outlet = o
                   /\ u \notin outlets[o].tableIds
                   => JobDue("link", u)' \/ u \in cut
                /\ u \in outlets[o].tableIds /\ ~Places!Live(tables'[u])
                   => JobDue("unlink", u)' \/ u \in cut \cup crossed
      BY <1>1 DEF ListsClose
    <3>1. CASE u = t
      BY <2>4, <2>6, <2>13, <3>1 DEF Places!Live
    <3>2. CASE u # t
      BY <2>6, <2>14, <3>2 DEF OutletInv, ListsClose
    <3>. QED
      BY <3>1, <3>2
  <2>. QED
    BY <2>7, <2>8, <2>9, <2>10, <2>11, <2>12, <2>15 DEF OutletInv
<1>. QED
  BY <1>2, <1>3

\* The second write of a creation: the table joins its outlet's list.
LEMMA LinkKeeps ==
  ASSUME NEW q \in Request, OutletInv, Places!Link(q)
  PROVE  OutletInv'
<1>. DEFINE t == jobs[q].table  home == tables[t].outlet
<1>1. /\ jobs[q].step = "link" /\ UNCHANGED <<tables, scans, cut>>
      /\ outlets' = IF Places!Live(outlets[home])
                    THEN [outlets EXCEPT ![home].tableIds =
                            outlets[home].tableIds \cup {t}]
                    ELSE outlets
      /\ crossed' = IF tables[t].deleted THEN crossed \cup {t} ELSE crossed
      /\ jobs' = [jobs EXCEPT ![q] = Places!Idle]
  BY DEF Places!Link, Places!Added
<1>2. t \in Table /\ tables[t].stored
  BY <1>1, JobFields DEF OutletInv, JobsKnown
<1>3. outlets \in [Outlet -> Places!OutletDoc]
      /\ tables \in [Table -> Places!TableDoc]
      /\ jobs \in [Request -> Places!RequestState]
      /\ crossed \subseteq Table
      /\ Places!Idle \in Places!RequestState
  BY DEF OutletInv, Places!TypeOK, Places!RequestState
<1>4. home \in Outlet
  BY <1>2, <1>3 DEF Places!TableDoc
<1>. HIDE DEF t, home
<1>5. /\ outlets' \in [Outlet -> Places!OutletDoc]
      /\ \A o \in Outlet : /\ outlets'[o].stored = outlets[o].stored
                           /\ outlets'[o].deleted = outlets[o].deleted
                           /\ o # home => outlets'[o].tableIds = outlets[o].tableIds
      /\ outlets'[home].tableIds
           = IF Places!Live(outlets[home]) THEN outlets[home].tableIds \cup {t}
             ELSE outlets[home].tableIds
  BY <1>1, <1>2, <1>3, <1>4 DEF Places!OutletDoc
<1>6. /\ jobs' \in [Request -> Places!RequestState]
      /\ jobs'[q].step = "idle"
      /\ \A p \in Request : p # q => jobs'[p] = jobs[p]
      /\ crossed \subseteq crossed' /\ crossed' \subseteq Table
      /\ tables[t].deleted => t \in crossed'
  BY <1>1, <1>2, <1>3 DEF Places!Idle
<1>7. Places!TypeOK'
  BY <1>1, <1>5, <1>6 DEF OutletInv, Places!TypeOK
<1>8. TablesHaveHomes'
  <2>1. \A u \in Table : tables[u].outlet \in Outlet
    BY <1>3 DEF Places!TableDoc
  <2>2. \A o \in Outlet, u \in Table :
          u \in outlets'[o].tableIds
            => u \in outlets[o].tableIds \/ (u = t /\ o = home)
    BY <1>4, <1>5
  <2>3. tables[t].outlet = home
    BY DEF home
  <2>. QED
    BY <1>1, <1>2, <1>5, <2>1, <2>2, <2>3 DEF OutletInv, TablesHaveHomes
<1>9. JobsKnown'
  BY <1>1, <1>5, <1>6, JobFields DEF OutletInv, JobsKnown
<1>10. SavesApart' /\ NamesApart'
  BY <1>1, <1>6 DEF OutletInv, SavesApart, NamesApart
<1>11. ScansKnown'
  <2>. SUFFICES ASSUME NEW c \in Customer, scans[c].step = "outlet",
                       Places!Live(outlets'[tables[scans[c].table].outlet])
       PROVE  scans[c].open
    BY <1>1 DEF OutletInv, ScansKnown
  <2>1. tables[scans[c].table].outlet \in Outlet
    BY <1>3, ScanFields DEF Places!TableDoc
  <2>. QED
    BY <1>5, <2>1 DEF OutletInv, ScansKnown, Places!Live
<1>12. \A u \in Table : /\ u # t /\ JobDue("link", u) => JobDue("link", u)'
                        /\ JobDue("unlink", u) => JobDue("unlink", u)'
  BY <1>1, <1>6 DEF JobDue, t
<1>13. ListsClose'
  <2>. SUFFICES ASSUME NEW o \in Outlet, NEW u \in Table,
                       Places!Live(outlets'[o])
       PROVE  /\ /\ Places!Live(tables[u]) /\ tables[u].outlet = o
                 /\ u \notin outlets'[o].tableIds
                 => JobDue("link", u)' \/ u \in cut
              /\ u \in outlets'[o].tableIds /\ ~Places!Live(tables[u])
                 => JobDue("unlink", u)' \/ u \in cut \cup crossed'
    BY <1>1 DEF ListsClose
  <2>1. Places!Live(outlets[o])
    BY <1>5 DEF Places!Live
  <2>2. CASE u = t /\ o = home
    BY <1>2, <1>5, <1>6, <2>1, <2>2 DEF Places!Live
  <2>3. CASE u = t /\ o # home
    <3>1. tables[u].outlet # o
      BY <2>3 DEF home
    <3>2. u \notin outlets[o].tableIds
      BY <3>1 DEF OutletInv, TablesHaveHomes
    <3>. QED
      BY <1>5, <2>3, <3>1, <3>2
  <2>4. CASE u # t
    <3>1. u \in outlets'[o].tableIds <=> u \in outlets[o].tableIds
      BY <1>4, <1>5, <2>4
    <3>. QED
      BY <1>6, <1>12, <2>1, <2>4, <3>1 DEF OutletInv, ListsClose
  <2>. QED
    BY <2>2, <2>3, <2>4
<1>. QED
  BY <1>7, <1>8, <1>9, <1>10, <1>11, <1>13 DEF OutletInv

\* The second write of a removal: the table leaves its outlet's list.
LEMMA UnlinkKeeps ==
  ASSUME NEW q \in Request, OutletInv, Places!Unlink(q)
  PROVE  OutletInv'
<1>. DEFINE t == jobs[q].table  home == tables[t].outlet
<1>1. /\ jobs[q].step = "unlink" /\ UNCHANGED <<tables, scans, cut, crossed>>
      /\ outlets' = IF Places!Live(outlets[home])
                    THEN [outlets EXCEPT ![home].tableIds =
                            outlets[home].tableIds \ {t}]
                    ELSE outlets
      /\ jobs' = [jobs EXCEPT ![q] = Places!Idle]
  BY DEF Places!Unlink
<1>2. t \in Table /\ tables[t].stored /\ tables[t].deleted
  BY <1>1, JobFields DEF OutletInv, JobsKnown
<1>3. outlets \in [Outlet -> Places!OutletDoc]
      /\ tables \in [Table -> Places!TableDoc]
      /\ jobs \in [Request -> Places!RequestState]
      /\ Places!Idle \in Places!RequestState
  BY DEF OutletInv, Places!TypeOK, Places!RequestState
<1>4. home \in Outlet
  BY <1>2, <1>3 DEF Places!TableDoc
<1>. HIDE DEF t, home
<1>5. /\ outlets' \in [Outlet -> Places!OutletDoc]
      /\ \A o \in Outlet : /\ outlets'[o].stored = outlets[o].stored
                           /\ outlets'[o].deleted = outlets[o].deleted
                           /\ o # home => outlets'[o].tableIds = outlets[o].tableIds
      /\ outlets'[home].tableIds
           = IF Places!Live(outlets[home]) THEN outlets[home].tableIds \ {t}
             ELSE outlets[home].tableIds
  BY <1>1, <1>2, <1>3, <1>4 DEF Places!OutletDoc
<1>6. /\ jobs' \in [Request -> Places!RequestState]
      /\ jobs'[q].step = "idle"
      /\ \A p \in Request : p # q => jobs'[p] = jobs[p]
  BY <1>1, <1>3 DEF Places!Idle
<1>7. Places!TypeOK'
  BY <1>1, <1>5, <1>6 DEF OutletInv, Places!TypeOK
<1>8. TablesHaveHomes'
  <2>1. \A u \in Table : tables[u].outlet \in Outlet
    BY <1>3 DEF Places!TableDoc
  <2>2. \A o \in Outlet : outlets'[o].tableIds \subseteq outlets[o].tableIds
    BY <1>4, <1>5
  <2>. QED
    BY <1>1, <1>5, <2>1, <2>2 DEF OutletInv, TablesHaveHomes
<1>9. JobsKnown'
  BY <1>1, <1>5, <1>6, JobFields DEF OutletInv, JobsKnown
<1>10. SavesApart' /\ NamesApart'
  BY <1>1, <1>6 DEF OutletInv, SavesApart, NamesApart
<1>11. ScansKnown'
  <2>. SUFFICES ASSUME NEW c \in Customer, scans[c].step = "outlet",
                       Places!Live(outlets'[tables[scans[c].table].outlet])
       PROVE  scans[c].open
    BY <1>1 DEF OutletInv, ScansKnown
  <2>1. tables[scans[c].table].outlet \in Outlet
    BY <1>3, ScanFields DEF Places!TableDoc
  <2>. QED
    BY <1>5, <2>1 DEF OutletInv, ScansKnown, Places!Live
<1>12. \A u \in Table : /\ JobDue("link", u) => JobDue("link", u)'
                        /\ u # t /\ JobDue("unlink", u) => JobDue("unlink", u)'
  BY <1>1, <1>6 DEF JobDue, t
<1>13. ListsClose'
  <2>. SUFFICES ASSUME NEW o \in Outlet, NEW u \in Table,
                       Places!Live(outlets'[o])
       PROVE  /\ /\ Places!Live(tables[u]) /\ tables[u].outlet = o
                 /\ u \notin outlets'[o].tableIds
                 => JobDue("link", u)' \/ u \in cut
              /\ u \in outlets'[o].tableIds /\ ~Places!Live(tables[u])
                 => JobDue("unlink", u)' \/ u \in cut \cup crossed
    BY <1>1 DEF ListsClose
  <2>1. Places!Live(outlets[o])
    BY <1>5 DEF Places!Live
  <2>2. CASE u = t
    <3>1. ~Places!Live(tables[u])
      BY <1>2, <2>2 DEF Places!Live
    <3>2. u \notin outlets'[o].tableIds
      <4>1. CASE o = home
        BY <1>5, <2>1, <2>2, <4>1
      <4>2. CASE o # home
        <5>1. tables[u].outlet # o
          BY <2>2, <4>2 DEF home
        <5>. QED
          BY <1>5, <4>2, <5>1 DEF OutletInv, TablesHaveHomes
      <4>. QED
        BY <4>1, <4>2
    <3>. QED
      BY <3>1, <3>2
  <2>3. CASE u # t
    <3>1. u \in outlets'[o].tableIds <=> u \in outlets[o].tableIds
      BY <1>4, <1>5, <2>3
    <3>. QED
      BY <1>12, <2>1, <2>3, <3>1 DEF OutletInv, ListsClose
  <2>. QED
    BY <2>2, <2>3
<1>. QED
  BY <1>7, <1>8, <1>9, <1>10, <1>11, <1>13 DEF OutletInv

\* A live table gets another name that the index admits.
LEMMA RenameKeeps ==
  ASSUME NEW t \in Table, NEW n \in Name, OutletInv, Places!Rename(t, n)
  PROVE  OutletInv'
<1>1. /\ UNCHANGED <<outlets, jobs, scans, cut, crossed>>
      /\ Places!IndexAdmits(t, tables[t].outlet, n)
      /\ tables' = [tables EXCEPT ![t].name = n]
  BY DEF Places!Rename
<1>2. tables \in [Table -> Places!TableDoc]
  BY DEF OutletInv, Places!TypeOK
<1>3. /\ tables' \in [Table -> Places!TableDoc]
      /\ tables'[t].name = n
      /\ \A u \in Table : /\ tables'[u].stored = tables[u].stored
                          /\ tables'[u].deleted = tables[u].deleted
                          /\ tables'[u].outlet = tables[u].outlet
                          /\ u # t => tables'[u].name = tables[u].name
  BY <1>1, <1>2 DEF Places!TableDoc
<1>4. Places!TypeOK' /\ TablesHaveHomes' /\ SavesApart'
  BY <1>1, <1>3 DEF OutletInv, Places!TypeOK, TablesHaveHomes, SavesApart
<1>5. JobsKnown'
  BY <1>1, <1>3, JobFields DEF OutletInv, JobsKnown
<1>6. NamesApart'
  BY <1>1, <1>3 DEF OutletInv, NamesApart, Places!IndexAdmits
<1>7. ScansKnown'
  <2>1. \A c \in Customer : scans[c].step = "outlet" => scans[c].table \in Table
    BY ScanFields
  <2>. QED
    BY <1>1, <1>3, <2>1 DEF OutletInv, ScansKnown
<1>8. ListsClose'
  BY <1>1, <1>3 DEF OutletInv, ListsClose, JobDue, Places!Live
<1>. QED
  BY <1>4, <1>5, <1>6, <1>7, <1>8 DEF OutletInv

\* The first write of a removal: the table stays on the list for now.
LEMMA RemovalBegun ==
  ASSUME NEW q \in Request, NEW t \in Table, OutletInv, Places!BeginRemove(q, t)
  PROVE  OutletInv'
<1>. DEFINE j == [step |-> "unlink", table |-> t]
<1>1. /\ UNCHANGED <<outlets, scans, cut, crossed>>
      /\ jobs[q] = Places!Idle /\ tables[t].stored
      /\ tables' = [tables EXCEPT ![t].deleted = TRUE]
      /\ jobs' = [jobs EXCEPT ![q] = j]
  BY DEF Places!BeginRemove, Places!Live
<1>2. tables \in [Table -> Places!TableDoc]
      /\ jobs \in [Request -> Places!RequestState]
      /\ j \in Places!RequestState
  BY DEF OutletInv, Places!TypeOK, Places!RequestState
<1>3. /\ tables' \in [Table -> Places!TableDoc]
      /\ tables'[t].deleted
      /\ \A u \in Table : /\ tables'[u].stored = tables[u].stored
                          /\ tables[u].deleted => tables'[u].deleted
                          /\ tables'[u].outlet = tables[u].outlet
                          /\ tables'[u].name = tables[u].name
                          /\ u # t => tables'[u] = tables[u]
  BY <1>1, <1>2 DEF Places!TableDoc
<1>4. /\ jobs' \in [Request -> Places!RequestState]
      /\ jobs'[q] = j /\ j.step = "unlink" /\ j.table = t
      /\ \A p \in Request : p # q => jobs'[p] = jobs[p]
      /\ jobs[q].step = "idle"
  BY <1>1, <1>2 DEF Places!Idle
<1>. HIDE DEF j
<1>5. Places!TypeOK' /\ TablesHaveHomes' /\ NamesApart' /\ SavesApart'
  BY <1>1, <1>3, <1>4 DEF OutletInv, Places!TypeOK, TablesHaveHomes,
                          NamesApart, SavesApart
<1>6. JobsKnown'
  <2>. SUFFICES ASSUME NEW p \in Request
       PROVE  /\ jobs'[p].step = "save" => /\ ~tables'[jobs'[p].table].stored
                                           /\ outlets'[jobs'[p].outlet].stored
              /\ jobs'[p].step = "link" => tables'[jobs'[p].table].stored
              /\ jobs'[p].step = "unlink" => /\ tables'[jobs'[p].table].stored
                                             /\ tables'[jobs'[p].table].deleted
    BY DEF JobsKnown
  <2>1. CASE p = q
    BY <1>1, <1>3, <1>4, <2>1
  <2>2. CASE p # q
    BY <1>1, <1>3, <1>4, <2>2, JobFields DEF OutletInv, JobsKnown
  <2>. QED
    BY <2>1, <2>2
<1>7. ScansKnown'
  <2>1. \A c \in Customer : scans[c].step = "outlet" => scans[c].table \in Table
    BY ScanFields
  <2>. QED
    BY <1>1, <1>3, <2>1 DEF OutletInv, ScansKnown
<1>8. /\ JobDue("unlink", t)'
      /\ \A u \in Table : /\ JobDue("link", u) => JobDue("link", u)'
                          /\ JobDue("unlink", u) => JobDue("unlink", u)'
  BY <1>4 DEF JobDue
<1>9. ListsClose'
  <2>. SUFFICES ASSUME NEW o \in Outlet, NEW u \in Table,
                       Places!Live(outlets[o])
       PROVE  /\ /\ Places!Live(tables'[u]) /\ tables'[u].outlet = o
                 /\ u \notin outlets[o].tableIds
                 => JobDue("link", u)' \/ u \in cut
              /\ u \in outlets[o].tableIds /\ ~Places!Live(tables'[u])
                 => JobDue("unlink", u)' \/ u \in cut \cup crossed
    BY <1>1 DEF ListsClose
  <2>1. CASE u = t
    BY <1>3, <1>8, <2>1 DEF Places!Live
  <2>2. CASE u # t
    BY <1>3, <1>8, <2>2 DEF OutletInv, ListsClose
  <2>. QED
    BY <2>1, <2>2
<1>. QED
  BY <1>5, <1>6, <1>7, <1>9 DEF OutletInv

\* A scan reads its table, its outlet, and is answered.
LEMMA ScanKeeps ==
  ASSUME NEW c \in Customer, OutletInv,
         \/ \E t \in Table : Places!Scan(c, t)
         \/ Places!ReadOutlet(c) \/ Places!AnswerScan(c)
  PROVE  OutletInv'
<1>1. UNCHANGED <<outlets, tables, jobs, cut, crossed>>
  BY DEF Places!Scan, Places!ReadOutlet, Places!AnswerScan
<1>2. scans \in [Customer -> Places!ScanState]
      /\ outlets \in [Outlet -> Places!OutletDoc]
      /\ tables \in [Table -> Places!TableDoc]
  BY DEF OutletInv, Places!TypeOK
<1>3. TablesHaveHomes' /\ JobsKnown' /\ SavesApart' /\ NamesApart' /\ ListsClose'
  BY <1>1 DEF OutletInv, TablesHaveHomes, JobsKnown, SavesApart, NamesApart,
              ListsClose, JobDue
<1>. SUFFICES /\ scans' \in [Customer -> Places!ScanState]
              /\ ScansKnown'
  BY <1>1, <1>3 DEF OutletInv, Places!TypeOK
<1>4. ASSUME NEW t \in Table, Places!Scan(c, t)
      PROVE  scans' \in [Customer -> Places!ScanState] /\ ScansKnown'
  <2>. DEFINE open == Places!Live(outlets[tables[t].outlet])
              s == [step |-> "outlet", table |-> t, open |-> open]
  <2>1. tables[t].stored /\ scans' = [scans EXCEPT ![c] = s]
    BY <1>4 DEF Places!Scan, Places!Live
  <2>2. open \in BOOLEAN
    BY <1>2, <1>4 DEF Places!Live, Places!OutletDoc, Places!TableDoc
  <2>3. s \in Places!ScanState
    BY <2>2 DEF Places!ScanState
  <2>4. s.step = "outlet" /\ s.table = t /\ s.open = open
    OBVIOUS
  <2>. HIDE DEF s
  <2>5. /\ scans' \in [Customer -> Places!ScanState]
        /\ scans'[c] = s
        /\ \A d \in Customer : d # c => scans'[d] = scans[d]
    BY <1>2, <2>1, <2>3
  <2>6. ScansKnown'
    BY <1>1, <2>1, <2>4, <2>5 DEF OutletInv, ScansKnown
  <2>. QED
    BY <2>5, <2>6
<1>5. CASE Places!ReadOutlet(c)
  <2>. DEFINE s == scans[c]
              step == IF Places!OutletFound(s.table) THEN "found" ELSE "lost"
  <2>1. s.step = "outlet" /\ scans' = [scans EXCEPT ![c].step = step]
    BY <1>5 DEF Places!ReadOutlet
  <2>2. s \in [step : {"outlet", "found", "lost"}, table : Table, open : BOOLEAN]
    BY <2>1, ScanFields
  <2>3. step \in {"found", "lost"} /\ (step = "found" => s.open)
    BY <2>1 DEF OutletInv, ScansKnown, Places!OutletFound
  <2>. HIDE DEF step
  <2>4. [s EXCEPT !.step = step] \in Places!ScanState
    BY <2>2, <2>3 DEF Places!ScanState
  <2>5. /\ scans' \in [Customer -> Places!ScanState]
        /\ scans'[c].step = step /\ scans'[c].open = s.open
        /\ \A d \in Customer : d # c => scans'[d] = scans[d]
    BY <1>2, <2>1, <2>2, <2>4
  <2>6. ScansKnown'
    BY <1>1, <2>3, <2>5 DEF OutletInv, ScansKnown
  <2>. QED
    BY <2>5, <2>6
<1>6. CASE Places!AnswerScan(c)
  <2>1. scans' = [scans EXCEPT ![c] = Places!Idle]
        /\ Places!Idle \in Places!ScanState
    BY <1>6 DEF Places!AnswerScan, Places!ScanState
  <2>2. /\ scans' \in [Customer -> Places!ScanState]
        /\ scans'[c].step = "idle"
        /\ \A d \in Customer : d # c => scans'[d] = scans[d]
    BY <1>2, <2>1 DEF Places!Idle
  <2>3. ScansKnown'
    BY <1>1, <2>2 DEF OutletInv, ScansKnown
  <2>. QED
    BY <2>2, <2>3
<1>. QED
  BY <1>4, <1>5, <1>6

LEMMA OutletInvStep ==
  ASSUME OutletInv, [Places!Next]_outletVars
  PROVE  OutletInv'
<1>1. CASE UNCHANGED outletVars
  BY <1>1 DEF outletVars, OutletInv, Places!TypeOK, TablesHaveHomes, JobsKnown,
              SavesApart, NamesApart, ScansKnown, ListsClose, JobDue
<1>2. CASE Places!Next
  BY <1>2, OutletWritten, CreationBegun, SaveKeeps, LinkKeeps, UnlinkKeeps,
     DeathKeeps, RenameKeeps, RemovalBegun, ScanKeeps DEF Places!Next
<1>. QED
  BY <1>1, <1>2


-------------------------------------------------------------------------------
(* Pushes and their receipts                                               *)

\* What most of the proof needs of the types.
ReceiptShapes ==
  /\ registered \subseteq Token /\ gone \subseteq everGone
  /\ stored \subseteq Ticket /\ ripe \subseteq Ticket
  /\ push \in [groups : SUBSET SUBSET Token, targets : SUBSET Token,
               handed : SUBSET Token, submitted : BOOLEAN]
  /\ expo = [k \in Ticket |-> [token |-> expo[k].token, outcome |-> expo[k].outcome]]
  /\ cron \in [Cron -> [batch : SUBSET Ticket, answers : SUBSET Ticket,
                        checked : SUBSET Ticket, asked : BOOLEAN]]

\* A ticket's record names the token its message went to.
RecordsName ==
  \A k \in Ticket : expo[k].outcome # "unused" => record[k] = expo[k].token

\* Expo reports a token as dead only if its device was gone.
ReportsTrue ==
  \A k \in Ticket : expo[k].outcome = "dead" => expo[k].token \in everGone

\* A cron deletes only the records of receipts that were handled.
CheckedHandled == \A c \in Cron : cron[c].checked \subseteq handled

\* Until a send fails, what was handed over and what is to go make up the whole.
PushWhole ==
  push.submitted => push.handed \cup (UNION push.groups) = push.targets

ReceiptInv ==
  /\ ReceiptShapes /\ RecordsName /\ ReportsTrue /\ CheckedHandled /\ PushWhole
  /\ Receipts!DeadNotForgotten /\ Receipts!OnlyDeadRemoved

LEMMA InitReceiptInv ==
  ASSUME Receipts!Init
  PROVE  ReceiptInv
<1>1. ReceiptShapes
  BY DEF Receipts!Init, Receipts!IdlePush, Receipts!IdleCron, ReceiptShapes
<1>2. RecordsName /\ ReportsTrue /\ CheckedHandled
  BY DEF Receipts!Init, Receipts!IdleCron, RecordsName, ReportsTrue, CheckedHandled
<1>3. PushWhole
  BY DEF Receipts!Init, Receipts!IdlePush, PushWhole
<1>4. Receipts!DeadNotForgotten /\ Receipts!OnlyDeadRemoved
  BY DEF Receipts!Init, Receipts!DeadNotForgotten, Receipts!OnlyDeadRemoved
<1>. QED
  BY <1>1, <1>2, <1>3, <1>4 DEF ReceiptInv

\* Devices come and go.
LEMMA DeviceKeeps ==
  ASSUME ReceiptInv, NEW t \in Token \ Junk,
         Receipts!Uninstall(t) \/ Receipts!Reinstall(t)
  PROVE  ReceiptInv'
<1>1. everGone \subseteq everGone'
      /\ UNCHANGED <<push, expo, record, stored, ripe, cron, removed, handled>>
  BY DEF Receipts!Uninstall, Receipts!Reinstall, Receipts!docs, Receipts!hist
<1>2. ReceiptShapes'
  <2>1. gone' \subseteq everGone' /\ registered' \subseteq Token
    BY DEF ReceiptInv, ReceiptShapes, Receipts!Uninstall, Receipts!Reinstall, Receipts!hist
  <2>. QED
    BY <1>1, <2>1 DEF ReceiptInv, ReceiptShapes
<1>3. RecordsName' /\ ReportsTrue' /\ CheckedHandled' /\ PushWhole'
  BY <1>1 DEF ReceiptInv, RecordsName, ReportsTrue, CheckedHandled, PushWhole
<1>4. Receipts!DeadNotForgotten' /\ Receipts!OnlyDeadRemoved'
  BY <1>1 DEF ReceiptInv, Receipts!DeadNotForgotten, Receipts!OnlyDeadRemoved
<1>. QED
  BY <1>2, <1>3, <1>4 DEF ReceiptInv

\* Expo delivers a message; time passes for a record, which ripens and expires.
LEMMA TicketKeeps ==
  ASSUME ReceiptInv, NEW k \in Ticket,
         Receipts!Delivered(k) \/ Receipts!Ripen(k) \/ Receipts!Expire(k)
  PROVE  ReceiptInv'
<1>1. UNCHANGED <<registered, gone, push, record, cron, everGone, removed>>
      /\ handled \subseteq handled'
  BY DEF Receipts!Delivered, Receipts!Ripen, Receipts!Expire, Receipts!docs, Receipts!hist
<1>2. CheckedHandled' /\ PushWhole' /\ Receipts!OnlyDeadRemoved'
  BY <1>1 DEF ReceiptInv, CheckedHandled, PushWhole, Receipts!OnlyDeadRemoved
<1>3. CASE Receipts!Delivered(k)
  <2>1. PICK o \in IF expo[k].token \in gone THEN {"dead"} ELSE {"other"} :
          expo' = [expo EXCEPT ![k].outcome = o]
    BY <1>3 DEF Receipts!Delivered
  <2>2. expo[k].outcome = "waiting" /\ UNCHANGED <<stored, ripe, handled>>
    BY <1>3 DEF Receipts!Delivered, Receipts!docs, Receipts!hist
  <2>3. expo = [i \in Ticket |-> [token |-> expo[i].token, outcome |-> expo[i].outcome]]
    BY DEF ReceiptInv, ReceiptShapes
  <2>4. expo' = [i \in Ticket |-> [token |-> expo[i].token,
                                   outcome |-> IF i = k THEN o ELSE expo[i].outcome]]
    BY <2>1, <2>3
  <2>5. \A i \in Ticket : expo'[i].token = expo[i].token
                          /\ expo'[i].outcome = IF i = k THEN o ELSE expo[i].outcome
    BY <2>4
  <2>6. expo' = [i \in Ticket |-> [token |-> expo'[i].token, outcome |-> expo'[i].outcome]]
    BY <2>4, <2>5
  <2>7. ReceiptShapes'
    BY <1>1, <2>2, <2>6 DEF ReceiptInv, ReceiptShapes
  <2>8. RecordsName'
    BY <1>1, <2>2, <2>5 DEF ReceiptInv, RecordsName
  <2>9. ReportsTrue'
    <3>1. o = "dead" => expo[k].token \in everGone
      BY DEF ReceiptInv, ReceiptShapes
    <3>. QED
      BY <1>1, <2>5, <3>1 DEF ReceiptInv, ReportsTrue
  <2>10. Receipts!DeadNotForgotten'
    BY <2>2 DEF ReceiptInv, Receipts!DeadNotForgotten
  <2>. QED
    BY <1>2, <2>7, <2>8, <2>9, <2>10 DEF ReceiptInv
<1>4. CASE Receipts!Ripen(k) \/ Receipts!Expire(k)
  <2>1. expo' = expo
    BY <1>4 DEF Receipts!Ripen, Receipts!Expire
  <2>2. stored' \subseteq Ticket /\ ripe' \subseteq Ticket
    BY <1>4 DEF ReceiptInv, ReceiptShapes, Receipts!Ripen, Receipts!Expire, Receipts!docs
  <2>3. ReceiptShapes'
    BY <1>1, <2>1, <2>2 DEF ReceiptInv, ReceiptShapes
  <2>4. RecordsName' /\ ReportsTrue'
    BY <1>1, <2>1 DEF ReceiptInv, RecordsName, ReportsTrue
  <2>5. Receipts!DeadNotForgotten'
    BY <1>4 DEF ReceiptInv, Receipts!DeadNotForgotten, Receipts!Ripen, Receipts!Expire,
                Receipts!docs, Receipts!hist
  <2>. QED
    BY <1>2, <2>3, <2>4, <2>5 DEF ReceiptInv
<1>. QED
  BY <1>3, <1>4

\* The groups of a push make up all tokens there are.
LEMMA GroupsCover ==
  ASSUME registered \subseteq Token, NEW badge
  PROVE  /\ Receipts!GroupsByBadge(badge) \in SUBSET SUBSET Token
         /\ UNION Receipts!GroupsByBadge(badge) = registered
BY DEF Receipts!GroupsByBadge

\* A push begins, ends, or loses a group.
LEMMA PushKeeps ==
  ASSUME ReceiptInv,
         \/ Receipts!BeginPush
         \/ Receipts!EndPush
         \/ \E group \in push.groups : Receipts!SendFails(group)
  PROVE  ReceiptInv'
<1>1. UNCHANGED <<registered, gone, expo, record, stored, ripe, cron, everGone, removed, handled>>
  BY DEF Receipts!BeginPush, Receipts!EndPush, Receipts!SendFails, Receipts!docs, Receipts!hist
<1>2. push' \in [groups : SUBSET SUBSET Token, targets : SUBSET Token,
                 handed : SUBSET Token, submitted : BOOLEAN]
      /\ PushWhole'
  <2>1. CASE Receipts!BeginPush
    <3>1. PICK badge : push' = [Receipts!IdlePush EXCEPT !.targets = registered,
                                  !.groups = Receipts!GroupsByBadge(badge)]
      BY <2>1 DEF Receipts!BeginPush
    <3>2. push' = [groups |-> Receipts!GroupsByBadge(badge), targets |-> registered,
                   handed |-> {}, submitted |-> TRUE]
      BY <3>1 DEF Receipts!IdlePush
    <3>3. registered \subseteq Token
      BY DEF ReceiptInv, ReceiptShapes
    <3>. QED
      BY <3>2, <3>3, GroupsCover DEF PushWhole
  <2>2. CASE Receipts!EndPush
    BY <2>2 DEF Receipts!EndPush, Receipts!IdlePush, PushWhole
  <2>3. ASSUME NEW group \in push.groups, Receipts!SendFails(group)
        PROVE  push' \in [groups : SUBSET SUBSET Token, targets : SUBSET Token,
                          handed : SUBSET Token, submitted : BOOLEAN]
               /\ PushWhole'
    BY <2>3 DEF ReceiptInv, ReceiptShapes, Receipts!SendFails, Receipts!AllSubmitted, PushWhole
  <2>. QED
    BY <2>1, <2>2, <2>3
<1>3. ReceiptShapes'
  BY <1>1, <1>2 DEF ReceiptInv, ReceiptShapes
<1>4. RecordsName' /\ ReportsTrue' /\ CheckedHandled'
  BY <1>1 DEF ReceiptInv, RecordsName, ReportsTrue, CheckedHandled
<1>5. Receipts!DeadNotForgotten' /\ Receipts!OnlyDeadRemoved'
  BY <1>1 DEF ReceiptInv, Receipts!DeadNotForgotten, Receipts!OnlyDeadRemoved
<1>. QED
  BY <1>2, <1>3, <1>4, <1>5 DEF ReceiptInv

\* A group is handed over: each new record names the token of its message, and
\* the tokens removed are those Expo refused.
LEMMA SendKeeps ==
  ASSUME ReceiptInv, NEW group \in push.groups, NEW tokens, Receipts!SendGroup(group, tokens)
  PROVE  ReceiptInv'
<1>. DEFINE chunk == Receipts!Messages(tokens)
            accepted == {i \in DOMAIN chunk : chunk[i] \notin gone}
            dead == {Receipts!TokenOfTicket(tokens, i) : i \in DOMAIN chunk \ accepted}
<1>1. \A i : Receipts!TokenOfTicket(tokens, i) = chunk[i]
  BY DEF Receipts!TokenOfTicket
<1>2. dead \subseteq everGone
  BY <1>1 DEF ReceiptInv, ReceiptShapes
<1>3. PICK id \in [accepted -> {k \in Ticket : expo[k].outcome = "unused"}],
          removals \in SUBSET dead, saved \in SUBSET Ticket :
        /\ expo' = [k \in Ticket |->
             IF \E i \in accepted : id[i] = k
             THEN [token |-> chunk[CHOOSE i \in accepted : id[i] = k], outcome |-> "waiting"]
             ELSE expo[k]]
        /\ stored' = stored \cup saved
        /\ record' = [k \in Ticket |->
             IF \E i \in accepted : id[i] = k
             THEN Receipts!TokenOfTicket(tokens, CHOOSE i \in accepted : id[i] = k)
             ELSE record[k]]
        /\ registered' = registered \ removals
        /\ removed' = removed \cup removals
  BY DEF Receipts!SendGroup
<1>4. push' = [push EXCEPT !.groups = @ \ {group}, !.handed = @ \cup group,
                           !.submitted = push.submitted /\ TRUE]
      /\ UNCHANGED <<gone, ripe, cron, everGone, handled>>
  BY DEF Receipts!SendGroup, Receipts!AllSubmitted
<1>. HIDE DEF chunk, accepted, dead
<1>5. ASSUME NEW k \in Ticket
      PROVE  \/ expo'[k] = expo[k] /\ record'[k] = record[k]
             \/ /\ expo'[k] = [token |-> record'[k], outcome |-> "waiting"]
                /\ expo'[k].token = record'[k] /\ expo'[k].outcome = "waiting"
  <2>1. CASE \E i \in accepted : id[i] = k
    <3>1. expo'[k] = [token |-> chunk[CHOOSE i \in accepted : id[i] = k], outcome |-> "waiting"]
      BY <1>3, <2>1
    <3>2. record'[k] = chunk[CHOOSE i \in accepted : id[i] = k]
      BY <1>1, <1>3, <2>1
    <3>. QED
      BY <3>1, <3>2
  <2>2. CASE ~\E i \in accepted : id[i] = k
    BY <1>3, <2>2
  <2>. QED
    BY <2>1, <2>2
<1>6. expo = [k \in Ticket |-> [token |-> expo[k].token, outcome |-> expo[k].outcome]]
  BY DEF ReceiptInv, ReceiptShapes
<1>7. \A k \in Ticket : expo[k] = [token |-> expo[k].token, outcome |-> expo[k].outcome]
  BY <1>6
<1>8. \A k \in Ticket : expo'[k] = [token |-> expo'[k].token, outcome |-> expo'[k].outcome]
  BY <1>5, <1>7
<1>9. expo' = [k \in Ticket |-> expo'[k]]
  BY <1>3
<1>10. expo' = [k \in Ticket |-> [token |-> expo'[k].token, outcome |-> expo'[k].outcome]]
  BY <1>8, <1>9
<1>11. push' \in [groups : SUBSET SUBSET Token, targets : SUBSET Token,
                  handed : SUBSET Token, submitted : BOOLEAN]
       /\ PushWhole'
  <2>1. push \in [groups : SUBSET SUBSET Token, targets : SUBSET Token,
                  handed : SUBSET Token, submitted : BOOLEAN]
        /\ PushWhole
    BY DEF ReceiptInv, ReceiptShapes
  <2>2. push' = [groups |-> push.groups \ {group}, targets |-> push.targets,
                 handed |-> push.handed \cup group, submitted |-> push.submitted]
    BY <1>4, <2>1
  <2>3. group \in SUBSET Token
    BY <2>1
  <2>4. (UNION (push.groups \ {group})) \cup group = UNION push.groups
    OBVIOUS
  <2>5. PushWhole'
    BY <2>1, <2>2, <2>4 DEF PushWhole
  <2>. QED
    BY <2>1, <2>2, <2>3, <2>5
<1>12. ReceiptShapes'
  BY <1>3, <1>4, <1>10, <1>11 DEF ReceiptInv, ReceiptShapes
<1>13. RecordsName'
  BY <1>5 DEF ReceiptInv, RecordsName
<1>14. ReportsTrue'
  BY <1>4, <1>5 DEF ReceiptInv, ReportsTrue
<1>15. CheckedHandled' /\ Receipts!DeadNotForgotten' /\ Receipts!OnlyDeadRemoved'
  BY <1>2, <1>3, <1>4 DEF ReceiptInv, CheckedHandled, Receipts!DeadNotForgotten,
                          Receipts!OnlyDeadRemoved
<1>. QED
  BY <1>11, <1>12, <1>13, <1>14, <1>15 DEF ReceiptInv

\* An instance of the cron reads a batch, asks, handles, deletes, or dies.
LEMMA CronKeeps ==
  ASSUME ReceiptInv, NEW c \in Cron,
         \/ Receipts!ReadBatch(c) \/ Receipts!Ask(c)
         \/ Receipts!Delete(c) \/ Receipts!CronDies(c)
         \/ \E k \in Ticket, ok \in BOOLEAN : Receipts!Handle(c, k, ok)
  PROVE  ReceiptInv'
<1>1. UNCHANGED <<gone, push, expo, record, ripe, everGone>>
  BY DEF Receipts!ReadBatch, Receipts!Ask, Receipts!Delete, Receipts!CronDies, Receipts!Handle,
         Receipts!docs, Receipts!hist
<1>2. RecordsName' /\ ReportsTrue' /\ PushWhole'
  BY <1>1 DEF ReceiptInv, RecordsName, ReportsTrue, PushWhole
<1>3. cron \in [Cron -> [batch : SUBSET Ticket, answers : SUBSET Ticket,
                         checked : SUBSET Ticket, asked : BOOLEAN]]
      /\ stored \subseteq Ticket /\ ripe \subseteq Ticket
      /\ registered \subseteq Token
  BY DEF ReceiptInv, ReceiptShapes
<1>4. CASE \/ Receipts!ReadBatch(c) \/ Receipts!Ask(c)
           \/ Receipts!Delete(c) \/ Receipts!CronDies(c)
  <2>1. UNCHANGED <<registered, removed, handled>> /\ stored' \subseteq stored
    BY <1>4 DEF Receipts!ReadBatch, Receipts!Ask, Receipts!Delete, Receipts!CronDies,
                Receipts!docs, Receipts!hist
  <2>2. cron' \in [Cron -> [batch : SUBSET Ticket, answers : SUBSET Ticket,
                            checked : SUBSET Ticket, asked : BOOLEAN]]
        /\ \A d \in Cron : cron'[d].checked \subseteq cron[d].checked
    <3>1. CASE Receipts!ReadBatch(c)
      BY <1>3, <3>1 DEF Receipts!ReadBatch
    <3>2. CASE Receipts!Ask(c)
      BY <1>3, <3>2 DEF Receipts!Ask
    <3>3. CASE Receipts!Delete(c) \/ Receipts!CronDies(c)
      <4>1. cron' = [cron EXCEPT ![c] = [batch |-> {}, answers |-> {}, checked |-> {},
                                         asked |-> FALSE]]
        BY <3>3 DEF Receipts!Delete, Receipts!CronDies, Receipts!IdleCron
      <4>. QED
        BY <1>3, <4>1
    <3>. QED
      BY <1>4, <3>1, <3>2, <3>3
  <2>3. ReceiptShapes'
    BY <1>1, <2>1, <2>2 DEF ReceiptInv, ReceiptShapes
  <2>4. CheckedHandled'
    BY <2>1, <2>2 DEF ReceiptInv, CheckedHandled
  <2>5. stored' = stored \/ stored' = stored \ cron[c].checked
    BY <1>4 DEF Receipts!ReadBatch, Receipts!Ask, Receipts!Delete, Receipts!CronDies,
                Receipts!docs
  <2>6. cron[c].checked \subseteq handled
    BY DEF ReceiptInv, CheckedHandled
  <2>7. Receipts!DeadNotForgotten' /\ Receipts!OnlyDeadRemoved'
    BY <1>1, <2>1, <2>5, <2>6 DEF ReceiptInv, Receipts!DeadNotForgotten,
                                  Receipts!OnlyDeadRemoved
  <2>. QED
    BY <1>2, <2>3, <2>4, <2>7 DEF ReceiptInv
<1>5. ASSUME NEW k \in Ticket, NEW ok \in BOOLEAN, Receipts!Handle(c, k, ok)
      PROVE  ReceiptInv'
  <2>1. /\ handled' = IF ok THEN handled \cup {k} ELSE handled
        /\ stored' = stored /\ registered' \subseteq registered
    BY <1>5 DEF Receipts!Handle, Receipts!docs
  <2>2. removed' \subseteq removed \cup everGone
    <3>1. expo[k].outcome = "dead" => record[k] \in everGone
      BY DEF ReceiptInv, RecordsName, ReportsTrue
    <3>. QED
      BY <1>5, <3>1 DEF Receipts!Handle
  <2>3. cron' \in [Cron -> [batch : SUBSET Ticket, answers : SUBSET Ticket,
                            checked : SUBSET Ticket, asked : BOOLEAN]]
        /\ \A d \in Cron :
             cron'[d].checked \subseteq cron[d].checked \cup (IF ok THEN {k} ELSE {})
    <3>. DEFINE checked == IF ok THEN cron[c].checked \cup {k} ELSE cron[c].checked
    <3>1. cron' = [cron EXCEPT ![c].answers = cron[c].answers \ {k}, ![c].checked = checked]
      BY <1>5 DEF Receipts!Handle, Receipts!Checked
    <3>2. checked \in SUBSET Ticket
          /\ checked \subseteq cron[c].checked \cup (IF ok THEN {k} ELSE {})
      BY <1>3
    <3>. HIDE DEF checked
    <3>3. \A d \in Cron \ {c} : cron'[d] = cron[d]
      BY <1>3, <3>1
    <3>4. cron'[c] = [batch |-> cron[c].batch, answers |-> cron[c].answers \ {k},
                      checked |-> checked, asked |-> cron[c].asked]
      BY <1>3, <3>1
    <3>5. cron' \in [Cron -> [batch : SUBSET Ticket, answers : SUBSET Ticket,
                              checked : SUBSET Ticket, asked : BOOLEAN]]
      BY <1>3, <3>1, <3>2
    <3>. QED
      BY <3>2, <3>3, <3>4, <3>5
  <2>4. ReceiptShapes'
    BY <1>1, <2>1, <2>3 DEF ReceiptInv, ReceiptShapes
  <2>5. CheckedHandled'
    BY <2>1, <2>3 DEF ReceiptInv, CheckedHandled
  <2>6. Receipts!DeadNotForgotten' /\ Receipts!OnlyDeadRemoved'
    BY <1>1, <2>1, <2>2 DEF ReceiptInv, Receipts!DeadNotForgotten, Receipts!OnlyDeadRemoved
  <2>. QED
    BY <1>2, <2>4, <2>5, <2>6 DEF ReceiptInv
<1>. QED
  BY <1>4, <1>5

LEMMA ReceiptInvStep ==
  ASSUME ReceiptInv, [Receipts!Next]_receiptVars
  PROVE  ReceiptInv'
<1>1. CASE UNCHANGED receiptVars
  <2>1. UNCHANGED <<registered, gone, push, expo, record, stored, ripe, cron, everGone,
                    removed, handled>>
    BY <1>1 DEF receiptVars
  <2>2. ReceiptShapes' /\ RecordsName' /\ ReportsTrue' /\ CheckedHandled' /\ PushWhole'
    BY <2>1 DEF ReceiptInv, ReceiptShapes, RecordsName, ReportsTrue, CheckedHandled, PushWhole
  <2>. QED
    BY <2>1, <2>2 DEF ReceiptInv, Receipts!DeadNotForgotten, Receipts!OnlyDeadRemoved
<1>2. CASE Receipts!Next
  BY <1>2, DeviceKeeps, TicketKeeps, PushKeeps, SendKeeps, CronKeeps DEF Receipts!Next
<1>. QED
  BY <1>1, <1>2

LEMMA ReceiptInvImplies ==
  ASSUME ReceiptInv
  PROVE  /\ Receipts!DeadNotForgotten /\ Receipts!OnlyDeadRemoved
         /\ Receipts!SubmittedToAll
<1>1. Receipts!SubmittedToAll
  BY DEF ReceiptInv, PushWhole, Receipts!SubmittedToAll
<1>. QED
  BY <1>1 DEF ReceiptInv

\* A filter keeps the tokens that are Expo's.
LEMMA MessagesValid ==
  ASSUME NEW T, NEW tokens \in Seq(T)
  PROVE  Receipts!Messages(tokens) \in Seq(T \ Junk)
<1>. DEFINE S == Seq(T \ Junk)
            n == Len(tokens)
            add(sent, i) == IF tokens[i] \in Junk THEN sent ELSE Append(sent, tokens[i])
            step == [p \in Nat \X S |-> IF p[1] \in 1..n THEN add(p[2], p[1]) ELSE p[2]]
            Sent(f) == f = [i \in 0..n |-> IF i = 0 THEN <<>> ELSE add(f[i - 1], i)]
            h == CHOOSE f : Sent(f)
<1>1. n \in Nat /\ <<>> \in S
  OBVIOUS
<1>2. \A i \in 1..n, sent \in S : add(sent, i) \in S
  OBVIOUS
<1>3. step \in Steps(S)
  <2>. HIDE DEF S, n, add
  <2>. QED
    BY <1>2 DEF Steps
<1>4. \A i \in 1..n, sent \in S : step[<<i, sent>>] = add(sent, i)
  <2>. HIDE DEF S, add
  <2>. QED
    BY <1>1
<1>5. Receipts!Messages(tokens) = h[n]
  BY DEF Receipts!Messages
<1>. HIDE DEF S, n, step, add
<1>6. PICK f : Iterates(f, S, <<>>, step, n)
  BY <1>1, <1>3, IterationExists
<1>7. f = [i \in 0..n |-> f[i]] /\ f[0] = <<>>
      /\ \A i \in 1..n : f[i - 1] \in S /\ f[i] = step[<<i, f[i - 1]>>]
  BY <1>1, <1>6 DEF Iterates
<1>8. \A i \in 0..n : f[i] = IF i = 0 THEN <<>> ELSE add(f[i - 1], i)
  BY <1>1, <1>4, <1>7
<1>9. Sent(f)
  BY <1>7, <1>8
<1>10. Sent(h)
  <2>. HIDE DEF Sent
  <2>. QED
    BY <1>9
<1>. HIDE DEF h
<1>11. h[0] = <<>> /\ \A i \in 1..n : h[i] = add(h[i - 1], i)
  BY <1>1, <1>10
<1>12. h[0] \in S /\ \A i \in 1..n : h[i - 1] \in S => h[i] \in S
  BY <1>1, <1>2, <1>11
<1>13. h[n] \in S
  BY <1>1, <1>12, StaysWithin
<1>. QED
  BY <1>5, <1>13 DEF S

\* The types beside ReceiptShapes.
ReceiptRest ==
  /\ everGone \subseteq Token /\ handled \subseteq Ticket
  /\ push.handed \subseteq push.targets /\ UNION push.groups \subseteq push.targets
  /\ expo \in [Ticket -> [token : Token \cup {None}, outcome : Receipts!Outcome]]
  /\ record \in [Ticket -> (Token \ Junk) \cup {None}]

LEMMA InitReceiptRest ==
  ASSUME Receipts!Init
  PROVE  ReceiptRest
BY DEF Receipts!Init, Receipts!IdlePush, Receipts!Outcome, ReceiptRest

LEMMA ReceiptTypes ==
  ASSUME ReceiptInv, ReceiptRest
  PROVE  Receipts!TypeOK
<1>1. removed \subseteq Token
  BY DEF ReceiptInv, ReceiptRest, Receipts!OnlyDeadRemoved
<1>2. /\ push.groups \subseteq SUBSET Token /\ push.targets \subseteq Token
      /\ push.submitted \in BOOLEAN
  BY DEF ReceiptInv, ReceiptShapes
<1>. QED
  BY <1>1, <1>2 DEF ReceiptInv, ReceiptShapes, ReceiptRest, Receipts!TypeOK

LEMMA SameTokenCount == \A S : Receipts!Cardinality(S) = Cardinality(S)
BY DEF Cardinality, Receipts!Cardinality

\* What is sent of a group are tokens of Expo's.
LEMMA SendTyped ==
  ASSUME ReceiptInv, ReceiptRest, NEW group \in push.groups,
         NEW tokens \in Receipts!Orders(group), Receipts!SendGroup(group, tokens)
  PROVE  ReceiptRest'
<1>. DEFINE chunk == Receipts!Messages(tokens)
            accepted == {i \in DOMAIN chunk : chunk[i] \notin gone}
<1>1. group \subseteq Token
  BY DEF ReceiptInv, ReceiptShapes
<1>2. Receipts!Cardinality(group) \in Nat
  BY <1>1, FiniteAssumption, FS_Subset, FS_CardinalityType, SameTokenCount
<1>3. tokens \in Seq(Token)
  <2>1. tokens \in [1..Receipts!Cardinality(group) -> group]
    BY DEF Receipts!Orders
  <2>. QED
    BY <1>1, <1>2, <2>1
<1>4. chunk \in Seq(Token \ Junk)
  BY <1>3, MessagesValid
<1>5. PICK id \in [accepted -> {k \in Ticket : expo[k].outcome = "unused"}] :
        /\ expo' = [k \in Ticket |->
             IF \E i \in accepted : id[i] = k
             THEN [token |-> chunk[CHOOSE i \in accepted : id[i] = k], outcome |-> "waiting"]
             ELSE expo[k]]
        /\ record' = [k \in Ticket |->
             IF \E i \in accepted : id[i] = k
             THEN chunk[CHOOSE i \in accepted : id[i] = k]
             ELSE record[k]]
  BY DEF Receipts!SendGroup, Receipts!TokenOfTicket
<1>6. push' = [push EXCEPT !.groups = @ \ {group}, !.handed = @ \cup group,
                           !.submitted = push.submitted /\ TRUE]
      /\ UNCHANGED <<everGone, handled>>
  BY DEF Receipts!SendGroup, Receipts!AllSubmitted
<1>7. \A i \in accepted : chunk[i] \in Token \ Junk
  BY <1>4
<1>. HIDE DEF chunk, accepted
<1>8. ASSUME NEW k \in Ticket
      PROVE  /\ expo'[k] \in [token : Token \cup {None}, outcome : Receipts!Outcome]
             /\ record'[k] \in (Token \ Junk) \cup {None}
  <2>1. CASE \E i \in accepted : id[i] = k
    <3>1. chunk[CHOOSE i \in accepted : id[i] = k] \in Token \ Junk
      BY <1>7, <2>1
    <3>. QED
      BY <1>5, <2>1, <3>1 DEF Receipts!Outcome
  <2>2. CASE ~\E i \in accepted : id[i] = k
    BY <1>5, <2>2 DEF ReceiptRest
  <2>. QED
    BY <2>1, <2>2
<1>9. /\ expo' \in [Ticket -> [token : Token \cup {None}, outcome : Receipts!Outcome]]
      /\ record' \in [Ticket -> (Token \ Junk) \cup {None}]
  BY <1>5, <1>8
<1>10. push'.handed \subseteq push'.targets /\ UNION push'.groups \subseteq push'.targets
  BY <1>6 DEF ReceiptInv, ReceiptShapes, ReceiptRest
<1>. QED
  BY <1>6, <1>9, <1>10 DEF ReceiptRest

LEMMA PushTyped ==
  ASSUME ReceiptInv, ReceiptRest,
         \/ Receipts!BeginPush
         \/ Receipts!EndPush
         \/ \E group \in push.groups : Receipts!SendFails(group)
  PROVE  ReceiptRest'
<1>1. UNCHANGED <<expo, record, everGone, handled>>
  BY DEF Receipts!BeginPush, Receipts!EndPush, Receipts!SendFails, Receipts!docs, Receipts!hist
<1>2. push'.handed \subseteq push'.targets /\ UNION push'.groups \subseteq push'.targets
  <2>1. CASE Receipts!BeginPush
    <3>1. PICK badge : push' = [Receipts!IdlePush EXCEPT !.targets = registered,
                                  !.groups = Receipts!GroupsByBadge(badge)]
      BY <2>1 DEF Receipts!BeginPush
    <3>2. push' = [groups |-> Receipts!GroupsByBadge(badge), targets |-> registered,
                   handed |-> {}, submitted |-> TRUE]
      BY <3>1 DEF Receipts!IdlePush
    <3>3. registered \subseteq Token
      BY DEF ReceiptInv, ReceiptShapes
    <3>. QED
      BY <3>2, <3>3, GroupsCover
  <2>2. CASE Receipts!EndPush
    BY <2>2 DEF Receipts!EndPush, Receipts!IdlePush
  <2>3. ASSUME NEW group \in push.groups, Receipts!SendFails(group)
        PROVE  push'.handed \subseteq push'.targets /\ UNION push'.groups \subseteq push'.targets
    BY <2>3 DEF ReceiptInv, ReceiptShapes, ReceiptRest, Receipts!SendFails
  <2>. QED
    BY <2>1, <2>2, <2>3
<1>. QED
  BY <1>1, <1>2 DEF ReceiptRest

LEMMA ReceiptRestStep ==
  ASSUME ReceiptInv, ReceiptRest, [Receipts!Next]_receiptVars
  PROVE  ReceiptRest'
<1>1. CASE UNCHANGED receiptVars
  BY <1>1 DEF receiptVars, ReceiptRest
<1>2. ASSUME NEW t \in Token \ Junk, Receipts!Uninstall(t) \/ Receipts!Reinstall(t)
      PROVE  ReceiptRest'
  BY <1>2 DEF ReceiptRest, Receipts!Uninstall, Receipts!Reinstall, Receipts!docs, Receipts!hist
<1>3. ASSUME NEW k \in Ticket, Receipts!Delivered(k)
      PROVE  ReceiptRest'
  <2>1. PICK o \in {"dead", "other"} : expo' = [expo EXCEPT ![k].outcome = o]
    BY <1>3 DEF Receipts!Delivered
  <2>2. UNCHANGED <<push, record, everGone, handled>>
    BY <1>3 DEF Receipts!Delivered, Receipts!docs, Receipts!hist
  <2>3. expo' \in [Ticket -> [token : Token \cup {None}, outcome : Receipts!Outcome]]
    BY <2>1 DEF ReceiptRest, Receipts!Outcome
  <2>. QED
    BY <2>2, <2>3 DEF ReceiptRest
<1>4. ASSUME NEW k \in Ticket, Receipts!Ripen(k) \/ Receipts!Expire(k)
      PROVE  ReceiptRest'
  BY <1>4 DEF ReceiptRest, Receipts!Ripen, Receipts!Expire, Receipts!docs, Receipts!hist
<1>5. ASSUME NEW c \in Cron,
             \/ Receipts!ReadBatch(c) \/ Receipts!Ask(c)
             \/ Receipts!Delete(c) \/ Receipts!CronDies(c)
             \/ \E k \in Ticket, ok \in BOOLEAN : Receipts!Handle(c, k, ok)
      PROVE  ReceiptRest'
  BY <1>5 DEF ReceiptRest, Receipts!ReadBatch, Receipts!Ask, Receipts!Delete, Receipts!CronDies,
              Receipts!Handle, Receipts!docs, Receipts!hist
<1>6. CASE Receipts!Next
  BY <1>2, <1>3, <1>4, <1>5, <1>6, SendTyped, PushTyped DEF Receipts!Next
<1>. QED
  BY <1>1, <1>6

-------------------------------------------------------------------------------
(* Who finds a task where                                                  *)

\* Something new is marked only for those who may see the task.
UnreadInAudience == Lists!Live => unread \subseteq Lists!Audience(task)

\* While nothing was moved or linked otherwise, whoever has the task on the
\* screen has access to its outlet: the assignees, and the creator.
PartiesHaveAccess ==
  Lists!Live /\ settled /\ task.outlet # None =>
    \A u \in task.assignees \cup {task.creator} : Lists!HasOutletAccess(u, task.outlet)

ListInv == Lists!TypeOK /\ UnreadInAudience /\ PartiesHaveAccess

LEMMA InitListInv ==
  ASSUME Lists!Init
  PROVE  ListInv
BY DEF Lists!Init, ListInv, Lists!TypeOK, Lists!Live, Lists!Person,
       UnreadInAudience, PartiesHaveAccess

\* Every write to the timeline marks the task for its audience alone.
LEMMA AppendMarksAudience ==
  ASSUME NEW t \in Lists!Task, NEW u \in Lists!Person, Lists!TypeOK, Lists!Append(t, u)
  PROVE  task' = t /\ unread' \subseteq Lists!Audience(t) /\ unread' \subseteq Lists!Person
<1>1. Lists!Audience(t) \subseteq Lists!Person
  BY DEF Lists!Audience, Lists!Task, Lists!Person
<1>. QED
  BY <1>1 DEF Lists!Append, Lists!Noted

\* A new task's assignees and creator have access to its outlet.
LEMMA CreateKeepsLists ==
  ASSUME ListInv, NEW u \in Lists!Person, NEW o \in Site \cup {None},
         NEW set \in SUBSET Lists!Person, NEW first \in Lists!Person \cup {None},
         NEW status \in {"OPEN", "COMPLETED"}, NEW recurring \in BOOLEAN,
         Lists!Create(u, o, set, first, status, recurring)
  PROVE  ListInv'
<1>. DEFINE t == [outlet |-> o, creator |-> u, assignees |-> set, delegatedTo |-> None,
                  status |-> status, recurring |-> recurring]
<1>1. t \in Lists!Task /\ [t EXCEPT !.delegatedTo = first] \in Lists!Task
  BY DEF Lists!Task
<1>2. managers' = managers /\ linked' = linked /\ settled' = TRUE
  BY DEF Lists!Create
<1>3. task' \in Lists!Task /\ unread' \subseteq Lists!Audience(task')
      /\ unread' \subseteq Lists!Person
  <2>1. CASE set = {}
    BY <1>1, <2>1 DEF Lists!Create
  <2>2. CASE set # {}
    <3>1. Lists!Append([t EXCEPT !.delegatedTo = first], u)
      BY <2>2 DEF Lists!Create
    <3>. HIDE DEF t
    <3>. QED
      BY <1>1, <3>1, AppendMarksAudience DEF ListInv
  <2>. QED
    BY <2>1, <2>2
<1>4. task'.outlet = o /\ task'.creator = u /\ task'.assignees = set
  BY DEF Lists!Create, Lists!Append
<1>5. o # None => \A a \in set \cup {u} : Lists!HasOutletAccess(a, o)
  BY DEF Lists!Create, Lists!AssigneesAllowed, Lists!HasOutletAccess
<1>6. Lists!TypeOK'
  BY <1>2, <1>3 DEF ListInv, Lists!TypeOK
<1>7. UnreadInAudience'
  BY <1>3 DEF UnreadInAudience
<1>8. PartiesHaveAccess'
  BY <1>2, <1>4, <1>5 DEF PartiesHaveAccess, Lists!HasOutletAccess
<1>. QED
  BY <1>6, <1>7, <1>8 DEF ListInv

\* A write that keeps the outlet and the creator keeps what is known of them
\* when every assignee it adds has access.
LEMMA AppendKeepsLists ==
  ASSUME ListInv, Lists!Live, NEW u \in Lists!Person, NEW t \in Lists!Task,
         Lists!Append(t, u), UNCHANGED <<managers, linked, settled>>,
         t.outlet = task.outlet, t.creator = task.creator,
         t.outlet # None =>
           \A a \in t.assignees \ task.assignees : Lists!HasOutletAccess(a, t.outlet)
  PROVE  ListInv'
<1>1. task' = t /\ unread' \subseteq Lists!Audience(t) /\ unread' \subseteq Lists!Person
  BY AppendMarksAudience DEF ListInv
<1>2. Lists!TypeOK'
  BY <1>1 DEF ListInv, Lists!TypeOK
<1>3. UnreadInAudience'
  BY <1>1 DEF UnreadInAudience
<1>4. PartiesHaveAccess'
  BY <1>1 DEF ListInv, PartiesHaveAccess, Lists!HasOutletAccess
<1>. QED
  BY <1>2, <1>3, <1>4 DEF ListInv

\* update, delegation and comments.
LEMMA WriteKeepsLists ==
  ASSUME ListInv, NEW u \in Lists!Person,
         \/ \E status \in {"OPEN", "COMPLETED"} : Lists!SetStatus(u, status)
         \/ \E set \in SUBSET Lists!Person : Lists!Assign(u, set)
         \/ \E to \in Lists!Person : Lists!Delegate(u, to)
         \/ Lists!ClearDelegation(u)
         \/ Lists!Comment(u)
  PROVE  ListInv'
<1>0. task \in Lists!Task /\ Lists!Live
  BY DEF ListInv, Lists!TypeOK, Lists!Live, Lists!SetStatus, Lists!Assign, Lists!Delegate,
         Lists!ClearDelegation, Lists!Comment, Lists!MayUpdate
<1>1. ASSUME NEW status \in {"OPEN", "COMPLETED"}, Lists!SetStatus(u, status)
      PROVE  ListInv'
  <2>1. [task EXCEPT !.status = status] \in Lists!Task
    BY <1>0 DEF Lists!Task
  <2>2. LET t == [task EXCEPT !.status = status]
        IN t.outlet = task.outlet /\ t.creator = task.creator /\ t.assignees = task.assignees
    BY <1>0 DEF Lists!Task
  <2>. QED
    BY <1>0, <1>1, <2>1, <2>2, AppendKeepsLists DEF Lists!SetStatus
<1>2. ASSUME NEW set \in SUBSET Lists!Person, Lists!Assign(u, set)
      PROVE  ListInv'
  <2>1. [task EXCEPT !.assignees = set] \in Lists!Task
    BY <1>0 DEF Lists!Task
  <2>2. LET t == [task EXCEPT !.assignees = set]
        IN t.outlet = task.outlet /\ t.creator = task.creator /\ t.assignees = set
    BY <1>0 DEF Lists!Task
  <2>3. task.outlet # None => \A a \in set : Lists!HasOutletAccess(a, task.outlet)
    BY <1>2 DEF Lists!Assign, Lists!AssigneesAllowed, Lists!HasOutletAccess
  <2>. QED
    BY <1>0, <1>2, <2>1, <2>2, <2>3, AppendKeepsLists DEF Lists!Assign
<1>3. ASSUME NEW to \in Lists!Person, Lists!Delegate(u, to)
      PROVE  ListInv'
  <2>. DEFINE t == [task EXCEPT !.delegatedTo = to, !.assignees = @ \cup {to}]
  <2>1. t \in Lists!Task
    BY <1>0 DEF Lists!Task
  <2>2. t.outlet = task.outlet /\ t.creator = task.creator
        /\ t.assignees = task.assignees \cup {to}
    BY <1>0 DEF Lists!Task
  <2>3. Lists!HasOutletAccess(to, task.outlet) /\ Lists!Append(t, u)
        /\ UNCHANGED <<managers, linked, settled>>
    BY <1>3 DEF Lists!Delegate
  <2>. HIDE DEF t
  <2>. QED
    BY <1>0, <2>1, <2>2, <2>3, AppendKeepsLists
<1>4. ASSUME Lists!ClearDelegation(u)
      PROVE  ListInv'
  <2>1. [task EXCEPT !.delegatedTo = None] \in Lists!Task
    BY <1>0 DEF Lists!Task
  <2>2. LET t == [task EXCEPT !.delegatedTo = None]
        IN t.outlet = task.outlet /\ t.creator = task.creator /\ t.assignees = task.assignees
    BY <1>0 DEF Lists!Task
  <2>. QED
    BY <1>0, <1>4, <2>1, <2>2, AppendKeepsLists DEF Lists!ClearDelegation
<1>5. ASSUME Lists!Comment(u)
      PROVE  ListInv'
  BY <1>0, <1>5, AppendKeepsLists DEF Lists!Comment
<1>. QED
  BY <1>1, <1>2, <1>3, <1>4, <1>5

\* Reading, removing and moving the task, and other links.
LEMMA RestKeepsLists ==
  ASSUME ListInv,
         \/ \E u \in Lists!Person : Lists!View(u) \/ Lists!Remove(u)
         \/ \E u \in Lists!Person, o \in Site \cup {None} : Lists!MoveTask(u, o)
         \/ \E o \in Site, set \in SUBSET Staff : Lists!SetManagers(o, set)
         \/ \E m \in Staff, set \in SUBSET Site : Lists!SetLinked(m, set)
  PROVE  ListInv'
<1>1. ASSUME NEW u \in Lists!Person, Lists!View(u) \/ Lists!Remove(u)
      PROVE  ListInv'
  BY <1>1 DEF ListInv, Lists!View, Lists!Remove, Lists!TypeOK, Lists!Live, UnreadInAudience,
              PartiesHaveAccess, Lists!HasOutletAccess
<1>2. ASSUME NEW u \in Lists!Person, NEW o \in Site \cup {None}, Lists!MoveTask(u, o)
      PROVE  ListInv'
  <2>1. task \in Lists!Task
    BY <1>2 DEF ListInv, Lists!TypeOK, Lists!Live, Lists!MoveTask, Lists!MayUpdate
  <2>2. [task EXCEPT !.outlet = o] \in Lists!Task
    BY <2>1 DEF Lists!Task
  <2>3. task' \in Lists!Task /\ unread' \subseteq Lists!Audience(task')
        /\ unread' \subseteq Lists!Person
    BY <1>2, <2>2, AppendMarksAudience DEF ListInv, Lists!MoveTask
  <2>4. settled' = FALSE /\ UNCHANGED <<managers, linked>>
    BY <1>2 DEF Lists!MoveTask
  <2>. QED
    BY <2>3, <2>4 DEF ListInv, Lists!TypeOK, UnreadInAudience, PartiesHaveAccess
<1>3. ASSUME NEW o \in Site, NEW set \in SUBSET Staff, Lists!SetManagers(o, set)
      PROVE  ListInv'
  BY <1>3 DEF ListInv, Lists!SetManagers, Lists!TypeOK, Lists!Live, UnreadInAudience,
              PartiesHaveAccess
<1>4. ASSUME NEW m \in Staff, NEW set \in SUBSET Site, Lists!SetLinked(m, set)
      PROVE  ListInv'
  BY <1>4 DEF ListInv, Lists!SetLinked, Lists!TypeOK, Lists!Live, UnreadInAudience,
              PartiesHaveAccess
<1>. QED
  BY <1>1, <1>2, <1>3, <1>4

LEMMA ListInvStep ==
  ASSUME ListInv, [Lists!Next]_listVars
  PROVE  ListInv'
<1>1. CASE UNCHANGED listVars
  BY <1>1 DEF listVars, ListInv, Lists!TypeOK, Lists!Live, UnreadInAudience, PartiesHaveAccess,
              Lists!HasOutletAccess
<1>2. CASE Lists!Next
  BY <1>2, CreateKeepsLists, WriteKeepsLists, RestKeepsLists DEF Lists!Next
<1>. QED
  BY <1>1, <1>2

\* A user with something new on a task is an admin or sees it, so every badge
\* counts it; and a task on the screen is one its outlet opens.
LEMMA ListInvImplies ==
  ASSUME ListInv
  PROVE  Lists!BadgesMatchLists /\ Lists!ScreenOpens
<1>1. ASSUME Lists!Live
      PROVE  task \in Lists!Task
  BY <1>1 DEF ListInv, Lists!TypeOK, Lists!Live
<1>2. Lists!BadgesMatchLists
  <2>. SUFFICES ASSUME Lists!Live, NEW u \in Lists!Person
       PROVE  /\ Lists!InNav(u) <=> Lists!InPushBadge(u)
              /\ Lists!UnreadMatch(u) <=> Lists!InUnreadIds(u)
              /\ Lists!UnreadMatch(u) <=> Lists!InAggregate(u)
              /\ Lists!UnreadMatch(u) => Lists!OnSegment(u, Lists!Segment)
    BY DEF Lists!BadgesMatchLists
  <2>1. task.status \in {"OPEN", "COMPLETED"} /\ task.recurring \in BOOLEAN
    BY <1>1 DEF Lists!Task
  <2>2. Lists!InNav(u) <=> Lists!InPushBadge(u)
    BY <2>1 DEF Lists!InNav, Lists!InPushBadge, Lists!Segment
  <2>3. u \in unread => u \in Admin \/ Lists!VisibleTo(u)
    BY DEF ListInv, UnreadInAudience, Lists!Audience, Lists!VisibleTo
  <2>4. Lists!OnScreen(u) <=> u \in Admin \/ Lists!VisibleTo(u)
    BY DEF Lists!OnScreen, Lists!InList, Lists!InListOfAssignee, Lists!VisibleTo
  <2>5. Lists!UnreadMatch(u) => Lists!OnSegment(u, Lists!Segment)
    BY <2>1, <2>4 DEF Lists!UnreadMatch, Lists!OnSegment, Lists!Segment
  <2>. QED
    BY <2>2, <2>3, <2>4, <2>5 DEF Lists!UnreadMatch, Lists!InUnreadIds, Lists!InAggregate
<1>3. Lists!ScreenOpens
  <2>. SUFFICES ASSUME Lists!Live, settled, NEW u \in Lists!Person, Lists!OnScreen(u)
       PROVE  Lists!MayOpen(u)
    BY DEF Lists!ScreenOpens
  <2>1. u \in Admin \/ u \in task.assignees \/ u = task.creator
    BY DEF Lists!OnScreen, Lists!InList, Lists!InListOfAssignee, Lists!VisibleTo
  <2>2. u \in Admin => u \notin Staff
    BY RolesAssumption
  <2>3. u \in Admin => \A o : Lists!HasOutletAccess(u, o)
    BY <2>2 DEF Lists!HasOutletAccess
  <2>. QED
    BY <2>1, <2>3 DEF ListInv, PartiesHaveAccess, Lists!MayOpen, Lists!VisibleTo
<1>. QED
  BY <1>2, <1>3

-------------------------------------------------------------------------------
(* Forms                                                                   *)

\* The questions of a form: the built-in ones first and in order, and none
\* twice.
Whole(keys) ==
  /\ keys \in Seq(Surveys!Key)
  /\ Surveys!IsInjective(keys)
  /\ Len(Builtin) <= Len(keys)
  /\ \A i \in 1..Len(Builtin) : keys[i] = Builtin[i]

\* One more key, unless it was seen.
Seen(seen, k) == IF k \in Surveys!Range(seen) THEN seen ELSE Append(seen, k)

\* f is the function that Merged defines: what was seen after each key.
IsMerge(f, all, n) ==
  f = [i \in 0..n |-> IF i = 0 THEN <<>> ELSE Seen(f[i - 1], all[i])]

LEMMA MergeExists ==
  ASSUME NEW all \in Seq(Surveys!Key)
  PROVE  \E f : IsMerge(f, all, Len(all))
<1>. DEFINE S == Seq(Surveys!Key)
            n == Len(all)
            step == [p \in Nat \X S |-> IF p[1] \in 1..n THEN Seen(p[2], all[p[1]]) ELSE p[2]]
<1>1. n \in Nat /\ <<>> \in S
  OBVIOUS
<1>2. \A seen \in S : \A k \in Surveys!Key : Seen(seen, k) \in S
  BY DEF Seen
<1>3. step \in Steps(S)
  <2>1. \A i \in 1..n : all[i] \in Surveys!Key
    OBVIOUS
  <2>. HIDE DEF S, n
  <2>. QED
    BY <1>2, <2>1 DEF Steps
<1>4. \A i \in 1..n, seen \in S : step[<<i, seen>>] = Seen(seen, all[i])
  <2>. HIDE DEF S
  <2>. QED
    BY <1>1
<1>. HIDE DEF S, n, step
<1>5. PICK f : Iterates(f, S, <<>>, step, n)
  BY <1>1, <1>3, IterationExists
<1>6. f = [i \in 0..n |-> f[i]] /\ f[0] = <<>>
      /\ \A i \in 1..n : f[i - 1] \in S /\ f[i] = step[<<i, f[i - 1]>>]
  BY <1>1, <1>5 DEF Iterates
<1>7. \A i \in 0..n : f[i] = IF i = 0 THEN <<>> ELSE Seen(f[i - 1], all[i])
  BY <1>1, <1>4, <1>6
<1>8. f = [i \in 0..n |-> IF i = 0 THEN <<>> ELSE Seen(f[i - 1], all[i])]
  BY <1>6, <1>7
<1>. QED
  BY <1>8 DEF IsMerge, n

\* A key that was not seen goes to the end, and nothing else changes.
Grown(seen, k, next) ==
  /\ next \in Seq(Surveys!Key)
  /\ Surveys!IsInjective(next)
  /\ Len(next) >= Len(seen)
  /\ \A i \in 1..Len(seen) : next[i] = seen[i]
  /\ k \notin Surveys!Range(seen) => Len(next) = Len(seen) + 1 /\ next[Len(seen) + 1] = k

LEMMA SeenGrows ==
  ASSUME NEW seen \in Seq(Surveys!Key), Surveys!IsInjective(seen), NEW k \in Surveys!Key,
         NEW next, next = Seen(seen, k)
  PROVE  Grown(seen, k, next)
<1>1. CASE k \in Surveys!Range(seen)
  BY <1>1 DEF Seen, Grown
<1>2. CASE k \notin Surveys!Range(seen)
  <2>1. next = Append(seen, k)
    BY <1>2 DEF Seen
  <2>2. Surveys!IsInjective(Append(seen, k))
    BY <1>2 DEF Surveys!IsInjective, Surveys!Range
  <2>. QED
    BY <2>1, <2>2 DEF Grown
<1>. QED
  BY <1>1, <1>2

\* mergeWithDefaultQuestions makes whole forms, whatever is asked.
LEMMA MergedWhole ==
  ASSUME NEW asked \in Asked
  PROVE  Whole(Surveys!Merged(asked))
<1>. DEFINE all == Builtin \o asked
            n == Len(all)
            h == CHOOSE f : IsMerge(f, all, n)
            b == Len(Builtin)
<1>1. Builtin \in Seq(Surveys!Key) /\ asked \in Seq(Surveys!Key)
  BY BuiltinAssumption
<1>2. all \in Seq(Surveys!Key) /\ n \in Nat /\ b \in Nat /\ b <= n
      /\ \A i \in 1..b : all[i] = Builtin[i]
  BY <1>1
<1>3. Surveys!Merged(asked) = h[n]
  BY DEF Surveys!Merged, IsMerge, Seen
<1>4. IsMerge(h, all, n)
  BY <1>2, MergeExists
<1>. HIDE DEF h, all, n, b
<1>5. \A i \in 0..n : h[i] = IF i = 0 THEN <<>> ELSE Seen(h[i - 1], all[i])
  BY <1>4 DEF IsMerge
<1>. DEFINE Good(i) ==
              /\ h[i] \in Seq(Surveys!Key) /\ Surveys!IsInjective(h[i])
              /\ i <= b => /\ Len(h[i]) = i
                           /\ \A j \in 1..i : h[i][j] = Builtin[j]
              /\ i > b => /\ Len(h[i]) >= b
                          /\ \A j \in 1..b : h[i][j] = Builtin[j]
            S == {i \in Nat : i <= n => Good(i)}
<1>6. 0 \in S
  <2>1. h[0] = <<>>
    BY <1>2, <1>5
  <2>2. h[0] \in Seq(Surveys!Key) /\ Surveys!IsInjective(h[0]) /\ Len(h[0]) = 0
    BY <2>1 DEF Surveys!IsInjective
  <2>3. \A j \in 1..0 : h[0][j] = Builtin[j]
    OBVIOUS
  <2>4. Good(0)
    BY <1>2, <2>2, <2>3
  <2>. QED
    BY <2>4
<1>7. ASSUME NEW i \in Nat, i \in S PROVE i + 1 \in S
  <2>. SUFFICES ASSUME i + 1 <= n PROVE Good(i + 1)
    OBVIOUS
  <2>1. Good(i)
    BY <1>2, <1>7
  <2>2. h[i + 1] = Seen(h[i], all[i + 1]) /\ all[i + 1] \in Surveys!Key
    BY <1>2, <1>5 DEF n
  <2>3. Grown(h[i], all[i + 1], h[i + 1])
    BY <2>1, <2>2, SeenGrows
  <2>4. CASE i + 1 <= b
    <3>1. Len(h[i]) = i /\ \A j \in 1..i : h[i][j] = Builtin[j]
      BY <1>2, <2>1, <2>4
    <3>2. all[i + 1] = Builtin[i + 1]
      BY <1>2, <2>4
    <3>3. \A j \in 1..i : Builtin[j] # Builtin[i + 1]
      BY <1>1, <2>4, BuiltinAssumption DEF Surveys!IsInjective, b
    <3>4. all[i + 1] \notin Surveys!Range(h[i])
      BY <2>1, <3>1, <3>2, <3>3 DEF Surveys!Range
    <3>5. Len(h[i + 1]) = i + 1 /\ h[i + 1][i + 1] = Builtin[i + 1]
      BY <2>3, <3>1, <3>2, <3>4 DEF Grown
    <3>6. \A j \in 1..(i + 1) : h[i + 1][j] = Builtin[j]
      BY <2>3, <3>1, <3>5 DEF Grown
    <3>. QED
      BY <1>2, <2>3, <2>4, <3>5, <3>6 DEF Grown
  <2>5. CASE i + 1 > b
    <3>1. Len(h[i]) >= b /\ \A j \in 1..b : h[i][j] = Builtin[j]
      BY <1>2, <2>1, <2>5
    <3>2. \A j \in 1..b : h[i + 1][j] = Builtin[j]
      BY <1>2, <2>1, <2>3, <3>1 DEF Grown
    <3>3. Len(h[i + 1]) >= b
      BY <1>2, <2>1, <2>3, <3>1 DEF Grown
    <3>. QED
      BY <1>2, <2>3, <2>5, <3>2, <3>3 DEF Grown
  <2>. QED
    BY <1>2, <2>4, <2>5
<1>. HIDE DEF S
<1>8. Nat \subseteq S
  BY <1>6, <1>7, NatSetInduction
<1>9. Good(n)
  BY <1>2, <1>8 DEF S
<1>10. Len(h[n]) >= b /\ \A j \in 1..b : h[n][j] = Builtin[j]
  BY <1>2, <1>9
<1>. QED
  BY <1>3, <1>9, <1>10 DEF Whole, b

Id == Surveys!QuestionId

FormRequest ==
  {Surveys!Idle}
  \cup [step : {"ask"}, form : Form, keys : Seq(Surveys!Key), write : 1..WriteLimit]
  \cup [step : {"edit", "delete"}, question : Id]

FilledForm ==
  {Surveys!Idle}
  \cup [step : {"shown", "refused", "taken"}, form : Form, refs : Seq(Id),
        answered : SUBSET Id]

FormsTyped ==
  /\ writes \in 0..WriteLimit
  /\ DOMAIN questions \subseteq Id
  /\ questions \in [DOMAIN questions -> Surveys!QuestionDoc]
  /\ forms \in [Form -> [stored : BOOLEAN, deleted : BOOLEAN, refs : Seq(Id)]]
  /\ work \in [Request -> FormRequest]
  /\ filling \in [Customer -> FilledForm]

\* A creation or update that has not written its form has a number of its own,
\* and the questions stored under it have the keys it asks for.
AsksKept ==
  /\ \A n \in DOMAIN questions : n[1] <= writes
  /\ \A q \in Request : work[q].step = "ask" =>
       /\ work[q].write <= writes
       /\ Whole(work[q].keys)
       /\ \A p \in Request \ {q} :
            work[p].step = "ask" => work[p].write # work[q].write
       /\ \A i \in 1..Len(work[q].keys) :
            <<work[q].write, i>> \in DOMAIN questions
              => questions[<<work[q].write, i>>].key = work[q].keys[i]

\* Nobody has passed the check for a question that was stored as a built-in one.
BuiltinsKept ==
  /\ \A n \in DOMAIN questions : questions[n].builtIn =>
       /\ questions[n].isDefault
       /\ ~questions[n].edited /\ ~questions[n].deleted
  /\ \A q \in Request : work[q].step \in {"edit", "delete"} =>
       /\ work[q].question \in DOMAIN questions
       /\ ~questions[work[q].question].builtIn

Asking(w) == \E q \in Request : work[q].step = "ask" /\ work[q].write = w

\* The questions of creations and updates that are over.
Settled == {n \in DOMAIN questions : ~Asking(n[1])}

KeysOf(f) == [i \in 1..Len(forms[f].refs) |-> questions[forms[f].refs[i]].key]

\* Two forms have been written by different creations or updates.
FormsKept ==
  \A f \in Form :
    /\ forms[f].stored => Whole(KeysOf(f))
    /\ \A i \in 1..Len(forms[f].refs) : forms[f].refs[i] \in Settled
    /\ \A g \in Form \ {f} :
         \A i \in 1..Len(forms[f].refs), j \in 1..Len(forms[g].refs) :
           forms[f].refs[i][1] # forms[g].refs[j][1]

Changed(c) ==
  \/ forms[filling[c].form].refs # filling[c].refs
  \/ \E i \in 1..Len(filling[c].refs) : questions[filling[c].refs[i]].edited

\* What was shown can not be written again, and while it has not changed, what
\* it requires was answered.
FillingsKept ==
  \A c \in Customer : filling[c].step # "idle" =>
    /\ filling[c].refs # <<>>
    /\ \A i \in 1..Len(filling[c].refs) : filling[c].refs[i] \in Settled
    /\ filling[c].step = "refused" => Changed(c)
    /\ filling[c].step = "shown" =>
         \/ Changed(c)
         \/ \A i \in 1..Len(filling[c].refs) :
              questions[filling[c].refs[i]].required
                => filling[c].refs[i] \in filling[c].answered

FormInv ==
  /\ FormsTyped
  /\ AsksKept
  /\ BuiltinsKept
  /\ FormsKept
  /\ FillingsKept

LEMMA InitFormInv ==
  ASSUME Surveys!Init
  PROVE  FormInv
<1>1. /\ questions = <<>> /\ writes = 0
      /\ forms = [f \in Form |-> [stored |-> FALSE, deleted |-> FALSE, refs |-> <<>>]]
      /\ work = [q \in Request |-> Surveys!Idle]
      /\ filling = [c \in Customer |-> Surveys!Idle]
  BY DEF Surveys!Init
<1>2. DOMAIN questions = {} /\ questions \in [DOMAIN questions -> Surveys!QuestionDoc]
  BY <1>1
<1>3. FormsTyped
  BY <1>1, <1>2, BoundsAssumption DEF FormsTyped, FormRequest, FilledForm
<1>4. AsksKept /\ BuiltinsKept /\ FillingsKept
  BY <1>1, <1>2 DEF AsksKept, BuiltinsKept, FillingsKept, Surveys!Idle
<1>5. FormsKept
  BY <1>1 DEF FormsKept
<1>. QED
  BY <1>3, <1>4, <1>5 DEF FormInv

LEMMA FormInvImplies ==
  ASSUME FormInv
  PROVE  Surveys!FormWhole /\ Surveys!BuiltinsStay /\ Surveys!RefusedOnlyIfChanged
<1>1. Surveys!BuiltinsStay
  BY DEF FormInv, BuiltinsKept, Surveys!BuiltinsStay
<1>2. Surveys!FormWhole
  <2>. SUFFICES ASSUME NEW f \in Form, forms[f].stored
       PROVE  LET keys == [i \in DOMAIN forms[f].refs |-> questions[forms[f].refs[i]].key]
              IN /\ Surveys!IsPrefix(Builtin, keys)
                 /\ Surveys!IsInjective(keys)
                 /\ \A g \in Form \ {f} : Surveys!Shown(f) \cap Surveys!Shown(g) = {}
    BY DEF Surveys!FormWhole
  <2>1. \A g \in Form : forms[g].refs \in Seq(Id)
    BY DEF FormInv, FormsTyped
  <2>2. DOMAIN forms[f].refs = 1..Len(forms[f].refs)
    BY <2>1
  <2>3. KeysOf(f) = [i \in DOMAIN forms[f].refs |-> questions[forms[f].refs[i]].key]
    BY <2>2 DEF KeysOf
  <2>4. Whole(KeysOf(f))
    BY DEF FormInv, FormsKept
  <2>5. Surveys!IsInjective(KeysOf(f))
    BY <2>4 DEF Whole
  <2>6. Surveys!IsPrefix(Builtin, KeysOf(f))
    <3>. DEFINE keys == KeysOf(f)
    <3>1. keys \in Seq(Surveys!Key) /\ Builtin \in Seq(Surveys!Key)
          /\ Len(Builtin) <= Len(keys) /\ \A i \in 1..Len(Builtin) : keys[i] = Builtin[i]
      BY <2>4, BuiltinAssumption DEF Whole
    <3>. HIDE DEF keys
    <3>2. SubSeq(keys, 1, Len(Builtin)) = SubSeq(Builtin, 1, Len(Builtin))
      BY <3>1
    <3>. QED
      BY <3>1, <3>2 DEF Surveys!IsPrefix, keys
  <2>7. ASSUME NEW g \in Form \ {f}
        PROVE  Surveys!Shown(f) \cap Surveys!Shown(g) = {}
    <3>. SUFFICES ASSUME NEW n \in Surveys!Shown(f), n \in Surveys!Shown(g)
         PROVE  FALSE
      OBVIOUS
    <3>1. PICK i \in 1..Len(forms[f].refs) : n = forms[f].refs[i]
      BY <2>1 DEF Surveys!Shown, Surveys!Range
    <3>2. PICK j \in 1..Len(forms[g].refs) : n = forms[g].refs[j]
      BY <2>1, <2>7 DEF Surveys!Shown, Surveys!Range
    <3>. QED
      BY <2>7, <3>1, <3>2 DEF FormInv, FormsKept
  <2>. QED
    BY <2>3, <2>5, <2>6, <2>7
<1>3. Surveys!RefusedOnlyIfChanged
  <2>. SUFFICES ASSUME NEW c \in Customer, filling[c].step = "refused",
                       forms[filling[c].form].refs = filling[c].refs
       PROVE  \E n \in Surveys!Shown(filling[c].form) : questions[n].edited
    BY DEF Surveys!RefusedOnlyIfChanged
  <2>1. PICK i \in 1..Len(filling[c].refs) : questions[filling[c].refs[i]].edited
    BY DEF FormInv, FillingsKept, Changed
  <2>2. filling[c].refs \in Seq(Id)
    BY DEF FormInv, FormsTyped, FilledForm, Surveys!Idle
  <2>3. filling[c].refs[i] \in Surveys!Shown(filling[c].form)
    BY <2>1, <2>2 DEF Surveys!Shown, Surveys!Range
  <2>. QED
    BY <2>1, <2>3
<1>. QED
  BY <1>1, <1>2, <1>3

\* What every step keeps of a question: its key, that it was edited, and until
\* then whether it is required.
Evolves ==
  \A n \in DOMAIN questions :
    /\ n \in DOMAIN questions'
    /\ questions'[n].key = questions[n].key
    /\ questions[n].edited => questions'[n].edited
    /\ questions'[n].edited \/ questions'[n].required = questions[n].required

\* No creation or update begun before is taken up again.
NoneTakenUp == \A w \in Nat : w <= writes /\ Asking(w)' => Asking(w)

LEMMA SettledGrows ==
  ASSUME FormInv, Evolves, NoneTakenUp
  PROVE  Settled \subseteq Settled'
<1>1. \A n \in DOMAIN questions : n[1] \in Nat /\ n[1] <= writes
  BY BoundsAssumption DEF FormInv, FormsTyped, AsksKept, Id, Surveys!QuestionId
<1>. QED
  BY <1>1 DEF Settled, Evolves, NoneTakenUp

\* A step that asks for nothing new.
LEMMA AsksStay ==
  ASSUME FormInv, Evolves, writes' = writes, DOMAIN questions' = DOMAIN questions,
         \A q \in Request : work'[q].step = "ask" => work'[q] = work[q]
  PROVE  AsksKept' /\ NoneTakenUp
<1>1. AsksKept'
  BY DEF FormInv, AsksKept, Evolves
<1>2. NoneTakenUp
  BY DEF NoneTakenUp, Asking
<1>. QED
  BY <1>1, <1>2

\* A step that leaves the questions stored as built-in ones alone.
LEMMA BuiltinsStay ==
  ASSUME FormInv,
         \A n \in DOMAIN questions :
           /\ n \in DOMAIN questions' /\ questions'[n].builtIn = questions[n].builtIn
           /\ questions[n].builtIn => questions'[n] = questions[n],
         \A n \in DOMAIN questions' \ DOMAIN questions : questions'[n].builtIn =>
           /\ questions'[n].isDefault
           /\ ~questions'[n].edited /\ ~questions'[n].deleted,
         \A q \in Request :
           work'[q].step \in {"edit", "delete"} => work'[q] = work[q]
  PROVE  BuiltinsKept'
<1>1. ASSUME NEW n \in DOMAIN questions', questions'[n].builtIn
      PROVE  /\ questions'[n].isDefault
             /\ ~questions'[n].edited /\ ~questions'[n].deleted
  BY <1>1 DEF FormInv, BuiltinsKept
<1>2. ASSUME NEW q \in Request, work'[q].step \in {"edit", "delete"}
      PROVE  /\ work'[q].question \in DOMAIN questions'
             /\ ~questions'[work'[q].question].builtIn
  BY <1>2 DEF FormInv, BuiltinsKept
<1>. QED
  BY <1>1, <1>2 DEF BuiltinsKept

\* A step that writes no form.
LEMMA FormsStay ==
  ASSUME FormInv, Evolves, NoneTakenUp,
         \A f \in Form : /\ forms'[f].refs = forms[f].refs
                         /\ forms'[f].stored = forms[f].stored
  PROVE  FormsKept'
<1>1. Settled \subseteq Settled'
  BY SettledGrows
<1>2. \A f \in Form : \A i \in 1..Len(forms[f].refs) : forms[f].refs[i] \in Settled
  BY DEF FormInv, FormsKept
<1>3. ASSUME NEW f \in Form
      PROVE  KeysOf(f)' = KeysOf(f)
  <2>1. \A i \in 1..Len(forms[f].refs) :
          questions'[forms[f].refs[i]].key = questions[forms[f].refs[i]].key
    BY <1>2 DEF Settled, Evolves
  <2>. QED
    BY <2>1 DEF KeysOf
<1>4. \A f \in Form : forms'[f].stored => Whole(KeysOf(f)')
  BY <1>3 DEF FormInv, FormsKept
<1>5. \A f \in Form : \A g \in Form \ {f} :
        \A i \in 1..Len(forms'[f].refs), j \in 1..Len(forms'[g].refs) :
          forms'[f].refs[i][1] # forms'[g].refs[j][1]
  BY DEF FormInv, FormsKept
<1>6. \A f \in Form : \A i \in 1..Len(forms'[f].refs) : forms'[f].refs[i] \in Settled'
  BY <1>1, <1>2
<1>. QED
  BY <1>4, <1>5, <1>6 DEF FormsKept

\* A step that touches no customer, and writes no form but from new questions.
LEMMA FillingsStay ==
  ASSUME FormInv, Evolves, NoneTakenUp, filling' = filling,
         \A f \in Form : \/ forms'[f].refs = forms[f].refs
                         \/ /\ forms'[f].refs # <<>>
                            /\ forms'[f].refs[1] \notin Settled
  PROVE  FillingsKept'
<1>1. Settled \subseteq Settled'
  BY SettledGrows
<1>. SUFFICES ASSUME NEW c \in Customer, filling[c].step # "idle"
     PROVE  /\ filling[c].refs # <<>>
            /\ \A i \in 1..Len(filling[c].refs) : filling[c].refs[i] \in Settled'
            /\ filling[c].step = "refused" => Changed(c)'
            /\ filling[c].step = "shown" =>
                 \/ Changed(c)'
                 \/ \A i \in 1..Len(filling[c].refs) :
                      questions'[filling[c].refs[i]].required
                        => filling[c].refs[i] \in filling[c].answered
  BY DEF FillingsKept
<1>2. filling[c].refs # <<>> /\ filling[c].refs \in Seq(Id) /\ filling[c].form \in Form
  BY DEF FormInv, FillingsKept, FormsTyped, FilledForm, Surveys!Idle
<1>3. \A i \in 1..Len(filling[c].refs) : filling[c].refs[i] \in Settled
  BY DEF FormInv, FillingsKept
<1>4. filling[c].refs[1] \in Settled
  BY <1>2, <1>3
<1>5. Changed(c) => Changed(c)'
  BY <1>2, <1>3, <1>4 DEF Changed, Settled, Evolves
<1>6. ASSUME ~Changed(c)'
      PROVE  \A i \in 1..Len(filling[c].refs) :
               questions'[filling[c].refs[i]].required = questions[filling[c].refs[i]].required
  BY <1>3, <1>6 DEF Changed, Settled, Evolves
<1>. QED
  BY <1>1, <1>2, <1>3, <1>5, <1>6 DEF FormInv, FillingsKept

FormTypes == [stored : BOOLEAN, deleted : BOOLEAN, refs : Seq(Id)]

\* A step that only moves a request on, never to an edit or a deletion.
LEMMA RestKeepsForms ==
  ASSUME FormInv, UNCHANGED <<questions, writes, filling>>,
         forms' \in [Form -> [stored : BOOLEAN, deleted : BOOLEAN, refs : Seq(Id)]],
         \A f \in Form : /\ forms'[f].refs = forms[f].refs
                         /\ forms'[f].stored = forms[f].stored,
         work' \in [Request -> FormRequest],
         \A q \in Request : work'[q].step # "idle" => work'[q] = work[q]
  PROVE  FormInv'
<1>1. Evolves
  BY DEF Evolves
<1>2. \A q \in Request :
        work'[q].step \in {"ask", "edit", "delete"} => work'[q] = work[q]
  OBVIOUS
<1>3. AsksKept' /\ NoneTakenUp
  BY <1>1, <1>2, AsksStay
<1>4. BuiltinsKept'
  BY <1>2, BuiltinsStay
<1>5. FormsKept' /\ FillingsKept'
  BY <1>1, <1>3, FormsStay, FillingsStay
<1>6. FormsTyped'
  BY DEF FormInv, FormsTyped
<1>. QED
  BY <1>3, <1>4, <1>5, <1>6 DEF FormInv

LEMMA AbandonKeepsForms ==
  ASSUME FormInv, \/ \E q \in Request : Surveys!Abandon(q)
                  \/ \E f \in Form : Surveys!RemoveForm(f)
  PROVE  FormInv'
<1>0. work \in [Request -> FormRequest] /\ forms \in [Form -> FormTypes]
  BY DEF FormInv, FormsTyped, FormTypes
<1>1. ASSUME NEW q \in Request, Surveys!Abandon(q)
      PROVE  FormInv'
  <2>1. work' = [work EXCEPT ![q] = Surveys!Idle] /\ UNCHANGED <<questions, writes, forms, filling>>
    BY <1>1 DEF Surveys!Abandon
  <2>2. work' \in [Request -> FormRequest]
        /\ \A p \in Request : work'[p].step # "idle" => work'[p] = work[p]
    BY <1>0, <2>1 DEF FormRequest, Surveys!Idle
  <2>. QED
    BY <1>0, <2>1, <2>2, RestKeepsForms DEF FormTypes
<1>2. ASSUME NEW f \in Form, Surveys!RemoveForm(f)
      PROVE  FormInv'
  <2>1. forms' = [forms EXCEPT ![f].deleted = TRUE] /\ UNCHANGED <<questions, writes, work, filling>>
    BY <1>2 DEF Surveys!RemoveForm
  <2>2. forms' \in [Form -> FormTypes]
        /\ \A g \in Form : forms'[g].refs = forms[g].refs /\ forms'[g].stored = forms[g].stored
    BY <1>0, <2>1 DEF FormTypes
  <2>. QED
    BY <1>0, <2>1, <2>2, RestKeepsForms DEF FormTypes
<1>. QED
  BY <1>1, <1>2

LEMMA AskKeepsForms ==
  ASSUME FormInv, NEW q \in Request, NEW f \in Form, NEW asked \in Asked,
         Surveys!Ask(q, f, asked)
  PROVE  FormInv'
<1>. DEFINE keys == Surveys!Merged(asked)
            new == [step |-> "ask", form |-> f, keys |-> keys, write |-> writes + 1]
<1>1. Whole(keys) /\ keys \in Seq(Surveys!Key)
  BY MergedWhole DEF Whole
<1>. HIDE DEF keys
<1>2. /\ work' = [work EXCEPT ![q] = new] /\ writes' = writes + 1 /\ writes \in 0..WriteLimit
      /\ writes + 1 \in 1..WriteLimit
      /\ UNCHANGED <<questions, forms, filling>> /\ work[q] = Surveys!Idle
      /\ work \in [Request -> FormRequest]
  BY BoundsAssumption DEF Surveys!Ask, keys, FormInv, FormsTyped
<1>3. new \in FormRequest
  BY <1>1, <1>2 DEF FormRequest
<1>4. /\ work' \in [Request -> FormRequest]
      /\ work'[q] = new
      /\ \A p \in Request : p # q => work'[p] = work[p]
  BY <1>2, <1>3
<1>5. FormsTyped'
  BY <1>2, <1>4 DEF FormInv, FormsTyped
<1>6. Evolves
  BY <1>2 DEF Evolves
<1>7. NoneTakenUp
  BY <1>2, <1>4 DEF NoneTakenUp, Asking
<1>8. AsksKept'
  <2>1. \A n \in DOMAIN questions : n[1] \in Nat /\ n[1] <= writes
    BY BoundsAssumption DEF FormInv, FormsTyped, AsksKept, Id, Surveys!QuestionId
  <2>2. \A p \in Request : work[p].step = "ask" => work[p].write \in Nat /\ work[p].write <= writes
    BY <1>2, BoundsAssumption DEF FormInv, AsksKept, FormRequest, Surveys!Idle
  <2>3. \A i : <<writes + 1, i>> \notin DOMAIN questions
    BY <1>2, <2>1
  <2>4. ASSUME NEW p \in Request, work'[p].step = "ask"
        PROVE  /\ work'[p].write <= writes + 1
               /\ Whole(work'[p].keys)
               /\ \A r \in Request \ {p} :
                    work'[r].step = "ask" => work'[r].write # work'[p].write
               /\ \A i \in 1..Len(work'[p].keys) :
                    <<work'[p].write, i>> \in DOMAIN questions
                      => questions[<<work'[p].write, i>>].key = work'[p].keys[i]
    <3>1. CASE p = q
      BY <1>1, <1>2, <1>4, <2>2, <2>3, <3>1
    <3>2. CASE p # q
      <4>1. \A r \in Request \ {p} :
              work'[r].step = "ask" => work'[r].write # work'[p].write
        BY <1>2, <1>4, <2>2, <2>4, <3>2 DEF FormInv, AsksKept
      <4>. QED
        BY <1>2, <1>4, <2>2, <2>4, <3>2, <4>1 DEF FormInv, AsksKept
    <3>. QED
      BY <3>1, <3>2
  <2>. QED
    BY <1>2, <2>1, <2>4 DEF AsksKept, Whole
<1>9. BuiltinsKept'
  BY <1>2, <1>4, BuiltinsStay
<1>10. FormsKept' /\ FillingsKept'
  BY <1>2, <1>6, <1>7, FormsStay, FillingsStay
<1>. QED
  BY <1>5, <1>8, <1>9, <1>10 DEF FormInv

LEMMA InsertKeepsForms ==
  ASSUME FormInv, NEW q \in Request,
         NEW i \in 1..Len(Builtin) + Surveys!Cardinality(Surveys!Key),
         Surveys!Insert(q, i)
  PROVE  FormInv'
<1>. DEFINE w == work[q]
            id == <<w.write, i>>
            doc == [key |-> w.keys[i], builtIn |-> i <= Len(Builtin),
                    isDefault |-> i <= Len(Builtin), required |-> w.keys[i] \in Required,
                    deleted |-> FALSE, edited |-> FALSE]
<1>1. w.step = "ask" /\ w.keys \in Seq(Surveys!Key) /\ w.write \in 1..WriteLimit
  <2>1. w.step = "ask" /\ w \in FormRequest
    BY DEF Surveys!Insert, FormInv, FormsTyped
  <2>. HIDE DEF w
  <2>. QED
    BY <2>1 DEF FormRequest, Surveys!Idle
<1>2. i \in 1..Len(w.keys) /\ i \in Nat /\ w.keys[i] \in Surveys!Key
  BY <1>1 DEF Surveys!Insert
<1>3. id \in Id /\ id \notin DOMAIN questions
  BY <1>1, <1>2 DEF Surveys!Insert, Id, Surveys!QuestionId
<1>4. doc \in Surveys!QuestionDoc
  BY <1>2, BuiltinAssumption DEF Surveys!QuestionDoc
<1>5. /\ questions' = [n \in DOMAIN questions \cup {id} |->
           IF n \in DOMAIN questions THEN questions[n] ELSE doc]
      /\ UNCHANGED <<writes, forms, work, filling>>
  BY DEF Surveys!Insert
<1>. HIDE DEF doc, id
<1>6. /\ DOMAIN questions' = DOMAIN questions \cup {id}
      /\ \A n \in DOMAIN questions : questions'[n] = questions[n]
      /\ questions'[id] = doc
  BY <1>3, <1>5
<1>7. FormsTyped'
  <2>1. \A n \in DOMAIN questions' : questions'[n] \in Surveys!QuestionDoc
    BY <1>4, <1>6 DEF FormInv, FormsTyped
  <2>2. questions' = [n \in DOMAIN questions' |-> questions'[n]]
    BY <1>5
  <2>3. questions' \in [DOMAIN questions' -> Surveys!QuestionDoc]
    BY <2>1, <2>2
  <2>. QED
    BY <1>3, <1>5, <1>6, <2>3 DEF FormInv, FormsTyped
<1>8. Evolves
  BY <1>6 DEF Evolves
<1>9. NoneTakenUp
  BY <1>5 DEF NoneTakenUp, Asking
<1>10. AsksKept'
  <2>1. id[1] = w.write /\ w.write <= writes
    BY <1>1 DEF id, FormInv, AsksKept
  <2>2. \A n \in DOMAIN questions' : n[1] <= writes
    BY <1>6, <2>1 DEF FormInv, AsksKept
  <2>3. ASSUME NEW p \in Request, work[p].step = "ask", NEW j \in 1..Len(work[p].keys),
               <<work[p].write, j>> \in DOMAIN questions'
        PROVE  questions'[<<work[p].write, j>>].key = work[p].keys[j]
    <3>1. CASE <<work[p].write, j>> \in DOMAIN questions
      BY <1>6, <2>3, <3>1 DEF FormInv, AsksKept
    <3>2. CASE <<work[p].write, j>> = id
      <4>1. work[p].write = w.write /\ j = i
        BY <3>2 DEF id
      <4>2. p = q
        BY <1>1, <2>3, <4>1 DEF FormInv, AsksKept
      <4>3. doc.key = w.keys[i]
        BY DEF doc
      <4>. QED
        BY <1>6, <3>2, <4>1, <4>2, <4>3
    <3>. QED
      BY <1>6, <2>3, <3>1, <3>2
  <2>. QED
    BY <1>5, <2>2, <2>3 DEF FormInv, AsksKept
<1>11. BuiltinsKept'
  <2>1. doc.builtIn => doc.isDefault /\ ~doc.edited /\ ~doc.deleted
    BY DEF doc
  <2>. QED
    BY <1>5, <1>6, <2>1, BuiltinsStay
<1>12. FormsKept' /\ FillingsKept'
  BY <1>5, <1>8, <1>9, FormsStay, FillingsStay
<1>. QED
  BY <1>7, <1>10, <1>11, <1>12 DEF FormInv

LEMMA WriteKeepsForms ==
  ASSUME FormInv, NEW q \in Request, Surveys!WriteForm(q)
  PROVE  FormInv'
<1>. DEFINE w == work[q]
            new == [i \in DOMAIN w.keys |-> <<w.write, i>>]
<1>1. w.step = "ask" /\ w.form \in Form /\ w.keys \in Seq(Surveys!Key)
      /\ w.write \in 1..WriteLimit
  <2>1. w.step = "ask" /\ w \in FormRequest
    BY DEF Surveys!WriteForm, FormInv, FormsTyped
  <2>. HIDE DEF w
  <2>. QED
    BY <2>1 DEF FormRequest, Surveys!Idle
<1>2. /\ Whole(w.keys)
      /\ \A p \in Request \ {q} : work[p].step = "ask" => work[p].write # w.write
      /\ \A i \in 1..Len(w.keys) : <<w.write, i>> \in DOMAIN questions
                                   /\ questions[<<w.write, i>>].key = w.keys[i]
  BY <1>1 DEF FormInv, AsksKept, Surveys!WriteForm, Surveys!AllStored
<1>3. /\ new \in Seq(Id) /\ Len(new) = Len(w.keys) /\ Len(new) >= 1
      /\ \A i \in 1..Len(new) : new[i] = <<w.write, i>>
  <2>1. Len(w.keys) >= 1
    BY <1>1, <1>2, BuiltinAssumption DEF Whole
  <2>. HIDE DEF w
  <2>2. DOMAIN w.keys = 1..Len(w.keys) /\ Len(w.keys) \in Nat
    BY <1>1
  <2>3. \A i \in 1..Len(w.keys) : <<w.write, i>> \in Id
    BY <1>2 DEF FormInv, FormsTyped
  <2>4. new \in [1..Len(w.keys) -> Id] /\ \A i \in 1..Len(w.keys) : new[i] = <<w.write, i>>
    BY <2>2, <2>3
  <2>. HIDE DEF new
  <2>5. new \in Seq(Id) /\ Len(new) = Len(w.keys)
    BY <2>2, <2>4
  <2>. QED
    BY <2>1, <2>4, <2>5
<1>4. /\ forms \in [Form -> FormTypes] /\ work \in [Request -> FormRequest]
      /\ forms' = IF forms[w.form].deleted THEN forms
                  ELSE [forms EXCEPT ![w.form].stored = TRUE, ![w.form].refs = new]
      /\ work' = [work EXCEPT ![q] = Surveys!Idle]
      /\ UNCHANGED <<questions, writes, filling>>
  BY DEF FormInv, FormsTyped, FormTypes, Surveys!WriteForm
<1>. HIDE DEF new, w
<1>5. /\ work' \in [Request -> FormRequest]
      /\ work'[q].step = "idle"
      /\ \A p \in Request : p # q => work'[p] = work[p]
  BY <1>4 DEF FormRequest, Surveys!Idle
<1>6. \A p \in Request : work'[p].step # "idle" => work'[p] = work[p]
  BY <1>5
<1>7. CASE forms[w.form].deleted
  BY <1>4, <1>5, <1>6, <1>7, RestKeepsForms DEF FormTypes
<1>8. CASE ~forms[w.form].deleted
  <2>1. /\ forms' \in [Form -> FormTypes]
        /\ forms'[w.form].refs = new /\ forms'[w.form].stored
        /\ \A f \in Form : f # w.form => forms'[f] = forms[f]
    BY <1>1, <1>3, <1>4, <1>8 DEF FormTypes
  <2>2. Evolves
    BY <1>4 DEF Evolves
  <2>3. AsksKept' /\ NoneTakenUp
    BY <1>4, <1>6, <2>2, AsksStay
  <2>4. BuiltinsKept'
    BY <1>4, <1>6, BuiltinsStay
  <2>5. Asking(w.write)
    BY <1>1 DEF Asking, w
  <2>6. \A p \in Request : work'[p].step = "ask" => work'[p].write # w.write
    BY <1>2, <1>5
  <2>7. FillingsKept'
    <3>1. new # <<>> /\ new[1] = <<w.write, 1>> /\ new[1] \notin Settled
      BY <1>3, <2>5 DEF Settled
    <3>. QED
      BY <1>4, <2>1, <2>2, <2>3, <3>1, FillingsStay
  <2>8. FormsKept'
    <3>1. Settled \subseteq Settled'
      BY <2>2, <2>3, SettledGrows
    <3>2. \A f \in Form : \A i \in 1..Len(forms[f].refs) : forms[f].refs[i] \in Settled
      BY DEF FormInv, FormsKept
    <3>3. \A i \in 1..Len(new) : new[i] \in Settled'
      <4>. SUFFICES ASSUME NEW i \in 1..Len(new) PROVE new[i] \in Settled'
        OBVIOUS
      <4>1. new[i] = <<w.write, i>> /\ new[i][1] = w.write
        BY <1>3
      <4>2. new[i] \in DOMAIN questions'
        BY <1>2, <1>3, <1>4, <4>1
      <4>. QED
        BY <2>6, <4>1, <4>2 DEF Settled, Asking
    <3>4. \A f \in Form : \A i \in 1..Len(forms'[f].refs) : forms'[f].refs[i] \in Settled'
      BY <2>1, <3>1, <3>2, <3>3
    <3>5. \A f \in Form : \A i \in 1..Len(forms[f].refs) : forms[f].refs[i][1] # w.write
      BY <2>5, <3>2 DEF Settled
    <3>6. ASSUME NEW f \in Form, NEW g \in Form \ {f},
                 NEW i \in 1..Len(forms'[f].refs), NEW j \in 1..Len(forms'[g].refs)
          PROVE  forms'[f].refs[i][1] # forms'[g].refs[j][1]
      <4>1. CASE f = w.form
        BY <1>3, <2>1, <3>5, <4>1
      <4>2. CASE g = w.form
        BY <1>3, <2>1, <3>5, <4>2
      <4>3. CASE f # w.form /\ g # w.form
        BY <2>1, <4>3 DEF FormInv, FormsKept
      <4>. QED
        BY <4>1, <4>2, <4>3
    <3>7. ASSUME NEW f \in Form, forms'[f].stored
          PROVE  Whole(KeysOf(f)')
      <4>1. CASE f = w.form
        <5>1. KeysOf(f)' = [i \in 1..Len(new) |-> questions[new[i]].key]
          BY <1>4, <2>1, <4>1 DEF KeysOf
        <5>2. KeysOf(f)' = [i \in 1..Len(w.keys) |-> w.keys[i]]
          BY <1>2, <1>3, <5>1
        <5>3. KeysOf(f)' = w.keys
          BY <1>1, <5>2
        <5>. QED
          BY <1>2, <5>3
      <4>2. CASE f # w.form
        BY <1>4, <2>1, <3>7, <4>2 DEF KeysOf, FormInv, FormsKept
      <4>. QED
        BY <4>1, <4>2
    <3>. QED
      BY <3>4, <3>6, <3>7 DEF FormsKept, Whole
  <2>9. FormsTyped'
    BY <1>4, <1>5, <2>1 DEF FormInv, FormsTyped, FormTypes
  <2>. QED
    BY <2>3, <2>4, <2>7, <2>8, <2>9 DEF FormInv
<1>. QED
  BY <1>7, <1>8

LEMMA BeginEditKeepsForms ==
  ASSUME FormInv, NEW q \in Request, NEW n, NEW step \in {"edit", "delete"},
         Surveys!BeginEdit(q, n, step)
  PROVE  FormInv'
<1>. DEFINE new == [step |-> step, question |-> n]
<1>1. /\ work \in [Request -> FormRequest] /\ work' = [work EXCEPT ![q] = new]
      /\ UNCHANGED <<questions, writes, forms, filling>>
      /\ n \in DOMAIN questions /\ n \in Id /\ ~questions[n].isDefault
  BY DEF FormInv, FormsTyped, Surveys!BeginEdit, Surveys!MayChange
<1>2. new \in FormRequest
  BY <1>1 DEF FormRequest
<1>3. /\ work' \in [Request -> FormRequest]
      /\ work'[q] = new
      /\ \A p \in Request : p # q => work'[p] = work[p]
  BY <1>1, <1>2
<1>4. FormsTyped'
  BY <1>1, <1>3 DEF FormInv, FormsTyped
<1>5. Evolves
  BY <1>1 DEF Evolves
<1>6. AsksKept' /\ NoneTakenUp
  BY <1>1, <1>3, <1>5, AsksStay
<1>7. BuiltinsKept'
  BY <1>1, <1>3 DEF FormInv, BuiltinsKept
<1>8. FormsKept' /\ FillingsKept'
  BY <1>1, <1>5, <1>6, FormsStay, FillingsStay
<1>. QED
  BY <1>4, <1>6, <1>7, <1>8 DEF FormInv

\* A question that was not stored as a built-in one is written, and becomes
\* edited if it is required from now on, or no longer.
LEMMA ChangeKeepsForms ==
  ASSUME FormInv, NEW q \in Request, NEW n, NEW doc \in Surveys!QuestionDoc,
         work[q].step \in {"edit", "delete"}, n = work[q].question,
         doc.key = questions[n].key, doc.builtIn = questions[n].builtIn,
         questions[n].edited => doc.edited,
         doc.edited \/ doc.required = questions[n].required,
         questions' = [questions EXCEPT ![n] = doc],
         work' = [work EXCEPT ![q] = Surveys!Idle],
         UNCHANGED <<writes, forms, filling>>
  PROVE  FormInv'
<1>1. n \in DOMAIN questions /\ ~questions[n].builtIn
  BY DEF FormInv, BuiltinsKept
<1>2. /\ DOMAIN questions' = DOMAIN questions
      /\ questions' \in [DOMAIN questions -> Surveys!QuestionDoc]
      /\ questions'[n] = doc
      /\ \A m \in DOMAIN questions : m # n => questions'[m] = questions[m]
  BY <1>1 DEF FormInv, FormsTyped
<1>3. /\ work' \in [Request -> FormRequest]
      /\ \A p \in Request : work'[p].step # "idle" => work'[p] = work[p]
  BY DEF FormInv, FormsTyped, FormRequest, Surveys!Idle
<1>4. FormsTyped'
  BY <1>2, <1>3 DEF FormInv, FormsTyped
<1>5. Evolves
  BY <1>2 DEF Evolves
<1>6. AsksKept' /\ NoneTakenUp
  BY <1>2, <1>3, <1>5, AsksStay
<1>7. BuiltinsKept'
  BY <1>1, <1>2, <1>3, BuiltinsStay
<1>8. FormsKept' /\ FillingsKept'
  BY <1>5, <1>6, FormsStay, FillingsStay
<1>. QED
  BY <1>4, <1>6, <1>7, <1>8 DEF FormInv

LEMMA EditKeepsForms ==
  ASSUME FormInv, NEW q \in Request,
         \/ \E r, d \in BOOLEAN : Surveys!Edit(q, r, d)
         \/ Surveys!RemoveQuestion(q)
  PROVE  FormInv'
<1>. DEFINE n == work[q].question
<1>1. work[q].step \in {"edit", "delete"} /\ n \in DOMAIN questions
  BY DEF FormInv, BuiltinsKept, Surveys!Edit, Surveys!RemoveQuestion
<1>2. questions \in [DOMAIN questions -> Surveys!QuestionDoc]
      /\ questions[n] \in Surveys!QuestionDoc
  BY <1>1 DEF FormInv, FormsTyped
<1>. HIDE DEF n
<1>3. ASSUME NEW r \in BOOLEAN, NEW d \in BOOLEAN, Surveys!Edit(q, r, d)
      PROVE  FormInv'
  <2>. DEFINE doc == [questions[n] EXCEPT !.required = r, !.isDefault = d, !.edited = TRUE]
  <2>1. /\ questions' = IF questions[n].deleted THEN questions
                        ELSE [questions EXCEPT ![n] = doc]
        /\ work' = [work EXCEPT ![q] = Surveys!Idle] /\ UNCHANGED <<writes, forms, filling>>
    BY <1>1, <1>2, <1>3 DEF Surveys!Edit, n
  <2>2. /\ doc \in Surveys!QuestionDoc /\ doc.edited
        /\ doc.key = questions[n].key /\ doc.builtIn = questions[n].builtIn
    BY <1>2 DEF Surveys!QuestionDoc
  <2>. HIDE DEF doc
  <2>3. CASE questions[n].deleted
    <3>1. questions' = [questions EXCEPT ![n] = questions[n]]
      BY <1>2, <2>1, <2>3
    <3>. QED
      BY <1>1, <1>2, <2>1, <3>1, ChangeKeepsForms DEF n
  <2>4. CASE ~questions[n].deleted
    BY <1>1, <2>1, <2>2, <2>4, ChangeKeepsForms DEF n
  <2>. QED
    BY <2>3, <2>4
<1>4. ASSUME Surveys!RemoveQuestion(q)
      PROVE  FormInv'
  <2>. DEFINE doc == [questions[n] EXCEPT !.deleted = TRUE]
  <2>1. /\ questions' = [questions EXCEPT ![n] = doc]
        /\ work' = [work EXCEPT ![q] = Surveys!Idle] /\ UNCHANGED <<writes, forms, filling>>
    BY <1>1, <1>2, <1>4 DEF Surveys!RemoveQuestion, n
  <2>2. /\ doc \in Surveys!QuestionDoc
        /\ doc.edited = questions[n].edited /\ doc.required = questions[n].required
        /\ doc.key = questions[n].key /\ doc.builtIn = questions[n].builtIn
    BY <1>2 DEF Surveys!QuestionDoc
  <2>. HIDE DEF doc
  <2>. QED
    BY <1>1, <2>1, <2>2, ChangeKeepsForms DEF n
<1>. QED
  BY <1>3, <1>4

\* A customer opens a form or submits one; the forms stay.
LEMMA FillKeepsForms ==
  ASSUME FormInv, NEW c \in Customer,
         (\E f \in Form : Surveys!Open(c, f)) \/ Surveys!Submit(c)
  PROVE  FormInv'
<1>1. UNCHANGED <<questions, writes, forms, work>>
  BY DEF Surveys!Open, Surveys!Submit
<1>2. AsksKept' /\ BuiltinsKept' /\ FormsKept'
  <2>1. Evolves
    BY <1>1 DEF Evolves
  <2>2. AsksKept' /\ NoneTakenUp
    BY <1>1, <2>1, AsksStay
  <2>3. BuiltinsKept'
    BY <1>1, BuiltinsStay
  <2>. QED
    BY <1>1, <2>1, <2>2, <2>3, FormsStay
<1>3. filling \in [Customer -> FilledForm] /\ Settled' = Settled
      /\ forms \in [Form -> FormTypes] /\ Settled \subseteq Id
  BY <1>1 DEF FormInv, FormsTyped, FormTypes, Settled, Asking
<1>4. ASSUME NEW f \in Form, Surveys!Open(c, f)
      PROVE  filling' \in [Customer -> FilledForm] /\ FillingsKept'
  <2>. DEFINE new == [step |-> "shown", form |-> f, refs |-> forms[f].refs,
                      answered |-> Surveys!RequiredOf(f)]
  <2>1. filling' = [filling EXCEPT ![c] = new]
    BY <1>4 DEF Surveys!Open
  <2>2. forms[f].refs \in Seq(Id)
        /\ \A i \in 1..Len(forms[f].refs) : forms[f].refs[i] \in Settled
    BY <1>3 DEF FormTypes, FormInv, FormsKept
  <2>3. Surveys!RequiredOf(f) \subseteq Id
        /\ \A i \in 1..Len(forms[f].refs) : questions[forms[f].refs[i]].required
             => forms[f].refs[i] \in Surveys!RequiredOf(f)
    BY <2>2 DEF Surveys!RequiredOf, Surveys!Shown, Surveys!Range
  <2>4. forms[f].refs # <<>>
    <3>1. Whole(KeysOf(f))
      BY <1>4 DEF Surveys!Open, FormInv, FormsKept
    <3>2. Len(KeysOf(f)) >= 1
      BY <3>1, BuiltinAssumption DEF Whole
    <3>3. Len(KeysOf(f)) = Len(forms[f].refs)
      BY <2>2 DEF KeysOf
    <3>. QED
      BY <3>2, <3>3
  <2>5. new \in FilledForm
    BY <2>2, <2>3 DEF FilledForm
  <2>6. /\ filling' \in [Customer -> FilledForm] /\ filling'[c] = new
        /\ \A b \in Customer : b # c => filling'[b] = filling[b]
    BY <1>3, <2>1, <2>5
  <2>. HIDE DEF new
  <2>7. /\ new.step = "shown" /\ new.refs = forms[f].refs
        /\ new.answered = Surveys!RequiredOf(f)
    BY DEF new
  <2>. QED
    BY <1>1, <1>3, <2>2, <2>3, <2>4, <2>6, <2>7 DEF FormInv, FillingsKept, Changed
<1>5. ASSUME Surveys!Submit(c)
      PROVE  filling' \in [Customer -> FilledForm] /\ FillingsKept'
  <2>. DEFINE a == filling[c]
              step == IF Surveys!MustAnswer(a.form) \subseteq a.answered
                      THEN "taken" ELSE "refused"
  <2>1. a.step = "shown" /\ filling' = [filling EXCEPT ![c].step = step]
    BY <1>5 DEF Surveys!Submit
  <2>2. a.form \in Form /\ a.refs \in Seq(Id) /\ a.answered \subseteq Id /\ a \in FilledForm
    <3>1. a \in FilledForm
      BY <1>3
    <3>. HIDE DEF a
    <3>. QED
      BY <2>1, <3>1 DEF FilledForm, Surveys!Idle
  <2>3. step \in {"taken", "refused"}
    OBVIOUS
  <2>4. step = "refused" => Changed(c)
    <3>. SUFFICES ASSUME ~(Surveys!MustAnswer(a.form) \subseteq a.answered), ~Changed(c)
         PROVE  FALSE
      OBVIOUS
    <3>1. forms[a.form].refs = a.refs
      BY DEF Changed
    <3>2. PICK n \in Surveys!MustAnswer(a.form) : n \notin a.answered
      OBVIOUS
    <3>3. PICK i \in 1..Len(a.refs) : n = a.refs[i] /\ questions[n].required
      BY <2>2, <3>1 DEF Surveys!MustAnswer, Surveys!Shown, Surveys!Range
    <3>. QED
      BY <2>1, <3>2, <3>3 DEF FormInv, FillingsKept
  <2>. HIDE DEF step
  <2>5. filling'[c] = [a EXCEPT !.step = step]
        /\ \A b \in Customer : b # c => filling'[b] = filling[b]
    BY <1>3, <2>1
  <2>6. /\ filling'[c] \in FilledForm /\ filling'[c].step = step
        /\ filling'[c].form = a.form /\ filling'[c].refs = a.refs
    <3>. HIDE DEF a
    <3>. QED
      BY <2>1, <2>2, <2>3, <2>5 DEF FilledForm, Surveys!Idle
  <2>7. filling' \in [Customer -> FilledForm]
    BY <1>3, <2>1, <2>5, <2>6
  <2>8. FillingsKept'
    BY <1>1, <1>3, <2>1, <2>3, <2>4, <2>5, <2>6 DEF FormInv, FillingsKept, Changed
  <2>. QED
    BY <2>7, <2>8
<1>6. FormsTyped' /\ FillingsKept'
  BY <1>1, <1>4, <1>5 DEF FormInv, FormsTyped
<1>. QED
  BY <1>2, <1>6 DEF FormInv

LEMMA FormInvStep ==
  ASSUME FormInv, [Surveys!Next]_formVars
  PROVE  FormInv'
<1>1. CASE UNCHANGED formVars
  <2>1. UNCHANGED <<questions, writes, forms, work, filling>>
    BY <1>1 DEF formVars
  <2>2. /\ forms \in [Form -> [stored : BOOLEAN, deleted : BOOLEAN, refs : Seq(Id)]]
        /\ work \in [Request -> FormRequest]
    BY DEF FormInv, FormsTyped
  <2>. QED
    BY <2>1, <2>2, RestKeepsForms
<1>2. CASE Surveys!Next
  BY <1>2, AskKeepsForms, InsertKeepsForms, WriteKeepsForms, AbandonKeepsForms,
     BeginEditKeepsForms, EditKeepsForms, FillKeepsForms DEF Surveys!Next
<1>. QED
  BY <1>1, <1>2

LEMMA FormInvTyped ==
  ASSUME FormInv
  PROVE  Surveys!TypeOK
<1>1. \A n \in DOMAIN questions : questions[n] \in Surveys!QuestionDoc
  BY DEF FormInv, FormsTyped
<1>2. ASSUME NEW f \in Form
      PROVE  forms[f] \in Surveys!FormDoc /\ Surveys!Range(forms[f].refs) \subseteq DOMAIN questions
  <2>1. forms[f] \in Surveys!FormDoc /\ forms[f].refs \in Seq(Id)
    BY DEF FormInv, FormsTyped, Surveys!FormDoc, Id
  <2>2. \A i \in 1..Len(forms[f].refs) : forms[f].refs[i] \in DOMAIN questions
    BY DEF FormInv, FormsKept, Settled
  <2>. QED
    BY <2>1, <2>2 DEF Surveys!Range
<1>3. \A q \in Request : work[q].step \in {"idle", "ask", "edit", "delete"}
  BY DEF FormInv, FormsTyped, FormRequest, Surveys!Idle
<1>4. \A c \in Customer : filling[c].step \in {"idle", "shown", "refused", "taken"}
  BY DEF FormInv, FormsTyped, FilledForm, Surveys!Idle
<1>. QED
  BY <1>1, <1>2, <1>3, <1>4 DEF Surveys!TypeOK, FormInv, FormsTyped, Id

-------------------------------------------------------------------------------
(* The composition                                                         *)

\* A step is one of the component that runs.
LEMMA PartSteps ==
  ASSUME [AllNext]_AllVars
  PROVE  /\ part' = part
         /\ part = "accounts" => [Accounts!Next]_accountVars
         /\ part = "admins" => [Admins!Next]_adminVars
         /\ part = "reviews" => [Feedback!Next]_reviewVars
         /\ part = "outlets" => [Places!Next]_outletVars
         /\ part = "forms" => [Surveys!Next]_formVars
         /\ part = "receipts" => [Receipts!Next]_receiptVars
         /\ part = "lists" => [Lists!Next]_listVars
<1>1. CASE UNCHANGED AllVars
  BY <1>1 DEF AllVars
<1>2. CASE AccountStep \/ AdminStep \/ ReviewStep \/ OutletStep
  BY <1>2 DEF AccountStep, AdminStep, ReviewStep, OutletStep
<1>3. CASE FormStep \/ ReceiptStep \/ ListStep
  BY <1>3 DEF FormStep, ReceiptStep, ListStep
<1>. QED
  BY <1>1, <1>2, <1>3 DEF AllNext

\* Every component keeps its variables within their types (AllTypeOK): a
\* message that is sent is one of Expo's tokens, a reference of a form one to a
\* stored question, a request of an outlet or of a review one to a document.
THEOREM AllTyped == AllSpec => []AllTypeOK
<1>. DEFINE Inv == /\ part \in Parts
                   /\ part = "accounts" => AccountInv
                   /\ part = "admins" => AdminInv
                   /\ part = "reviews" => ReviewInv
                   /\ part = "outlets" => OutletInv
                   /\ part = "forms" => FormInv
                   /\ part = "receipts" => ReceiptInv /\ ReceiptRest
                   /\ part = "lists" => ListInv
<1>1. AllInit => Inv
  BY InitAccountInv, InitAdminInv, InitReviewInv, InitOutletInv, InitFormInv,
     InitReceiptInv, InitReceiptRest, InitListInv, BoundsAssumption DEF AllInit
<1>2. Inv /\ [AllNext]_AllVars => Inv'
  BY PartSteps, AccountInvStep, AdminInvStep, ReviewInvStep, OutletInvStep, FormInvStep,
     ReceiptInvStep, ReceiptRestStep, ListInvStep
<1>3. Inv => AllTypeOK
  BY FormInvTyped, ReceiptTypes
     DEF AllTypeOK, AccountInv, AdminInv, ReviewInv, OutletInv, ListInv
<1>. QED
  BY <1>1, <1>2, <1>3, PTL DEF AllSpec

\* However many requests look for the account of a number and then create or
\* revive one, and however they interleave, die, and alternate with edits and
\* removals: two accounts have a number in common only if one of them was
\* revived under a number typed with spaces (OneAccountPerNumber).
THEOREM AccountsAreUnique == AllSpec => []OneAccountPerNumber
<1>. DEFINE Inv == part = "accounts" => AccountInv
<1>1. AllInit => Inv
  BY InitAccountInv DEF AllInit
<1>2. Inv /\ [AllNext]_AllVars => Inv'
  BY PartSteps, AccountInvStep
<1>3. Inv => OneAccountPerNumber
  BY AccountInvImplies DEF OneAccountPerNumber
<1>. QED
  BY <1>1, <1>2, <1>3, PTL DEF AllSpec

\* Every answer of getAdminIds, cached or not, is the set of admins of an
\* instant of the last minute (AdminsRecent): for any people and any number of
\* overlapping calls, whatever the minute is divided into, however slow their
\* queries are and in whatever order they answer.
THEOREM AnswersRecent == AllSpec => []AdminsRecent
<1>. DEFINE Inv == part = "admins" => AdminInv
<1>1. AllInit => Inv
  BY InitAdminInv, BoundsAssumption DEF AllInit
<1>2. Inv /\ [AllNext]_AllVars => Inv'
  BY PartSteps, AdminInvStep
<1>3. Inv => AdminsRecent
  BY DEF AdminsRecent, AdminInv
<1>. QED
  BY <1>1, <1>2, <1>3, PTL DEF AllSpec

\* A complaint that was resolved is told of once, however many people resolve
\* it at once; a user has read a review once; the two functions that compute
\* the badge agree, and its user can find and mark what it counts
\* (ComplaintsTracked): for any outlets, people, reviews and requests.
THEOREM ComplaintsAreTracked == AllSpec => []ComplaintsTracked
<1>. DEFINE Inv == part = "reviews" => ReviewInv
<1>1. AllInit => Inv
  BY InitReviewInv DEF AllInit
<1>2. Inv /\ [AllNext]_AllVars => Inv'
  BY PartSteps, ReviewInvStep
<1>3. Inv => ComplaintsTracked
  BY ReviewInvImplies DEF ComplaintsTracked
<1>. QED
  BY <1>1, <1>2, <1>3, PTL DEF AllSpec

\* Whatever requests create, rename and remove tables at once and whichever of
\* them die between their two writes: an outlet's list and its live tables
\* differ only as recorded, live tables of an outlet have different names, and
\* a scan opens only an outlet that was open when it began (TablesAgree).
THEOREM TablesFollowOutlets == AllSpec => []TablesAgree
<1>. DEFINE Inv == part = "outlets" => OutletInv
<1>1. AllInit => Inv
  BY InitOutletInv DEF AllInit
<1>2. Inv /\ [AllNext]_AllVars => Inv'
  BY PartSteps, OutletInvStep
<1>3. Inv => TablesAgree
  BY OutletInvImplies DEF TablesAgree
<1>. QED
  BY <1>1, <1>2, <1>3, PTL DEF AllSpec

\* However many creations and updates store their questions at once, and in
\* whatever order their inserts, edits and deletions finish: a stored form has
\* every built-in question, unchanged and first, none twice and none of another
\* form, and a customer who answered what was asked is refused only if the form
\* changed (FormsWhole): for any forms, customers, questions and what is asked.
THEOREM FormsStayWhole == AllSpec => []FormsWhole
<1>. DEFINE Inv == part = "forms" => FormInv
<1>1. AllInit => Inv
  BY InitFormInv DEF AllInit
<1>2. Inv /\ [AllNext]_AllVars => Inv'
  BY PartSteps, FormInvStep
<1>3. Inv => FormsWhole
  BY FormInvImplies DEF FormsWhole
<1>. QED
  BY <1>1, <1>2, <1>3, PTL DEF AllSpec

\* However pushes, devices, Expo's answers and overlapping or dying runs of the
\* cron interleave: a dead device's ticket stays until it was handled or a day
\* has passed, only tokens Expo reported are taken from users, and a push is
\* reported as submitted only if every token was handed over (ReceiptsSettled):
\* for any users, devices, tickets, instances and batch limit.
THEOREM ReceiptsAreSettled == AllSpec => []ReceiptsSettled
<1>. DEFINE Inv == part = "receipts" => ReceiptInv
<1>1. AllInit => Inv
  BY InitReceiptInv DEF AllInit
<1>2. Inv /\ [AllNext]_AllVars => Inv'
  BY PartSteps, ReceiptInvStep
<1>3. Inv => ReceiptsSettled
  BY ReceiptInvImplies DEF ReceiptsSettled
<1>. QED
  BY <1>1, <1>2, <1>3, PTL DEF AllSpec

\* Whoever assigns, delegates, moves, completes, comments or reads, and whatever
\* happens to outlets and managers: the badges agree with one another and with
\* the lists they belong to, and a task on the screen can be opened while its
\* outlet and its managers stay (BadgesMatchLists): for any people and outlets.
THEOREM BadgesFollowLists == AllSpec => []BadgesMatchLists
<1>. DEFINE Inv == part = "lists" => ListInv
<1>1. AllInit => Inv
  BY InitListInv DEF AllInit
<1>2. Inv /\ [AllNext]_AllVars => Inv'
  BY PartSteps, ListInvStep
<1>3. Inv => BadgesMatchLists
  BY ListInvImplies DEF BadgesMatchLists
<1>. QED
  BY <1>1, <1>2, <1>3, PTL DEF AllSpec
===============================================================================
