------------------------------- MODULE Forms -------------------------------
(***************************************************************************)
(* Forms, their questions and the customers who fill them (form.service.ts,*)
(* question.service.ts, the check of required answers in review.service.ts)*)
(*                                                                         *)
(* A form refers to questions that are documents of their own.  Creating   *)
(* or updating a form stores a fresh copy of every question, the built-in  *)
(* ones first, each with an insert of its own and all at once, and then    *)
(* the form with the references.  Questions are edited and deleted one by  *)
(* one, except the built-in ones, with a check and then a write.  A        *)
(* customer fills the form as it was shown, and the answers are checked    *)
(* against the form as it is when they arrive.                             *)
(***************************************************************************)
EXTENDS Integers, Sequences, FiniteSets, SequencesExt

CONSTANTS
  Form,            \* forms that may be created
  Request,         \* requests in flight
  Customer,        \* customers filling a form
  Builtin,         \* the keys of the built-in questions, in their order
  Asked,           \* the sequences of keys an administrator may ask
  Required,        \* the keys of the questions first asked as required
  WriteLimit,      \* bound: creations and updates of forms
  ChangeLimit      \* bound: questions edited or deleted

Key == Range(Builtin) \cup UNION {Range(a) : a \in Asked}

Idle == [step |-> "idle"]

\* A question document, with builtIn: it was stored with isDefault TRUE.
QuestionDoc == [key : Key, builtIn : BOOLEAN, isDefault : BOOLEAN,
                required : BOOLEAN, deleted : BOOLEAN, edited : BOOLEAN]

\* A question's id: the write that stored it, and its place in that write.
QuestionId == (1..WriteLimit) \X (1..Len(Builtin) + Cardinality(Key))

VARIABLES
  questions,   \* the stored questions, by id: documents are never erased
  writes,      \* the creations and updates begun
  forms,       \* forms[f]: stored, deleted and the references in order
  work,        \* work[q]: what the request q has done so far
  filling      \* filling[c]: the form shown to c, and what became of it

vars == <<questions, writes, forms, work, filling>>

FormDoc == [stored : BOOLEAN, deleted : BOOLEAN, refs : Seq(QuestionId)]

TypeOK ==
  /\ DOMAIN questions \subseteq QuestionId
  /\ \A n \in DOMAIN questions : questions[n] \in QuestionDoc
  /\ writes \in 0..WriteLimit
  /\ \A f \in Form : /\ forms[f] \in FormDoc
                     /\ Range(forms[f].refs) \subseteq DOMAIN questions
  /\ \A q \in Request : work[q].step \in {"idle", "ask", "edit", "delete"}
  /\ \A c \in Customer : filling[c].step \in {"idle", "shown", "refused", "taken"}

Init ==
  /\ questions = <<>>
  /\ writes = 0
  /\ forms = [f \in Form |-> [stored |-> FALSE, deleted |-> FALSE, refs |-> <<>>]]
  /\ work = [q \in Request |-> Idle]
  /\ filling = [c \in Customer |-> Idle]

----------------------------------------------------------------------------
(* Storing a form's questions.                                             *)

Everything(asked) == Builtin \o asked

\* mergeWithDefaultQuestions: the built-in questions, then those asked for
\* whose key (type and title) was not seen yet.
Merged(asked) ==
  LET all == Builtin \o asked
      seen[n \in 0..Len(all)] ==
        IF n = 0 THEN <<>>
        ELSE IF all[n] \in Range(seen[n - 1]) THEN seen[n - 1]
        ELSE Append(seen[n - 1], all[n])
  IN seen[Len(all)]

\* create and update begin alike: for an update the form need not exist yet,
\* that is only found when it is written.
Ask(q, f, asked) ==
  /\ work[q] = Idle
  /\ writes < WriteLimit
  /\ writes' = writes + 1
  /\ work' = [work EXCEPT ![q] =
       [step |-> "ask", form |-> f, keys |-> Merged(asked), write |-> writes']]
  /\ UNCHANGED <<questions, forms, filling>>

\* One of the inserts, in any order.  The built-in questions are required but
\* the last, which is a paragraph.
Insert(q, i) ==
  LET w == work[q] IN
  /\ w.step = "ask"
  /\ i \in DOMAIN w.keys /\ <<w.write, i>> \notin DOMAIN questions
  /\ questions' = [n \in DOMAIN questions \cup {<<w.write, i>>} |->
       IF n \in DOMAIN questions THEN questions[n]
       ELSE [key |-> w.keys[i], builtIn |-> i <= Len(Builtin), isDefault |-> i <= Len(Builtin),
             required |-> w.keys[i] \in Required, deleted |-> FALSE, edited |-> FALSE]]
  /\ UNCHANGED <<writes, forms, work, filling>>

AnyStored(w) == \E i \in DOMAIN w.keys : <<w.write, i>> \in DOMAIN questions

AllStored(w) == \A i \in DOMAIN w.keys : <<w.write, i>> \in DOMAIN questions

\* Promise.all waits for the last insert; then the form is written: a new
\* one, or the references of one that is live.  An update of a form that is
\* not there ends with 404, and its questions stay behind.
WriteForm(q) ==
  LET w == work[q] IN
  /\ w.step = "ask" /\ AllStored(w)
  /\ forms' = IF forms[w.form].deleted THEN forms
                ELSE [forms EXCEPT ![w.form].stored = TRUE,
                                   ![w.form].refs = [i \in DOMAIN w.keys |-> <<w.write, i>>]]
  /\ work' = [work EXCEPT ![q] = Idle]
  /\ UNCHANGED <<questions, writes, filling>>

\* A failed insert ends the request with 500, or the process dies: the
\* questions stored so far stay behind.
Abandon(q) ==
  /\ work[q].step = "ask"
  /\ work' = [work EXCEPT ![q] = Idle]
  /\ UNCHANGED <<questions, writes, forms, filling>>

RemoveForm(f) ==
  /\ forms[f].stored /\ ~forms[f].deleted
  /\ forms' = [forms EXCEPT ![f].deleted = TRUE]
  /\ UNCHANGED <<questions, writes, work, filling>>

----------------------------------------------------------------------------
(* Single questions.                                                       *)

\* 'Default questions cannot be modified', 'Default questions cannot be
\* deleted'.
MayChange(n) == ~questions[n].isDefault

\* update and remove: the check ...
BeginEdit(q, n, step) ==
  /\ work[q] = Idle
  /\ n \in DOMAIN questions /\ ~questions[n].deleted /\ MayChange(n)
  /\ Cardinality({m \in DOMAIN questions : questions[m].edited \/ questions[m].deleted})
       < ChangeLimit
  /\ work' = [work EXCEPT ![q] = [step |-> step, question |-> n]]
  /\ UNCHANGED <<questions, writes, forms, filling>>

\* ... and the write, whose filter only asks that the question is live.  An
\* update may make the question required, or a default one.
Edit(q, required, default) ==
  LET n == work[q].question IN
  /\ work[q].step = "edit"
  /\ questions' = IF questions[n].deleted THEN questions
                    ELSE [questions EXCEPT ![n].required = required,
                                           ![n].isDefault = default,
                                           ![n].edited = TRUE]
  /\ work' = [work EXCEPT ![q] = Idle]
  /\ UNCHANGED <<writes, forms, filling>>

RemoveQuestion(q) ==
  LET n == work[q].question IN
  /\ work[q].step = "delete"
  /\ questions' = [questions EXCEPT ![n].deleted = TRUE]
  /\ work' = [work EXCEPT ![q] = Idle]
  /\ UNCHANGED <<writes, forms, filling>>

----------------------------------------------------------------------------
(* Filling a form.                                                         *)

\* getOrderedQuestionStages: the questions of a form in order, deleted ones
\* included.
Shown(f) == Range(forms[f].refs)

RequiredOf(f) == {n \in Shown(f) : questions[n].required}

\* The customer opens a form and answers what it requires.
Open(c, f) ==
  /\ filling[c] = Idle
  /\ forms[f].stored /\ ~forms[f].deleted
  /\ filling' = [filling EXCEPT ![c] =
       [step |-> "shown", form |-> f, refs |-> forms[f].refs, answered |-> RequiredOf(f)]]
  /\ UNCHANGED <<questions, writes, forms, work>>

\* create: a required question must have an answer.  A deleted form is still
\* found.
MustAnswer(f) == {n \in Shown(f) : questions[n].required}

Submit(c) ==
  LET a == filling[c] IN
  /\ a.step = "shown"
  /\ filling' = [filling EXCEPT ![c].step =
       IF MustAnswer(a.form) \subseteq a.answered THEN "taken" ELSE "refused"]
  /\ UNCHANGED <<questions, writes, forms, work>>

Next ==
  \/ \E q \in Request :
       \/ \E f \in Form, asked \in Asked : Ask(q, f, asked)
       \/ \E i \in 1..Len(Builtin) + Cardinality(Key) : Insert(q, i)
       \/ WriteForm(q)
       \/ Abandon(q)
       \/ \E n \in QuestionId, step \in {"edit", "delete"} : BeginEdit(q, n, step)
       \/ \E r, d \in BOOLEAN : Edit(q, r, d)
       \/ RemoveQuestion(q)
  \/ \E f \in Form : RemoveForm(f)
  \/ \E c \in Customer : (\E f \in Form : Open(c, f)) \/ Submit(c)

Spec == Init /\ [][Next]_vars

----------------------------------------------------------------------------
(* Properties.                                                             *)

\* A stored form holds every built-in question, first and in order, and no
\* question twice, whichever requests wrote it at once and in whatever order
\* their inserts finished; and no two forms share a question, so an edit
\* changes one form.
FormWhole ==
  \A f \in Form : forms[f].stored =>
    LET keys == [i \in DOMAIN forms[f].refs |-> questions[forms[f].refs[i]].key] IN
    /\ IsPrefix(Builtin, keys)
    /\ IsInjective(keys)
    /\ \A g \in Form \ {f} : Shown(f) \cap Shown(g) = {}

\* A question stored as a built-in one is never changed or deleted, although
\* the check and the write are two steps and an update may turn a question
\* into a default one in between.
BuiltinsStay ==
  \A n \in DOMAIN questions :
    questions[n].builtIn => ~questions[n].edited /\ ~questions[n].deleted

\* A customer who answered all that the form required when it was shown is
\* refused only when the form was written again since, or one of its questions
\* edited.  (Every rewrite replaces the questions by copies with new ids: a
\* form opened before is refused after it.)
RefusedOnlyIfChanged ==
  \A c \in Customer : filling[c].step = "refused" =>
    \/ forms[filling[c].form].refs # filling[c].refs
    \/ \E n \in Shown(filling[c].form) : questions[n].edited

============================================================================
