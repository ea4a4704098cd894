------------------------------ MODULE Ratings ------------------------------
(***************************************************************************)
(* Ratings (review.service.ts): the overall rating a review gets from its  *)
(* star answers, which have scales of their own, and the public summary of *)
(* an outlet's ratings.                                                    *)
(*                                                                         *)
(* One star is 36 units, so that an answer on a scale of 3, 5 or 10 is a   *)
(* whole number of units; overallRating is in tenths of a star.  The code  *)
(* computes in doubles: a tie of tenths that is not exact there may round  *)
(* the other way.                                                          *)
(***************************************************************************)
EXTENDS Integers, Sequences, FiniteSets, SequencesExt, FiniteSetsExt

CONSTANTS
  Scales,        \* maxRatings of the star questions
  Stars,         \* the numbers customers answer, of any scale or none
  AnswerLimit,   \* bound: star answers of a review
  ReviewLimit    \* bound: reviews stored

VARIABLES
  answers,   \* the star answers of the review being filled
  ratings    \* the overallRating of each stored review

vars == <<answers, ratings>>

Answer == [maxRatings : Scales, num : Stars]

TypeOK ==
  /\ answers \in Seq(Answer) /\ Len(answers) <= AnswerLimit
  /\ ratings \in Seq(10..50) /\ Len(ratings) <= ReviewLimit

Init == answers = <<>> /\ ratings = <<>>

----------------------------------------------------------------------------
(* computeOverallRatingFromResponses.                                      *)

Clamp(n, low, high) == Max({low, Min({n, high})})

\* A maxRatings that is none of 3, 5, 10 counts as 5.
ScaleOf(q) == IF q.maxRatings \in {3, 5, 10} THEN q.maxRatings ELSE 5

\* The steps of a scale of m are m - 1.
Normalized(q) == 36 + (Clamp(q.num, 1, ScaleOf(q)) - 1) * (144 \div (ScaleOf(q) - 1))

\* The same answer in getGlobalCsat's breakdown (analytics.service.ts), which
\* takes every scale of 2 or more as it is.
AsItIs(q) == [q EXCEPT !.maxRatings = Max({2, @})]

DashboardUnits(q) ==
  LET scale == AsItIs(q).maxRatings IN
  36 + (Clamp(q.num, 1, scale) - 1) * (144 \div (scale - 1))

SumOf(seq) ==
  LET sum[n \in 0..Len(seq)] == IF n = 0 THEN 0 ELSE sum[n - 1] + seq[n]
  IN  sum[Len(seq)]

\* n / d rounded to the nearest whole number, ties up (Math.round).
Rounded(n, d) == (2 * n + d) \div (2 * d)

\* Mutant: a review without star answers is not rated.
RatingOrNone(as) ==
  IF as = <<>> THEN 0
  ELSE Clamp(Rounded(10 * SumOf([i \in DOMAIN as |-> Normalized(as[i])]), 36 * Len(as)), 10, 50)

OverallRating(as) ==
  IF as = <<>> THEN 10
  ELSE Clamp(Rounded(10 * SumOf([i \in DOMAIN as |-> Normalized(as[i])]), 36 * Len(as)), 10, 50)

----------------------------------------------------------------------------
(* getRatingsSummary.                                                      *)

\* MongoDB rounds ties to the even number.
WholeStarsDown(rating) == Clamp(rating \div 10, 1, 5)

WholeStars(rating) ==
  Clamp(IF rating % 10 = 5 THEN (rating \div 10) + ((rating \div 10) % 2)
        ELSE Rounded(rating, 10), 1, 5)

\* The stars, from 5 down, with how many reviews have them and their share in
\* tenths of a percent.
Breakdown ==
  [i \in 1..5 |->
     LET star == 6 - i
         count == Cardinality({n \in DOMAIN ratings : WholeStars(ratings[n]) = star}) IN
     [rating |-> star, count |-> count,
      percentage |-> IF ratings = <<>> THEN 0 ELSE Rounded(1000 * count, Len(ratings))]]

AverageRating == IF ratings = <<>> THEN 0 ELSE Rounded(SumOf(ratings), Len(ratings))

----------------------------------------------------------------------------
(* A customer answers and submits; administrators delete reviews.          *)

Fill(q) ==
  /\ Len(answers) < AnswerLimit /\ Len(ratings) < ReviewLimit
  /\ answers' = Append(answers, q)
  /\ UNCHANGED ratings

Submit ==
  /\ Len(ratings) < ReviewLimit
  /\ ratings' = Append(ratings, OverallRating(answers))
  /\ answers' = <<>>

Delete(n) ==
  /\ n \in DOMAIN ratings
  /\ ratings' = RemoveAt(ratings, n)
  /\ UNCHANGED answers

Next ==
  \/ \E q \in Answer : Fill(q)
  \/ Submit
  \/ \E n \in 1..ReviewLimit : Delete(n)

Spec == Init /\ [][Next]_vars

----------------------------------------------------------------------------
(* Properties.                                                             *)

\* The overall rating orders reviews as their answers do, whatever scales the
\* questions have: a better answer never lowers it, it lies between the
\* ratings the answers would give alone, and it reaches the ends of the scale
\* when every answer is at the end of its own.
RatingFollowsAnswers ==
  answers # <<>> =>
    LET alone == {OverallRating(<<answers[i]>>) : i \in DOMAIN answers} IN
    /\ \A i \in DOMAIN answers : \A more \in Stars :
         more >= answers[i].num =>
           OverallRating([answers EXCEPT ![i].num = more]) >= OverallRating(answers)
    /\ OverallRating(answers) \in Min(alone)..Max(alone)
    /\ (\A i \in DOMAIN answers : answers[i].num >= ScaleOf(answers[i]))
         => OverallRating(answers) = 50
    /\ (\A i \in DOMAIN answers : answers[i].num <= 1) => OverallRating(answers) = 10

\* An answer has one score: on the scales the reviews know, the dashboard's
\* breakdown by question computes the rating the review got, although the two
\* services normalise by themselves.
DashboardAgrees ==
  \A i \in DOMAIN answers :
    answers[i].maxRatings \in {3, 5, 10} =>
      Rounded(10 * DashboardUnits(answers[i]), 36) = OverallRating(<<answers[i]>>)

\* The bars of the summary account for every review once, their shares make
\* 100% but for the rounding, and they tell the same story as the average:
\* the mean of the bars is at most half a star off.
SummaryAddsUp ==
  LET count(i) == Breakdown[i].count
      total == Len(ratings)
      weighted == SumOf([i \in 1..5 |-> 10 * Breakdown[i].rating * count(i)]) IN
  /\ SumOf([i \in 1..5 |-> count(i)]) = total
  /\ total # 0 =>
       /\ SumOf([i \in 1..5 |-> Breakdown[i].percentage]) \in 998..1002
       /\ 2 * (weighted - SumOf(ratings)) \in (-10 * total)..(10 * total)
       /\ 2 * (weighted - AverageRating * total) \in (-11 * total)..(11 * total)

============================================================================
