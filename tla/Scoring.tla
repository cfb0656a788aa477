------------------------------ MODULE Scoring -------------------------------
(***************************************************************************)
(* shared/tls_audit/scoring.py: the public score and grade of a report, as *)
(* functions of its findings.                                              *)
(*                                                                         *)
(* A finding keeps what penalty_key tells apart: severity, code, title and *)
(* grade cap (a category follows from the code).  The findings of a report *)
(* are therefore a set: two with one key are penalised once, and a cap or  *)
(* a recommendation is the same whether it occurs once or twice.           *)
(***************************************************************************)
EXTENDS Integers, FiniteSets

Severities == {"critical", "high", "medium", "low", "info"}

\* GRADE_ORDER: a grade is its place in A+, A, B, C, D; greater is worse.
APlus == 1
GradeA == 2
GradeB == 3
GradeC == 4
GradeD == 5
Grades == APlus .. GradeD
NoCap == 0

PublicFloor == 40

Of(F, severity) == {f \in F : f.severity = severity}

PenaltyFor(severity) ==
  CASE severity = "critical" -> 100
    [] severity = "high" -> 25
    [] severity = "medium" -> 10
    [] severity = "low" -> 5
    [] OTHER -> 0

Penalty(F) ==
  100 * Cardinality(Of(F, "critical")) + 25 * Cardinality(Of(F, "high"))
    + 10 * Cardinality(Of(F, "medium")) + 5 * Cardinality(Of(F, "low"))

RawScore(F) == IF Penalty(F) >= 100 THEN 0 ELSE 100 - Penalty(F)

\* Mutant: the floor replaces the score of every bad report by zero.
ScoreWithoutFloor(F) == IF RawScore(F) <= PublicFloor THEN 0 ELSE RawScore(F)
Score(F) == IF RawScore(F) <= PublicFloor THEN PublicFloor ELSE RawScore(F)

GradeFromScore(score) ==
  CASE score >= 95 -> APlus
    [] score >= 85 -> GradeA
    [] score >= 70 -> GradeB
    [] score >= 55 -> GradeC
    [] OTHER -> GradeD

Worst(grades) == CHOOSE g \in grades : \A h \in grades : h <= g

\* The grade of the score, made worse by every cap.
Grade(F) == Worst({GradeFromScore(Score(F))} \union {f.cap : f \in F})

=============================================================================
