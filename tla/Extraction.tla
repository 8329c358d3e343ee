----------------------------- MODULE Extraction -----------------------------
(***************************************************************************)
(* What the extractors make of a caption (internal/extraction): the rules  *)
(* with their score (rules.go) and the answer of an LLM with its own       *)
(* (llm.go).  A caption is a sequence of kinds of lines, and a method is   *)
(* as long as it has lines.  A score is an integer in 0..One, each         *)
(* division rounded down.                                                  *)
(***************************************************************************)
EXTENDS Integers, Sequences, FiniteSets

CONSTANTS
    One,         \* the score 1.0
    FullCount,   \* fullIngredientCount: ingredients that make a list
    FullLength,  \* fullInstructionRunes, in lines: instructions that make a method
    Captions,    \* bound: the captions of posts
    Answers      \* bound: what an LLM answers

Headers   == {"ingredients", "instructions"}
LineKinds == Headers \cup
    {"measured",  \* "300 g Mehl": an amount and a name
     "short",     \* "Salz": few words, no amount
     "prose",     \* more than maxUnitlessIngredientWords of them
     "tags",      \* begins with "#"
     "emoji",     \* no letter, digit or "#"
     "blank"}

\* The confidence an LLM claims may be any number.
AllAnswers == [sentinel : BOOLEAN, listed : Nat, measured : Nat, length : Nat, score : Int]

ASSUME ExtractionAssumption ==
    /\ One \in Nat \ {0} /\ FullCount \in Nat \ {0} /\ FullLength \in Nat \ {0}
    /\ Captions \subseteq Seq(LineKinds)
    /\ Answers \subseteq AllAnswers /\ \A a \in Answers : a.measured <= a.listed

Least(m, n) == IF m <= n THEN m ELSE n

\* min(1, m/n)
Share(m, n) == (One * Least(m, n)) \div n

-----------------------------------------------------------------------------
(* The rules.                                                              *)

\* The section line k is in: the last header up to it, or none yet.
Section(lines, k) ==
    LET above == {j \in 1..k : lines[j] \in Headers}
    IN  IF above = {} THEN "head" ELSE lines[CHOOSE j \in above : \A i \in above : i <= j]

\* The lines a section offers.
Offered(lines, section) ==
    {k \in DOMAIN lines : /\ lines[k] \notin Headers \cup {"blank"}
                          /\ Section(lines, k) = section}

\* parseIngredientLine: the lines of the list that yield an ingredient.
Ingredients(lines) == {k \in Offered(lines, "ingredients") : lines[k] \in {"measured", "short"}}
Measured(lines)    == {k \in Ingredients(lines) : lines[k] = "measured"}
Instructions(lines) == Offered(lines, "instructions")

\* recipeTitle: a line before the first header that is more than decoration.
Titled(lines) == \E k \in Offered(lines, "head") : lines[k] \notin {"tags", "emoji"}

\* ingredientScore: enough of them, most lines read, amounts read off.
IngredientScore(n, offered, measured) ==
    IF n = 0 THEN 0
    ELSE (6 * Share(n, FullCount) + 2 * Share(n, offered) + 2 * Share(measured, n)) \div 10

InstructionScore(length) == Share(length, FullLength)

\* confidenceFor
Confidence(n, offered, measured, length, titled) ==
    LET score == (IngredientScore(n, offered, measured) + InstructionScore(length)) \div 2
    IN  IF titled THEN score ELSE (3 * score) \div 4

RuleScore(lines) ==
    Confidence(Cardinality(Ingredients(lines)), Cardinality(Offered(lines, "ingredients")),
               Cardinality(Measured(lines)), Cardinality(Instructions(lines)), Titled(lines))

-----------------------------------------------------------------------------
(* The LLM.                                                                *)

\* Mutant: a missing method costs no more than a short one.
StructuralConfidence_ListOnly(listed, measured, length) ==
    IF listed = 0 THEN 0
    ELSE (50 * One + 20 * Share(listed, FullCount)
            + 15 * (IF length >= FullLength THEN One ELSE 0) + 15 * Share(measured, listed)) \div 100

\* structuralConfidence: what the answer contains, whatever the model claims.
StructuralConfidence(listed, measured, length) ==
    IF listed = 0 \/ length = 0 THEN 0
    ELSE (50 * One + 20 * Share(listed, FullCount)
            + 15 * (IF length >= FullLength THEN One ELSE 0) + 15 * Share(measured, listed)) \div 100

\* parseToolInput: the lesser of the model's score, clamped, and the structural one.
AnswerScore(a) == Least(Least(a.score, One), StructuralConfidence(a.listed, a.measured, a.length))

\* ErrNoRecipe
SaysNoRecipe(a) == a.sentinel \/ a.score <= 0 \/ AnswerScore(a) <= 0
=============================================================================
