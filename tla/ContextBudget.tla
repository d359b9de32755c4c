--------------------------- MODULE ContextBudget ---------------------------
(***************************************************************************)
(* build_context_bounded (context_builder.rs): chunks are dropped from the *)
(* tail of one group or the other until the estimate of the context fits a *)
(* budget of tokens.                                                       *)
(*                                                                         *)
(* A text is <<cjk, other>>, its numbers of characters of both kinds.  The *)
(* budget adds up the estimates of the blocks; what the model is asked is  *)
(* the estimate of the text that comes out.                                *)
(***************************************************************************)
EXTENDS Integers

CONSTANTS
    Contexts,  \* groups of chunks to make a context of
    MaxTokens  \* budgets

\* A group: the text of its first i blocks and the sum of their estimates, for
\* each i from 0 to their number.
Group(count) == [text : [0 .. count -> Nat \X Nat], cost : [0 .. count -> Nat]]

\* Mutant of EstimateTokens: the rest of a division by four costs nothing.
EstimateTokensDown(text) == text[1] + text[2] \div 4

\* estimate_tokens: a CJK character is a token, four others are.
EstimateTokens(text) == text[1] + (text[2] + 3) \div 4

\* The blocks of a group add up, in characters and in costs.
AddsUp(group, count) ==
    /\ group \in Group(count)
    /\ group.text[0] = <<0, 0>> /\ group.cost[0] = 0
    /\ \A i \in 1 .. count :
         LET block == <<group.text[i][1] - group.text[i - 1][1], group.text[i][2] - group.text[i - 1][2]>>
         IN  /\ block \in Nat \X Nat
             /\ group.cost[i] = group.cost[i - 1] + EstimateTokens(block)

ASSUME ContextsAddUp ==
    /\ MaxTokens \subseteq Nat
    /\ \A c \in Contexts :
         /\ c.question \in Nat \X Nat
         /\ c.statics \in Nat /\ c.dynamics \in Nat
         /\ AddsUp(c.static, c.statics) /\ AddsUp(c.dynamic, c.dynamics)

VARIABLES
    context,  \* what the context is made of: constant
    budget,   \* max_tokens: constant
    kept,     \* kept_static and kept_dynamic
    total     \* static_total and dynamic_total

budgetVars == <<context, budget, kept, total>>

BudgetTypeOK ==
    /\ kept \in [static : 0 .. context.statics, dynamic : 0 .. context.dynamics]
    /\ total \in [static : Nat, dynamic : Nat]

\* Everything is kept at first.
BudgetInit ==
    /\ context \in Contexts
    /\ budget \in MaxTokens
    /\ kept = [static |-> context.statics, dynamic |-> context.dynamics]
    /\ total = [static |-> context.static.cost[context.statics],
                dynamic |-> context.dynamic.cost[context.dynamics]]

\* The heading and the question, which no budget drops.
Fixed == EstimateTokens(context.question)

TooLong ==
    /\ Fixed + total.static + total.dynamic > budget
    /\ kept.static > 0 \/ kept.dynamic > 0

\* The group whose tail goes: the one that costs more, of equal ones the one with
\* more chunks; the dynamic one when that is equal as well.
Dearer ==
    IF kept.dynamic = 0 THEN "static"
    ELSE IF kept.static = 0 THEN "dynamic"
    ELSE IF total.static # total.dynamic
         THEN IF total.static > total.dynamic THEN "static" ELSE "dynamic"
    ELSE IF kept.static > kept.dynamic THEN "static" ELSE "dynamic"

CostUpTo(group, n) == IF group = "static" THEN context.static.cost[n] ELSE context.dynamic.cost[n]

CostOfLast(group) == CostUpTo(group, kept[group]) - CostUpTo(group, kept[group] - 1)

Drop ==
    /\ TooLong
    /\ kept' = [kept EXCEPT ![Dearer] = @ - 1]
    /\ total' = [total EXCEPT ![Dearer] = @ - CostOfLast(Dearer)]
    /\ UNCHANGED <<context, budget>>

BudgetNext == Drop

BudgetSpec == BudgetInit /\ [][BudgetNext]_budgetVars

----------------------------------------------------------------------------
(* What the loop leaves: build_context of the chunks that are kept. *)

Result ==
    LET s == context.static.text[kept.static]
        d == context.dynamic.text[kept.dynamic]
    IN  <<context.question[1] + s[1] + d[1], context.question[2] + s[2] + d[2]>>

TotalsMatch ==
    /\ total.static = context.static.cost[kept.static]
    /\ total.dynamic = context.dynamic.cost[kept.dynamic]

\* context_builder.rs:83: the sum of the estimates of the blocks is never below the
\* estimate of the whole text, so that the context that comes out fits its budget,
\* or holds no chunk at all.
BudgetHolds ==
    ~TooLong => EstimateTokens(Result) <= budget \/ (kept.static = 0 /\ kept.dynamic = 0)

\* context_builder.rs:49: a chunk goes only while the estimates do not fit, and only
\* from the group that costs as much as the other or more: neither group is
\* emptied in favour of a dearer one.
DropsTheDearer ==
    [][\A g \in {"static", "dynamic"}, o \in {"static", "dynamic"} :
         (g # o /\ kept[g]' < kept[g]) =>
            /\ Fixed + total.static + total.dynamic > budget
            /\ kept[o]' = kept[o]
            /\ kept[o] > 0 => CostUpTo(g, kept[g]) >= CostUpTo(o, kept[o])]_budgetVars
=============================================================================
