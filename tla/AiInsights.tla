----------------------------- MODULE AiInsights ------------------------------
(***************************************************************************)
(* Texts that a language model writes (ai-insights-service): a request     *)
(* compares what the month has used with the budget of the tenant, asks    *)
(* the model, and charges the tokens when the text has passed the check of *)
(* its numbers; then somebody approves the text.  One tenant and one       *)
(* month.  The row of the usage is locked by whoever adds to it.           *)
(***************************************************************************)
EXTENDS Integers, FiniteSets

CONSTANTS Texts,      \* ids of ai_generations
          Budgets,    \* values of monthly_token_budget
          MaxTokens,  \* the most tokens that a call costs
          MaxUsed,    \* bound on the tokens of a behaviour
          Prompts,    \* requests that may be under way at the same time
          NoText      \* "no text"

VARIABLES
  enabled,  \* ai_enabled
  budget,   \* monthly_token_budget
  used,     \* tokens_used of the month
  billed,   \* tokens that the model has taken
  wasted,   \* tokens of calls whose text was refused or lost
  text,     \* text[x]: approval_status, "none" before it is generated
  review,   \* review[x]: status in ai_review_queue, "none" before
  asking,   \* asking[a]: what the request a is doing
  about,    \* about[a]: the text that it approves
  cost      \* cost[a]: the tokens of its call

insights == <<enabled, budget, used, billed, wasted, text, review>>
prompts == <<asking, about, cost>>

LargestBudget == CHOOSE b \in Budgets : \A c \in Budgets : c <= b

AiInit ==
  /\ enabled = TRUE /\ budget = LargestBudget
  /\ used = 0 /\ billed = 0 /\ wasted = 0
  /\ text = [x \in Texts |-> "none"] /\ review = [x \in Texts |-> "none"]
  /\ asking = [a \in Prompts |-> "idle"]
  /\ about = [a \in Prompts |-> NoText]
  /\ cost = [a \in Prompts |-> 0]

-----------------------------------------------------------------------------
\* POST ai/settings
SetAi(on, b) ==
  /\ <<on, b>> # <<enabled, budget>>
  /\ enabled' = on /\ budget' = b
  /\ UNCHANGED <<used, billed, wasted, text, review, prompts>>

Return(a) ==
  /\ asking' = [asking EXCEPT ![a] = "idle"]
  /\ about' = [about EXCEPT ![a] = NoText]
  /\ cost' = [cost EXCEPT ![a] = 0]

\* POST ai/insights/generate: the switch, and the budget of the month.
CheckBudget(a) ==
  /\ asking[a] = "idle" /\ enabled /\ used < budget
  /\ asking' = [asking EXCEPT ![a] = "checked"]
  /\ UNCHANGED <<insights, about, cost>>

\* The model answers.
AskModel(a, tokens) ==
  /\ asking[a] = "checked" /\ billed + tokens <= MaxUsed
  /\ asking' = [asking EXCEPT ![a] = "answered"]
  /\ cost' = [cost EXCEPT ![a] = tokens]
  /\ billed' = billed + tokens
  /\ UNCHANGED <<enabled, budget, used, wasted, text, review, about>>

\* INSERT the text and its review, add the tokens, COMMIT.
StoreText(a, x) ==
  /\ asking[a] = "answered" /\ text[x] = "none"
  /\ text' = [text EXCEPT ![x] = "unapproved"]
  /\ review' = [review EXCEPT ![x] = "pending"]
  /\ used' = used + cost[a]
  /\ Return(a)
  /\ UNCHANGED <<enabled, budget, billed, wasted>>

\* Numbers that are not in the context, an error, no analytics: the request
\* ends without a trace, and nothing is charged.
RefuseText(a) ==
  /\ asking[a] \in {"checked", "answered"}
  /\ wasted' = wasted + cost[a]
  /\ Return(a)
  /\ UNCHANGED <<enabled, budget, used, billed, text, review>>

\* POST ai/insights/:id/approve: SELECT, without a lock; an approved text is
\* returned as it is.
BeginApproval(a, x) ==
  /\ asking[a] = "idle" /\ text[x] = "unapproved"
  /\ asking' = [asking EXCEPT ![a] = "approving"]
  /\ about' = [about EXCEPT ![a] = x]
  /\ UNCHANGED <<insights, cost>>

\* UPDATE the text and its review by id, COMMIT.
CommitApproval(a) ==
  /\ asking[a] = "approving"
  /\ text' = [text EXCEPT ![about[a]] = "approved"]
  /\ review' = [review EXCEPT ![about[a]] = "resolved"]
  /\ Return(a)
  /\ UNCHANGED <<enabled, budget, used, billed, wasted>>

AiNext ==
  \/ \E on \in BOOLEAN, b \in Budgets : SetAi(on, b)
  \/ \E a \in Prompts :
       \/ CheckBudget(a) \/ RefuseText(a) \/ CommitApproval(a)
       \/ \E tokens \in 1..MaxTokens : AskModel(a, tokens)
       \/ \E x \in Texts : StoreText(a, x) \/ BeginApproval(a, x)

-----------------------------------------------------------------------------
\* Type invariant.
AiTypeOK ==
  /\ enabled \in BOOLEAN /\ budget \in Budgets
  /\ {used, billed, wasted} \subseteq 0..MaxUsed
  /\ text \in [Texts -> {"none", "unapproved", "approved"}]
  /\ review \in [Texts -> {"none", "pending", "resolved"}]
  /\ asking \in [Prompts -> {"idle", "checked", "answered", "approving"}]
  /\ about \in [Prompts -> Texts \cup {NoText}]
  /\ cost \in [Prompts -> 0..MaxTokens]

(* The month is charged less than the largest budget and one call more for *)
(* each request under way: the comparison is made before the call and the  *)
(* charge after it.  What the model has taken is charged, under way, or    *)
(* lost with a text that was refused.                                      *)
BudgetBounded ==
  LET pending == {a \in Prompts : asking[a] \in {"checked", "answered"}}
  IN /\ used + Cardinality(pending) * MaxTokens
          <= LargestBudget - 1 + Cardinality(Prompts) * MaxTokens
     /\ billed >= used + wasted
     /\ pending = {} => billed = used + wasted
=============================================================================
