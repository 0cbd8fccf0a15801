----------------------------- MODULE EngineHistory -----------------------------
(***************************************************************************)
(* TransactionEngine with history variables, for the properties that       *)
(* compare a verdict with what happened before it.  The variables observe  *)
(* the steps of the engine and restrict none of them.                      *)
(***************************************************************************)
EXTENDS TransactionEngine

VARIABLES
    lostSince,   \* lostSince[t]: index height at the first not_found since the
                 \*   network last held t or t was registered, 0 when there was none
    transients,  \* transients[t]: rejections of t with every input intact
    doomed       \* records settled Failed because an input was consumed

historyVars == <<lostSince, transients, doomed>>
hvars == <<vars, historyVars>>

HistoryTypeOK ==
    /\ lostSince \in [Txs -> 0..MaxHeight]
    /\ transients \in [Txs -> 0..RetryAttempts]
    /\ doomed \subseteq Txs

HInit ==
    /\ Init
    /\ lostSince = [t \in Txs |-> 0]
    /\ transients = [t \in Txs |-> 0]
    /\ doomed = {}

\* The step requeues t because the chain reported it not_found.
Lost(t) == state[t] \in {"InMempool", "Confirmed"} /\ state'[t] = "ToDispatch"

\* The step draws the verdict on a rejected t from its inputs.
Judged(t) == pc = "handle" /\ outcome[t] = "absent" /\ outcome'[t] # "absent" /\ pc' = "handle"

Settles(t) == state[t] # "Failed" /\ state'[t] = "Failed"

Observe ==
    /\ lostSince' = [t \in Txs |->
                       CASE t \in mempool' \/ minedAt'[t] # 0 \/ state'[t] = "Unregistered" -> 0
                         [] Lost(t) /\ lostSince[t] = 0 -> vheight
                         [] OTHER -> lostSince[t]]
    /\ transients' = [t \in Txs |->
                       CASE state'[t] = "Unregistered" -> 0
                         [] Judged(t) /\ ~InputMissing(t) /\ transients[t] < RetryAttempts
                              -> transients[t] + 1
                         [] OTHER -> transients[t]]
    /\ doomed' = {t \in Txs : state'[t] = "Failed" /\
                               (t \in doomed \/ (Judged(t) /\ InputMissing(t)))}

HNext == Next /\ Observe

HSpec == HInit /\ [][HNext]_hvars

FairHSpec == HSpec /\ Fairness

-----------------------------------------------------------------------------
(* Properties. *)

\* The reorg-flap guard keeps its promise: a transaction that vanished from the
\* network is not settled Failed on a consumed input before
\* max_monitoring_confirmations blocks have passed since it was first missed,
\* through whatever sequence of re-dispatches, deferrals and errors.
GuardWindowRespected ==
    [][\A t \in Txs : Settles(t) /\ Judged(t) /\ InputMissing(t) /\ lostSince[t] # 0
                        => vheight >= lostSince[t] + MaxConfs]_hvars

\* The retry budget counts transient failures only: "how many transient failures
\* before settling Failed" (docs/design.md), the fail guard being separate from it.
BudgetCountsTransients ==
    [][\A t \in Txs : Settles(t) /\ Judged(t) /\ ~InputMissing(t)
                        => transients[t] + 1 >= RetryAttempts]_hvars

\* "Past the window, the verdict is final" (docs/design.md): a record settled
\* Failed on a consumed input after its guard ran out stays unspendable.
VerdictIsFinal == \A t \in doomed : guard[t] # 0 => InputMissing(t)

\* "The anchor is set once, at the first not_found ... the window cannot be
\* extended": the deadline of a missing transaction is counted from the moment
\* it was first missed.
WindowNotExtended ==
    \A t \in Txs : guard[t] # 0 /\ lostSince[t] # 0 => guard[t] = lostSince[t] + MaxConfs
=============================================================================
