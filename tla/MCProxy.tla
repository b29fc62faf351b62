------------------------------ MODULE MCProxy ------------------------------
(* Policies and small sets for model checking Proxy.                       *)
EXTENDS ProxyClaims, TLC

CONSTANTS read, send, wipe,  \* tools
          lo, hi, odd        \* arguments

Plain == [mode |-> "", onlyAfter |-> {}, neverAfter |-> {}, priorN |-> {},
          applies |-> FALSE, clears |-> FALSE, neverWhen |-> << >>,
          neverWhenAll |-> FALSE, rateLimit |-> {}, escalateWhen |-> {}]

Open == [mode |-> "block", requireEnv |-> "", mayUse |-> Tool, maxCalls |-> 0,
         maxCost |-> 0, maxHistory |-> 0, tools |-> [t \in Tool |-> Plain]]

\* `hi` triggers the predicate, `lo` does not, `odd` lacks the argument.
OnHigh == [a \in Args |->
              CASE a = hi -> "fires" [] a = lo -> "quiet" [] a = odd -> "error"]

\* read taints the session and forbids send; wipe clears the taint; send needs
\* two earlier wipes.
GuardPolicy == [Open EXCEPT !.tools =
    [t \in Tool |->
        CASE t = read -> [Plain EXCEPT !.applies = TRUE]
          [] t = wipe -> [Plain EXCEPT !.clears = TRUE]
          [] t = send -> [Plain EXCEPT !.neverAfter = {read}, !.onlyAfter = {wipe},
                                       !.priorN = {[tool |-> wipe, count |-> 2]}]]]

\* Two calls per session, a looser cost ceiling, one send per clock unit.
LimitsPolicy == [Open EXCEPT !.maxCalls = 2, !.maxCost = 3, !.tools =
    [t \in Tool |-> [Plain EXCEPT !.rateLimit = {[max |-> 1, window |-> 1]}]]]

\* send escalates on `hi`; read never accepts `hi`; wipe is not in may_use.
EscalationPolicy == [Open EXCEPT !.mayUse = Tool \ {wipe}, !.tools =
    [t \in Tool |->
        CASE t = send -> [Plain EXCEPT !.escalateWhen = {OnHigh}]
          [] t = read -> [Plain EXCEPT !.neverWhen = <<OnHigh>>]
          [] t = wipe -> Plain]]

\* The same in shadow mode, send excepted.
ShadowPolicy == [EscalationPolicy EXCEPT !.mode = "shadow",
                                         !.tools[send].mode = "block"]

\* read taints and forbids send, wipe clears, and nothing else is asked.
TaintPolicy == [Open EXCEPT !.tools =
    [t \in Tool |->
        CASE t = read -> [Plain EXCEPT !.applies = TRUE]
          [] t = wipe -> [Plain EXCEPT !.clears = TRUE]
          [] t = send -> [Plain EXCEPT !.neverAfter = {read}]]]

Symmetry == Permutations(Handler)
============================================================================
