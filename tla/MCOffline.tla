----------------------------- MODULE MCOffline -----------------------------
(* Policies for model checking Offline.                                     *)
EXTENDS Offline

CONSTANTS read, send, lo, hi, s1, s2

Plain == [mode |-> "", onlyAfter |-> {}, neverAfter |-> {}, priorN |-> {},
          applies |-> FALSE, clears |-> FALSE, neverWhen |-> << >>,
          neverWhenAll |-> FALSE, rateLimit |-> {}, escalateWhen |-> {}]

Open == [mode |-> "block", requireEnv |-> "", mayUse |-> Tool, maxCalls |-> 0,
         maxCost |-> 0, maxHistory |-> 0, tools |-> [t \in Tool |-> Plain]]

OnHigh == [a \in Args |-> IF a = hi THEN "fires" ELSE "quiet"]

\* read taints, send must not follow it, and two calls are allowed.
Guarded == [Open EXCEPT !.maxCalls = 2, !.tools[read].applies = TRUE,
                        !.tools[send].neverAfter = {read}]

\* send needs a read before it and a human for `hi`.
Supervised == [Open EXCEPT !.tools[send].onlyAfter = {read},
                           !.tools[send].escalateWhen = {OnHigh}]

\* send is only observed, read stops after the second call.
Trial == [Open EXCEPT !.mode = "shadow", !.requireEnv = "prod", !.maxCost = 1,
                      !.mayUse = {read}, !.tools[read].mode = "block"]

\* Rules that the commands do not see.
Hidden == [Open EXCEPT !.tools[send].neverWhen = <<OnHigh>>,
                       !.tools[read].rateLimit = {[max |-> 1, window |-> 1]}]

MCPairs == {[old |-> Supervised, new |-> Guarded], [old |-> Hidden, new |-> Trial]}

\* Sessions are interchangeable.
Sessions == Permutations(Session)
=============================================================================
