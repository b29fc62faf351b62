---------------------------- MODULE MCPolicyTools ----------------------------
(* Pairs of policy files for model checking PolicyTools.                    *)
EXTENDS PolicyTools

CONSTANTS read, send, wipe, hi, s1

OnHigh == [a \in Args |-> "fires"]

\* amount > 10, and amount > "10".
Over10 == [text |-> "amount > 10", type |-> "int", outcomes |-> [a \in Args |-> "quiet"]]
Quoted == [Over10 EXCEPT !.type = "string", !.outcomes = OnHigh]

Entry0 == [mode |-> "", onlyAfter |-> << >>, neverAfter |-> << >>, priorN |-> {},
           applies |-> FALSE, clears |-> FALSE, neverWhen |-> << >>,
           neverWhenAll |-> FALSE, rateLimit |-> {}, escalateWhen |-> {}]

\* read taints, wipe clears, and send must not follow read.
Base == [mode |-> "block", requireEnv |-> "", mayUse |-> <<read, send, wipe>>,
         maxCalls |-> 0, maxCost |-> 0, maxHistory |-> 0,
         tools |-> [t \in Tool |->
             CASE t = read -> [Entry0 EXCEPT !.applies = TRUE]
               [] t = send -> [Entry0 EXCEPT !.neverAfter = <<read>>]
               [] t = wipe -> [Entry0 EXCEPT !.clears = TRUE]]]

\* Send after both others.
Strict == [Base EXCEPT !.tools[send].neverAfter = << >>,
                       !.tools[send].onlyAfter = <<read, wipe>>]

\* Base with one field changed, for every field the diff compares.
Listed ==
    {[Base EXCEPT !.mode = "shadow"], [Base EXCEPT !.mayUse = <<read, send>>],
     [Base EXCEPT !.maxCalls = 2], [Base EXCEPT !.maxCost = 3],
     [Base EXCEPT !.tools = [t \in {send, wipe} |-> @[t]]],
     [Base EXCEPT !.tools[send].mode = "shadow"],
     [Base EXCEPT !.tools[send].neverAfter = <<wipe>>],
     [Base EXCEPT !.tools[send].onlyAfter = <<wipe>>],
     [Base EXCEPT !.tools[send].priorN = {[tool |-> wipe, count |-> 2]}],
     [Base EXCEPT !.tools[read].applies = FALSE],
     [Base EXCEPT !.tools[wipe].clears = FALSE],
     [Base EXCEPT !.tools[send].escalateWhen = {Quoted}]}

\* Changes that it does not list.
Unlisted ==
    {[Base EXCEPT !.requireEnv = "staging"],
     [Base EXCEPT !.tools[wipe].neverWhen = <<OnHigh>>],
     [Base EXCEPT !.tools[wipe].rateLimit = {[max |-> 1, window |-> 1]}]}

\* The same rules in another order, and with a repeated name.
Rewritten == [Strict EXCEPT !.mayUse = <<wipe, read, send>>,
                            !.tools[send].onlyAfter = <<wipe, read>>]
Repeated  == [Strict EXCEPT !.tools[send].onlyAfter = <<read, read>>]

MCFilePairs ==
    {[old |-> Base, new |-> f] : f \in Listed \cup Unlisted}
    \cup {[old |-> Strict, new |-> f] : f \in {Rewritten, Repeated}}
    \cup {[old |-> [Base EXCEPT !.tools[wipe].escalateWhen = {Quoted}], new |-> f] :
             f \in {Base, [Base EXCEPT !.tools[wipe].escalateWhen = {Over10}]}}

MCPairs == {Parsed(fp) : fp \in MCFilePairs}
==============================================================================
