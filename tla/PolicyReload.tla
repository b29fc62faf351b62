---------------------------- MODULE PolicyReload ----------------------------
(***************************************************************************)
(* Policy hot reload: the SIGHUP goroutine of cmd/serve.go, ReloadPolicy,  *)
(* the LRU cache of policy versions (internal/proxy/policy_cache.go) and   *)
(* the part of handleMCP that binds a session to a policy and resolves the *)
(* policy a call is evaluated under.                                       *)
(*                                                                         *)
(* A policy is its fingerprint.  The policy file holds one of Policies, or *)
(* Broken when it does not parse; the members of Clean pass the ERROR      *)
(* level lint rules.                                                       *)
(***************************************************************************)
EXTENDS Naturals, Sequences, FiniteSets, SequencesExt

CONSTANTS
    Policies, Clean, Broken,
    Cap,            \* lruCapacity
    Session, Handler, NoSession,
    MaxEdits        \* bound: edits of the policy file

ASSUME ReloadAssumption ==
    /\ Clean \subseteq Policies /\ Broken \notin Policies
    /\ NoSession \notin Policies
    /\ Cap \in Nat \ {0} /\ MaxEdits \in Nat

VARIABLES
    file, edits,    \* the policy file, and how often it was edited
    hup,            \* sighupCh, a channel with room for one signal
    reload,         \* the SIGHUP goroutine: where it is and newPol
    live,           \* livePol
    cache,          \* polCache, most recently used first
    bound,          \* sessions.policy_fingerprint
    loc,            \* handlers: where they are and sess.PolicyFingerprint
    evaluated,      \* history: session, policy used, live policy at the time
    recency,        \* history: every version of this process, by last use
    dropped,        \* history: versions evicted or lost in a restart
    started         \* history: versions a process was started with

vars == <<file, edits, hup, reload, live, cache, bound, loc, evaluated,
          recency, dropped, started>>

Init ==
    /\ file \in Policies /\ edits = 0
    /\ hup = FALSE
    /\ reload = [pc |-> "wait", pol |-> file]
    /\ live = file /\ cache = <<file>> /\ recency = <<file>>
    /\ bound = [s \in Session |-> NoSession]
    /\ loc = [h \in Handler |-> [pc |-> "idle", session |-> NoSession, fp |-> file]]
    /\ evaluated = {} /\ dropped = {} /\ started = {file}

-----------------------------------------------------------------------------
(* policyLRU.                                                              *)

Cached(fp) == fp \in ToSet(cache)
PushFront(list, fp) == <<fp>> \o list

\* container/list: the entry goes to the front, those before it move back by one.
MoveToFront(list, fp) ==
    LET p == CHOOSE i \in DOMAIN list : list[i] = fp
    IN  [i \in DOMAIN list |-> IF i = 1 THEN fp ELSE IF i <= p THEN list[i - 1] ELSE list[i]]

\* Mutant: nothing is evicted at capacity.
LRUSetUnbounded(list, fp) ==
    IF fp \in ToSet(list) THEN MoveToFront(list, fp) ELSE PushFront(list, fp)

\* Mutant: the most recently used entry makes room.
LRUSetEvictsFront(list, fp) ==
    IF fp \in ToSet(list) THEN MoveToFront(list, fp)
    ELSE IF Len(list) >= Cap THEN PushFront(Tail(list), fp)
    ELSE PushFront(list, fp)

\* list and index after set(fp): an existing entry moves to the front, else
\* the back entry makes room at capacity.
LRUSet(list, fp) ==
    IF fp \in ToSet(list) THEN MoveToFront(list, fp)
    ELSE IF Len(list) >= Cap THEN PushFront(Front(list), fp)
    ELSE PushFront(list, fp)

Touch(fp) == recency' = IF fp \in ToSet(recency) THEN MoveToFront(recency, fp)
                        ELSE PushFront(recency, fp)

-----------------------------------------------------------------------------
(* The operator and the SIGHUP goroutine.                                  *)

Edit(f) ==
    /\ edits < MaxEdits /\ edits' = edits + 1
    /\ file' = f
    /\ UNCHANGED <<hup, reload, live, cache, bound, loc, evaluated, recency, dropped, started>>

\* signal.Notify does not block: a signal that finds the channel full is lost.
Sighup ==
    /\ hup' = TRUE
    /\ UNCHANGED <<file, edits, reload, live, cache, bound, loc, evaluated, recency, dropped, started>>

TakeSignal ==
    /\ reload.pc = "wait" /\ hup
    /\ hup' = FALSE
    /\ reload' = [reload EXCEPT !.pc = "parse"]
    /\ UNCHANGED <<file, edits, live, cache, bound, loc, evaluated, recency, dropped, started>>

\* Mutant: a file that parses is taken.
ParseOnly ==
    /\ reload.pc = "parse"
    /\ reload' = IF file \in Policies THEN [pc |-> "cache", pol |-> file]
                 ELSE [reload EXCEPT !.pc = "wait"]
    /\ UNCHANGED <<file, edits, hup, live, cache, bound, loc, evaluated, recency, dropped, started>>

\* ReloadPolicy: ParseFile and Lint; on an error the live policy stays.
ParseAndLint ==
    /\ reload.pc = "parse"
    /\ reload' = IF file \in Clean THEN [pc |-> "cache", pol |-> file]
                 ELSE [reload EXCEPT !.pc = "wait"]
    /\ UNCHANGED <<file, edits, hup, live, cache, bound, loc, evaluated, recency, dropped, started>>

CacheNew ==
    /\ reload.pc = "cache"
    /\ cache' = LRUSet(cache, reload.pol)
    /\ Touch(reload.pol)
    /\ dropped' = dropped \cup (ToSet(cache) \ ToSet(cache'))
    /\ reload' = [reload EXCEPT !.pc = "publish"]
    /\ UNCHANGED <<file, edits, hup, live, bound, loc, evaluated, started>>

\* Mutant: the channel is drained after a reload.
PublishAndDrain ==
    /\ reload.pc = "publish"
    /\ live' = reload.pol /\ hup' = FALSE
    /\ reload' = [reload EXCEPT !.pc = "wait"]
    /\ UNCHANGED <<file, edits, cache, bound, loc, evaluated, recency, dropped, started>>

Publish ==
    /\ reload.pc = "publish"
    /\ live' = reload.pol
    /\ reload' = [reload EXCEPT !.pc = "wait"]
    /\ UNCHANGED <<file, edits, hup, cache, bound, loc, evaluated, recency, dropped, started>>

\* The process dies and `serve` starts again: it parses the file (no lint),
\* and New seeds a fresh cache.  The sessions table survives.
Restart ==
    /\ file \in Policies
    /\ live' = file /\ cache' = <<file>> /\ recency' = <<file>>
    /\ dropped' = dropped \cup (ToSet(cache) \ {file})
    /\ hup' = FALSE
    /\ reload' = [pc |-> "wait", pol |-> file]
    /\ loc' = [h \in Handler |-> [pc |-> "idle", session |-> NoSession, fp |-> file]]
    /\ started' = started \cup {file}
    /\ UNCHANGED <<file, edits, bound, evaluated>>

-----------------------------------------------------------------------------
(* handleMCP, as far as policies go.                                       *)

Return(h) == loc' = [loc EXCEPT ![h] = [pc |-> "idle", session |-> NoSession,
                                        fp |-> live]]

Receive(h, s) ==
    /\ loc[h].pc = "idle"
    /\ loc' = [loc EXCEPT ![h].pc = "load", ![h].session = s]
    /\ UNCHANGED <<file, edits, hup, reload, live, cache, bound, evaluated, recency, dropped, started>>

GetSession(h) ==
    LET fp == bound[loc[h].session]
    IN  /\ loc[h].pc = "load"
        /\ loc' = IF fp = NoSession THEN [loc EXCEPT ![h].pc = "bind"]
                  ELSE [loc EXCEPT ![h].pc = "resolve", ![h].fp = fp]
        /\ UNCHANGED <<file, edits, hup, reload, live, cache, bound, evaluated, recency, dropped, started>>

\* livePol := p.currentPolicy(), read once for the new session.
ReadLive(h) ==
    /\ loc[h].pc = "bind"
    /\ loc' = [loc EXCEPT ![h].pc = "create", ![h].fp = live]
    /\ UNCHANGED <<file, edits, hup, reload, live, cache, bound, evaluated, recency, dropped, started>>

CreateSession(h) ==
    LET s == loc[h].session
    IN  /\ loc[h].pc = "create"
        /\ \/ /\ bound[s] = NoSession
              /\ bound' = [bound EXCEPT ![s] = loc[h].fp]
              /\ loc' = [loc EXCEPT ![h].pc = "resolve"]
           \/ bound[s] # NoSession /\ Return(h) /\ UNCHANGED bound
        /\ UNCHANGED <<file, edits, hup, reload, live, cache, evaluated, recency, dropped, started>>

\* Mutant: every call is evaluated under the live policy.
ResolveLive(h) ==
    /\ loc[h].pc = "resolve"
    /\ loc' = [loc EXCEPT ![h].pc = "fallback"]
    /\ UNCHANGED <<file, edits, hup, reload, live, cache, bound, evaluated, recency, dropped, started>>

\* policyForFingerprint: a hit is promoted and used; a miss falls back to
\* the live policy, which is read in a step of its own.
Resolve(h) ==
    /\ loc[h].pc = "resolve"
    /\ \/ /\ Cached(loc[h].fp)
          /\ cache' = MoveToFront(cache, loc[h].fp)
          /\ Touch(loc[h].fp)
          /\ evaluated' = evaluated \cup {[session |-> loc[h].session,
                                           pol |-> loc[h].fp, live |-> live]}
          /\ Return(h)
       \/ /\ ~ Cached(loc[h].fp)
          /\ loc' = [loc EXCEPT ![h].pc = "fallback"]
          /\ UNCHANGED <<cache, recency, evaluated>>
    /\ UNCHANGED <<file, edits, hup, reload, live, bound, dropped, started>>

Fallback(h) ==
    /\ loc[h].pc = "fallback"
    /\ evaluated' = evaluated \cup {[session |-> loc[h].session,
                                     pol |-> live, live |-> live]}
    /\ Return(h)
    /\ UNCHANGED <<file, edits, hup, reload, live, cache, bound, recency, dropped, started>>

Reload == TakeSignal \/ ParseAndLint \/ CacheNew \/ Publish

Next ==
    \/ \E f \in Policies \cup {Broken} : Edit(f)
    \/ Sighup \/ Reload \/ Restart
    \/ \E h \in Handler :
          \/ \E s \in Session : Receive(h, s)
          \/ GetSession(h) \/ ReadLive(h) \/ CreateSession(h)
          \/ Resolve(h) \/ Fallback(h)

\* The goroutine of serve keeps running: it is blocked only on the channel.
Spec == Init /\ [][Next]_vars /\ WF_vars(Reload)

-----------------------------------------------------------------------------

\* The cache is a list of distinct versions within its capacity, and every
\* other variable has its type.
ReloadTypeOK ==
    /\ file \in Policies \cup {Broken} /\ edits \in 0..MaxEdits
    /\ hup \in BOOLEAN
    /\ reload \in [pc : {"wait", "parse", "cache", "publish"}, pol : Policies]
    /\ live \in Policies
    /\ cache \in Seq(Policies) /\ IsInjective(cache) /\ Len(cache) \in 1..Cap
    /\ bound \in [Session -> Policies \cup {NoSession}]
    /\ loc \in [Handler -> [pc : {"idle", "load", "bind", "create", "resolve", "fallback"},
                            session : Session \cup {NoSession}, fp : Policies]]
    /\ started \subseteq Policies

\* policyLRU keeps exactly the most recently used versions, the cache being a
\* prefix of the list of all versions ordered by last get or set, and the live
\* one is among them: ReloadPolicy caches a version before it publishes it,
\* and nothing but the next reload evicts.
CacheHoldsMostRecentlyUsed ==
    /\ IsPrefix(cache, recency)
    /\ reload.pc # "publish" => Cached(live)

\* A call is evaluated under a policy other than the one its session is bound
\* to only when that version was evicted or lost in a restart, and then under
\* the live policy.
DriftOnlyAfterEviction ==
    \A e \in evaluated : e.pol # bound[e.session] =>
        bound[e.session] \in dropped /\ e.pol = e.live

\* ReloadPolicy: "replaces the live policy if the new file passes all
\* ERROR-level lint rules": no call is evaluated under a policy with lint
\* errors, through whatever reloads, cached versions, bindings and fallbacks,
\* unless a process was started with it, which serve does without linting.
LintErrorsOnlyFromStart ==
    \A e \in evaluated : e.pol \in Clean \cup started

\* A valid file followed by a SIGHUP becomes the live policy, also when the
\* signal arrives in the middle of a reload that has already read an older
\* file, unless the file changes again first.
ReloadConverges ==
    \A f \in Clean : (file = f /\ hup) ~> (live = f \/ file # f)
=============================================================================
