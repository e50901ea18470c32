------------------------------ MODULE Selection ------------------------------
(***************************************************************************)
(* How the gateway chooses and ranks the tools of a namespace              *)
(* (toolcard/generator.ts, candidate/, selector/): pure operators, used by *)
(* module Discovery.  Scores are in quarters, so that the code's 0.5, 1.5  *)
(* and 0.35 * 5 are integers.  The retrieval order of selector/hybrid.ts   *)
(* (BM25 over four fields fused with the session's context) is any order.  *)
(***************************************************************************)
EXTENDS Integers, FiniteSets, SequencesExt

CONSTANTS
    Tools,         \* the tools the servers of the namespace list
    Card,          \* [Tools -> the card generated from the tool's record]
    RiskLevels,    \* of the starter pack (includeRiskLevels)
    PoolSize, Lookback, MinDominant,
    WritePenalty, AdminPenalty,   \* penalties.write * 5 and penalties.admin * 5
    SessionMode    \* "read", "write" or "admin"

\* TOOL_CAPABILITIES by name, as ties are broken.
Capabilities == <<"browser", "communication", "database", "docs", "files", "git", "misc",
                  "observability", "search", "ticketing">>

NoCapability == "none"

ASSUME SelectionAssumption ==
    /\ IsFiniteSet(Tools)
    /\ PoolSize \in Nat /\ Lookback \in Nat /\ MinDominant \in Nat \ {0}
    /\ WritePenalty \in Nat /\ AdminPenalty \in Nat
    /\ \A t \in Tools :
          /\ Card[t].kind \in {"read", "write", "admin"}
          /\ Card[t].trust \in {"internal", "verified", "untrusted"}
          \* What its name, description and tags suggest, and what its name does.
          /\ {Card[t].capability, Card[t].named} \subseteq ToSet(Capabilities)
          /\ Card[t].ord \in Nat     \* its name's place in the alphabet
    \* No server lists two tools whose names sanitizeToolName makes one.
    /\ \A t, u \in Tools :
          Card[t].server = Card[u].server /\ Card[t].name = Card[u].name => t = u

\* toolCandidateKey: a card is known by its server and its sanitised name.
Key(t) == <<Card[t].server, Card[t].name>>

\* deriveRiskLevel, on the kind of verb the name holds.
Risk(t) ==
    CASE Card[t].kind = "admin" -> "high"
      [] Card[t].kind = "write" -> IF Card[t].trust = "internal" THEN "medium" ELSE "high"
      [] OTHER                  -> "low"

\* applyHardFilters.
HardFiltered(listed, quarantined, health, disabled) ==
    {t \in listed \ quarantined :
        /\ Risk(t) \in RiskLevels
        /\ health[Card[t].server] # "offline"
        /\ Key(t) \notin disabled}

\* buildCandidatePool, for one retrieval order of the tools that passed.
Pool(order) == SubSeq(order, 1, Min({PoolSize, Len(order)}))

-----------------------------------------------------------------------------
(* The session's focus (selector/focus.ts).                                *)

\* inferToolCapability for an outcome, of which only the server and the tool's
\* name are known.
Capability(key) ==
    LET named == {t \in Tools : key \in {Key(t), <<Card[t].server, Card[t].raw>>}}
    IN  IF named = {} THEN "misc" ELSE Card[CHOOSE t \in named : TRUE].named

LastOf(s, n) == SubSeq(s, Max({1, Len(s) - n + 1}), Len(s))

\* resolveFocusFromOutcomes; capabilities are ordered by name.
Dominant(outcomes) ==
    LET good == LastOf(SelectSeq(outcomes, LAMBDA o : o.ok), Lookback)
        caps == {Capability(good[i].key) : i \in DOMAIN good}
        count(c) == Cardinality({i \in DOMAIN good : Capability(good[i].key) = c})
        most == {c \in caps : \A d \in caps : count(d) <= count(c)}
        first == Capabilities[Min({i \in DOMAIN Capabilities : Capabilities[i] \in most})]
    IN  IF caps # {} /\ count(first) >= MinDominant THEN first ELSE NoCapability

-----------------------------------------------------------------------------
(* Scoring (selector/scorer.ts, rerankCandidates).                         *)

TrustBonus(t) ==
    CASE Card[t].trust = "internal" -> 4 [] Card[t].trust = "verified" -> 2 [] OTHER -> 0

HealthPenalty(t, health) ==
    CASE health[Card[t].server] = "degraded" -> 8
      [] health[Card[t].server] = "offline" -> 20
      [] health[Card[t].server] = "unknown" -> 2
      [] OTHER -> 0

FailurePenalty(t, outcomes) ==
    Min({24, 8 * Cardinality({i \in DOMAIN outcomes : outcomes[i].key = Key(t) /\ ~outcomes[i].ok})})

ModePenalty(t) ==
    CASE Risk(t) = "high" /\ SessionMode = "read"  -> WritePenalty
      [] Risk(t) = "high" /\ SessionMode = "admin" -> AdminPenalty
      [] OTHER -> 0

FocusBonus(t, dominant) ==
    CASE dominant = NoCapability -> 0
      [] Card[t].capability = dominant -> 6
      [] Card[t].capability = "misc" -> 0
      [] OTHER -> -4

\* Higher scores first, then names.
Before(a, b) ==
    \/ a.score > b.score
    \/ a.score = b.score /\ Card[a.tool].ord < Card[b.tool].ord
    \/ a.score = b.score /\ Card[a.tool].ord = Card[b.tool].ord /\ a.pos < b.pos

\* Entries in their order.
Sorted(S) ==
    [i \in 1..Cardinality(S) |->
        CHOOSE e \in S : Cardinality({d \in S : Before(d, e)}) = i - 1]

\* The pool reranked; in retrieval order the first of n tools has n points,
\* when any signal tells the tools apart.  There is no latency penalty: nothing
\* gives a card an estimatedLatency.
Reranked(pool, signal, health, outcomes) ==
    LET n == Len(pool)
        dominant == Dominant(outcomes)
        scored == {[tool |-> pool[i], pos |-> i,
                    score |-> (IF signal THEN 4 * (n - i + 1) ELSE 0)
                              + TrustBonus(pool[i]) - HealthPenalty(pool[i], health)
                              - FailurePenalty(pool[i], outcomes) - ModePenalty(pool[i])
                              + FocusBonus(pool[i], dominant)] : i \in 1..n}
        first == Sorted(scored)
        redundant(i) == \E j \in 1..(i - 1) :
                            Card[first[j].tool].family = Card[first[i].tool].family
    IN  Sorted({[tool |-> first[i].tool, pos |-> i,
                 score |-> first[i].score - (IF redundant(i) THEN 4 ELSE 0)] : i \in 1..n})

-----------------------------------------------------------------------------
(* The published window (selector/publish.ts).                             *)

StabilityThreshold == 4

RankedTools(ranked) == {e.tool : e \in ToSet(ranked)}

ScoreOf(ranked, t) == (CHOOSE e \in ToSet(ranked) : e.tool = t).score

\* Where in the current window the tools are that are ranked, but not among
\* the first n.
Displaced(ranked, n, current) ==
    {k \in DOMAIN current : /\ current[k] \in RankedTools(ranked)
                            /\ \A i \in 1..n : ranked[i].tool # current[k]}

\* Mutant: a newcomer takes the place if it is no worse.
ChoiceEager(ranked, n, current, chosen, i) ==
    LET keeps == {k \in Displaced(ranked, n, current) :
                    /\ current[k] \notin ToSet(chosen)
                    /\ ranked[i].score < ScoreOf(ranked, current[k])}
    IN  IF ranked[i].tool \in ToSet(current) \/ keeps = {} THEN ranked[i].tool
        ELSE current[Min(keeps)]

\* Who gets the i-th place: a tool that is new to the window gives it to a
\* displaced tool of the current one unless it is clearly better.
Choice(ranked, n, current, chosen, i) ==
    LET keeps == {k \in Displaced(ranked, n, current) :
                    /\ current[k] \notin ToSet(chosen)
                    /\ ranked[i].score - ScoreOf(ranked, current[k]) < StabilityThreshold}
    IN  IF ranked[i].tool \in ToSet(current) \/ keeps = {} THEN ranked[i].tool
        ELSE current[Min(keeps)]

\* publishWindow before the reserve.
Selected(ranked, size, current) ==
    LET n == Min({size, Len(ranked)})
        chosen[i \in 0..n] ==
            IF i = 0 THEN <<>>
            ELSE Append(chosen[i - 1], Choice(ranked, n, current, chosen[i - 1], i))
    IN  chosen[n]

OutsideFocus(s, dominant) == {i \in DOMAIN s : Card[s[i]].capability # dominant}

\* Mutant: one too few.
LackingOneLess(selected, reserve, dominant) ==
    reserve - Cardinality(OutsideFocus(selected, dominant)) - 1

\* How many tools outside the focus the reserve asks for in addition.
Lacking(selected, reserve, dominant) ==
    reserve - Cardinality(OutsideFocus(selected, dominant))

\* Places of ranked tools outside the focus that were not selected.
Spare(ranked, selected, dominant) ==
    {k \in DOMAIN ranked : /\ ranked[k].tool \notin ToSet(selected)
                           /\ Card[ranked[k].tool].capability # dominant}

\* applyFocusReserve: the best of them take the places of the last tools in
\* focus, as many as are lacking.
WithReserve(selected, ranked, reserve, dominant) ==
    LET inFocus == DOMAIN selected \ OutsideFocus(selected, dominant)
        behind(i) == Cardinality({j \in inFocus : j > i})
        spare == Spare(ranked, selected, dominant)
        heir(i) == {k \in spare : Cardinality({l \in spare : l < k}) = behind(i)}
    IN  IF \/ dominant = NoCapability \/ reserve <= 0 \/ Len(selected) <= reserve
           \/ Lacking(selected, reserve, dominant) <= 0
        THEN selected
        ELSE [i \in DOMAIN selected |->
                IF /\ i \in inFocus
                   /\ behind(i) < Lacking(selected, reserve, dominant)
                   /\ heir(i) # {}
                THEN ranked[CHOOSE k \in heir(i) : TRUE].tool
                ELSE selected[i]]

PublishedWindow(ranked, size, current, reserve, dominant) ==
    WithReserve(Selected(ranked, size, current), ranked, reserve, dominant)
=============================================================================
