-------------------------- MODULE ContextCompiler --------------------------
(***************************************************************************)
(* What `/handoff load` selects from a handoff under a focus and a budget  *)
(* (scripts/context-compiler.mjs).  A v2 Map is filled greedily with the   *)
(* nodes that match; a v3 handoff is selected first and, if it does not    *)
(* fit the budget, its bodies are shortened and then dropped, the least    *)
(* relevant first.  A text is a value with the words it has and the        *)
(* tokens it takes.                                                        *)
(***************************************************************************)
EXTENDS ContextMap

CONSTANTS
  Words,         \* the words of a text: a function
  Tokens,        \* what a text costs: a function
  DefaultBudget  \* DEFAULT_BUDGET, of a v2 Map only

ASSUME TextAssumption ==
  /\ DOMAIN Words = DOMAIN Tokens /\ None \in DOMAIN Tokens
  /\ Words[None] = {} /\ Tokens[None] = 0
  /\ \A t \in DOMAIN Tokens : Tokens[t] \in Nat
  /\ DefaultBudget \in Nat

Efforts == {"min", "low", "med", "high", "max"}
BudgetV2(opt) == IF opt.budget = None THEN DefaultBudget ELSE opt.budget

\* Indices of nodes, sorted.
Sorted(nodes, I, Less(_, _)) ==
  SortSeq(SelectSeq([i \in DOMAIN nodes |-> i], LAMBDA i : i \in I), Less)

SumOf(I, Of(_)) == FoldSet(LAMBDA i, sum : sum + Of(i), 0, I)

\* isCoreNode, isCoreV3Node: the goal, the status, open tasks, high risks.
IsCore(node) ==
  \/ node.section \in {"goals", "status"}
  \/ node.section = "tasks" /\ ~node.checked
  \/ node.section = "risks" /\ node.high

Kin(nodes, i) == {i} \cup Ancestors(nodes, i)
Closed(nodes, I) == UNION {Kin(nodes, i) : i \in I}
Core(nodes) == {i \in DOMAIN nodes : IsCore(nodes[i])}

\* How many words of the focus are found; half of them is a reliable match.
Matched(focus, texts) == Cardinality(focus \cap UNION {Words[t] : t \in texts})
Reliable(focus, texts) == 2 * Matched(focus, texts) >= Cardinality(focus)

-----------------------------------------------------------------------------
(* v2: compileV2Context.                                                   *)

FullResult(nodes, over, fallback) ==
  [selected |-> DOMAIN nodes, overflow |-> over, fallback |-> fallback]

\* What a v2 candidate is found by: its text and those above it.
PathTexts(nodes, i) == {nodes[j].label : j \in Kin(nodes, i)}

\* The candidates in their order, each if it fits with its ancestors.
Fill(nodes, start, order, budget) ==
  LET cost(I) == SumOf(I, LAMBDA i : Tokens[nodes[i].label])
      step(sel, i) ==
        IF cost(sel) + cost(Kin(nodes, i) \ sel) > budget THEN sel ELSE sel \cup Kin(nodes, i)
  IN  FoldLeft(step, start, order)

CompileV2(nodes, opt) ==
  LET cost(I)    == SumOf(I, LAMBDA i : Tokens[nodes[i].label])
      required   == Closed(nodes, Core(nodes))
      others     == DOMAIN nodes \ required
      score(i)   == Matched(opt.focus, PathTexts(nodes, i))
      candidates == {i \in others : Reliable(opt.focus, PathTexts(nodes, i))}
      order      == Sorted(nodes, candidates,
                      LAMBDA i, j : score(i) > score(j) \/ (score(i) = score(j) /\ i < j))
      all        == cost(DOMAIN nodes) > BudgetV2(opt)
      selected   == Fill(nodes, required, order, BudgetV2(opt))
  IN  IF opt.full THEN FullResult(nodes, FALSE, FALSE)
      ELSE IF opt.focus = {} THEN FullResult(nodes, others # {} /\ all, others # {})
      ELSE IF candidates = {} /\ others # {} THEN FullResult(nodes, all, TRUE)
      ELSE [selected |-> selected, overflow |-> cost(selected) > BudgetV2(opt), fallback |-> FALSE]

-----------------------------------------------------------------------------
(* v3: compileV3Context.  Nodes without an ID are never selected.          *)

Entry(nodes, content, i) ==
  IF nodes[i].id \in DOMAIN content THEN content[nodes[i].id] ELSE [summary |-> None, body |-> None]

WithId(nodes, I) == {i \in I : nodes[i].id # None}

Haystack(nodes, content, i) ==
  PathTexts(nodes, i) \cup {Entry(nodes, content, i).summary, Entry(nodes, content, i).body}

\* v3NodeTokens: a label, with its summary, with its summary and body.
NodeTokens(nodes, content, i, level) ==
  LET e == Entry(nodes, content, i)
  IN  Tokens[nodes[i].label]
      + (IF level = "directory" THEN 0 ELSE Tokens[e.summary])
      + (IF level = "full" THEN Tokens[e.body] ELSE 0)

\* The score of what a focus found; what it only brings along has 0.
Select(nodes, content, opt) ==
  LET every      == WithId(nodes, DOMAIN nodes)
      core       == WithId(nodes, Closed(nodes, Core(nodes)))
      others     == every \ core
      candidates == {i \in others : Reliable(opt.focus, Haystack(nodes, content, i))}
      found      == core \cup WithId(nodes, Closed(nodes, candidates))
      \* Children follow their parents in the document, so one pass brings
      \* whole subtrees.
      children   == {i \in every : \E j \in Ancestors(nodes, i) \cap found :
                       \A k \in Ancestors(nodes, i) : k > j => nodes[k].id # None}
      fallback   == others # {} /\ candidates = {}
  IN  IF opt.full \/ opt.effort = "max"
        THEN [selected |-> every, scored |-> {}, fallback |-> FALSE]
      ELSE IF opt.focus = {} \/ fallback
        THEN [selected |-> every, scored |-> {}, fallback |-> others # {}]
      ELSE [selected |-> IF opt.effort = "high" THEN found \cup children ELSE found,
            scored |-> candidates, fallback |-> FALSE]

\* The sections in the order of localeCompare, which is not that of a Map.
Alphabet ==
  <<"decisions", "excluded", "goals", "notes", "questions", "risks", "status", "tasks">>
Letter(section) == CHOOSE k \in DOMAIN Alphabet : Alphabet[k] = section

\* How much a selected node matters: core most, then what the focus found.
Rank(nodes, content, opt, chosen, i) ==
  IF IsCore(nodes[i]) THEN 1 + Cardinality(opt.focus)
  ELSE IF i \in chosen.scored THEN Matched(opt.focus, Haystack(nodes, content, i))
  ELSE 0

\* Mutant of CutOrder: what matters most is cut first.
CutOrderReversed(nodes, content, opt, chosen) ==
  LET rank == [i \in chosen.selected |-> Rank(nodes, content, opt, chosen, i)]
  IN  Sorted(nodes, chosen.selected, LAMBDA i, j : rank[i] > rank[j] \/ (rank[i] = rank[j] /\ i < j))

\* What matters least first; ties by the name of the section, then in order.
CutOrder(nodes, content, opt, chosen) ==
  LET rank   == [i \in chosen.selected |-> Rank(nodes, content, opt, chosen, i)]
      letter == [i \in chosen.selected |-> Letter(nodes[i].section)]
  IN  Sorted(nodes, chosen.selected,
        LAMBDA i, j : \/ rank[i] < rank[j]
                      \/ rank[i] = rank[j] /\ letter[i] < letter[j]
                      \/ rank[i] = rank[j] /\ letter[i] = letter[j] /\ i < j)

StartLevel(effort) ==
  CASE effort = "min" -> "directory" [] effort = "low" -> "summary" [] OTHER -> "full"

Cost(nodes, content, levels) ==
  SumOf(DOMAIN levels, LAMBDA i : NodeTokens(nodes, content, i, levels[i]))

\* The two passes over the bodies, each until the rest fits.
Cut(nodes, content, opt, chosen) ==
  LET start == [i \in chosen.selected |-> StartLevel(opt.effort)]
      order == CutOrder(nodes, content, opt, chosen)
      fits(levels) == Cost(nodes, content, levels) <= opt.budget
      entry(i) == Entry(nodes, content, i)
      shorten(levels, i) ==
        IF fits(levels) \/ entry(i).body = None THEN levels ELSE [levels EXCEPT ![i] = "summary"]
      drop(levels, i) ==
        IF \/ fits(levels)
           \/ levels[i] = "directory"
           \/ levels[i] = "full" /\ entry(i).summary = None /\ entry(i).body = None
           \/ levels[i] = "summary" /\ entry(i).summary = None
        THEN levels ELSE [levels EXCEPT ![i] = "directory"]
      shortened == IF StartLevel(opt.effort) = "full" THEN FoldLeft(shorten, start, order) ELSE start
  IN  IF opt.budget = None THEN start ELSE FoldLeft(drop, shortened, order)

Compiled(nodes, content, opt, chosen) ==
  [selected |-> chosen.selected, scored |-> chosen.scored, fallback |-> chosen.fallback,
   levels |-> Cut(nodes, content, opt, chosen)]

CompileV3(nodes, content, opt) == Compiled(nodes, content, opt, Select(nodes, content, opt))

\* What the result says of itself.
Overflows(nodes, content, opt, r) ==
  opt.budget # None /\ Cost(nodes, content, r.levels) > opt.budget

-----------------------------------------------------------------------------

\* Core nodes and their ancestors are in a v2 result r whatever the budget, and
\* no node without its ancestors; what is added to them fits the budget.
FitsV2(nodes, opt, r) ==
  LET required == Closed(nodes, Core(nodes))
      cost     == SumOf(r.selected, LAMBDA i : Tokens[nodes[i].label])
  IN  /\ required \subseteq r.selected
      /\ Closed(nodes, r.selected) = r.selected
      /\ r.fallback => r.selected = DOMAIN nodes
      /\ cost > BudgetV2(opt) => r.fallback \/ opt.full \/ r.selected = required

\* The same of a v3 result, for nodes with an ID.  No body is shortened, and
\* no summary dropped, while a less relevant one is kept, nor when the result
\* would fit without; and a result that does not fit has nothing left to cut.
FitsV3(nodes, content, opt, r) ==
  LET entry(i) == Entry(nodes, content, i)
      rank     == [i \in r.selected |-> Rank(nodes, content, opt, r, i)]
      start    == StartLevel(opt.effort)
      body(i)  == entry(i).body # None
      text(i)  == entry(i).summary # None \/ body(i)
      longer(i) == [r.levels EXCEPT ![i] = IF @ = "directory" /\ entry(i).summary # None
                                           THEN "summary" ELSE "full"]
      cut      == {i \in r.selected : r.levels[i] # start}
      dropped  == {i \in cut : r.levels[i] = "directory"}
      stage    == IF dropped = {} THEN cut ELSE dropped
      last     == {i \in stage : \A j \in stage : rank[j] <= rank[i]}
  IN  /\ WithId(nodes, Closed(nodes, Core(nodes))) \subseteq r.selected
      /\ WithId(nodes, Closed(nodes, r.selected)) = r.selected
      /\ \A i \in cut, j \in r.selected : rank[j] < rank[i] =>
           /\ body(j) => r.levels[j] # "full"
           /\ r.levels[i] = "directory" /\ entry(j).summary # None => r.levels[j] = "directory"
      /\ cut # {} => \E i \in last : Cost(nodes, content, longer(i)) > opt.budget
      /\ Overflows(nodes, content, opt, r) => \A i \in r.selected :
           entry(i).summary # None => r.levels[i] = "directory"
=============================================================================
