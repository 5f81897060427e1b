-------------------------- MODULE MCContextHistory --------------------------
(***************************************************************************)
(* Directories for ContextHistory: a v3 handoff whose Map and bodies are   *)
(* edited, one whose saves are killed, a v2 handoff with its snapshots,    *)
(* and 1.x handoffs with every mix of sources.                             *)
(***************************************************************************)
EXTENDS ContextHistory

CONSTANTS a, b, c, title

MCSectionOrder == <<"goals", "status", "tasks", "decisions", "questions", "risks", "notes">>
MCLabels == {a, b}
MCBodies == {None, c}
MCWidths == {0, 2, 4}
MCExtras == {<<"Ideas", a>>}

Superseded == {<<f, l, s>> : f \in {"goals", "status"}, l \in {a, b, c}, s \in {"json", "handoff"}}
AllTexts == {a, b, c, title, None} \cup Superseded
MCWords == [t \in AllTexts |-> CASE t = None -> {} [] t = a -> {1} [] t = b -> {2} [] t = c -> {1, 3}
                             [] OTHER -> {4}]
MCTokens == [t \in AllTexts |-> CASE t = None -> 0 [] t = a -> 1 [] t = c -> 3 [] OTHER -> 2]

Opt(focus, effort, budget, full) == [focus |-> focus, effort |-> effort, budget |-> budget, full |-> full]
\* The text c is "a > b".
MCPieces == [t \in AllTexts |-> IF t = c THEN <<a, b>> ELSE <<t>>]

MCOptions ==
  {Opt({}, "med", 4, FALSE), Opt({1}, "med", None, FALSE), Opt({1}, "high", 6, FALSE),
   Opt({1, 2}, "med", 7, FALSE), Opt({1, 2, 3}, "med", 5, FALSE), Opt({3}, "low", 6, FALSE),
   Opt({2}, "min", 3, FALSE), Opt({2}, "max", 8, FALSE), Opt({4}, "med", 9, TRUE)}

Done(label) == [Item(0, None, label, TRUE, FALSE) EXCEPT !.checked = TRUE]
At(width, section, n, label, checked) == Item(width, <<section, n>>, label, checked, FALSE)
Said3(s, t) == [summary |-> s, body |-> t, origin |-> "agent"]

\* A Map with bodies, two of whose nodes are the agent's, and the same with
\* drafts and an unknown section.
V3Map == <<Heading("goals"), At(0, "goals", 1, a, FALSE),
           Heading("tasks"), At(0, "tasks", 1, a, TRUE), At(2, "tasks", 2, b, FALSE), At(4, "tasks", 3, a, TRUE),
           Heading("notes"), At(0, "notes", 1, b, FALSE)>>
Edited ==
  [layout |-> "v3", files |-> NoFiles, snapshots |-> {}, doc |-> V3Map, extras |-> <<>>,
   marks |-> (<<"tasks", 2>> :> <<b, FALSE>>) @@ (<<"notes", 1>> :> <<b, FALSE>>),
   edits |-> [left |-> 2, kinds |-> {"label", "check", "indent", "remove", "body"}],
   content |-> (<<"tasks", 1>> :> Said3(a, c)) @@ (<<"tasks", 2>> :> Said3(b, c))
               @@ (<<"tasks", 3>> :> Said3(c, None)) @@ (<<"notes", 1>> :> Said3(a, c))]
Drafted ==
  [Edited EXCEPT !.doc = V3Map \o <<Item(2, None, a, FALSE, FALSE), Item(4, <<"notes", 2>>, a, FALSE, FALSE)>>,
                 !.extras = <<<<"Ideas", b>>>>,
                 !.edits = [left |-> 1, kinds |-> {"add", "indent"}]]

Killed ==
  [layout |-> "v3", files |-> NoFiles, snapshots |-> {}, marks |-> <<>>, extras |-> <<>>,
   edits |-> [left |-> 3, kinds |-> {"check", "label", "kill", "clock"}],
   doc |-> <<Heading("tasks"), At(0, "tasks", 1, a, FALSE)>>,
   content |-> (<<"tasks", 1>> :> Said3(a, None))]

OldMap == <<Heading("goals"), Done(a), Heading("tasks"), Item(0, None, a, FALSE, FALSE),
            Item(2, None, b, TRUE, FALSE), Heading("notes"), Item(0, None, a, FALSE, FALSE),
            Item(0, None, a, FALSE, FALSE)>>
Older ==
  [layout |-> "v2", files |-> NoFiles, doc |-> OldMap, content |-> <<>>, marks |-> <<>>,
   extras |-> <<>>,
   edits |-> [left |-> 2, kinds |-> {"label", "check", "indent", "remove"}],
   snapshots |-> {[nodes |-> MapNodes(OldMap), extras |-> <<<<"Ideas", b>>>>]}]

Of(goal, status, tasks, notes) ==
  [s \in {"goals", "status", "tasks", "decisions", "risks", "notes"} |->
     CASE s = "goals" -> goal [] s = "status" -> status [] s = "tasks" -> tasks
       [] s = "notes" -> notes [] OTHER -> <<>>]
Legacy ==
  {[layout |-> IF map = <<>> THEN "legacy" ELSE "v2", doc |-> map, content |-> <<>>, snapshots |-> {},
    marks |-> <<>>, extras |-> <<>>,
    edits |-> [left |-> 0, kinds |-> {}],
    files |-> [json |-> json, handoff |-> handoff, tasksMd |-> tasks, decisionsMd |-> None,
               version |-> version, config |-> config, generated |-> generated]] :
     map \in {<<>>, <<Heading(None)>>, <<Heading("goals"), Done(a), Heading("tasks"), Done(b)>>},
     json \in {None, Of(<<a>>, <<b>>, <<a, b>>, <<c>>), [goals |-> <<b>>]},
     handoff \in {None, Of(<<b>>, <<c>>, <<b, c>>, <<>>)},
     tasks \in {None, Of(<<>>, <<>>, <<c, a>>, <<>>)},
     version \in {None, 1}, config \in {None, 1, 2}, generated \in BOOLEAN}

\* Unknown sections, marks, order and priorities that change, and the first in a
\* v2 layout as well.
Noted ==
  [Killed EXCEPT !.doc = @ \o <<At(0, "tasks", 2, b, FALSE)>>, !.extras = <<<<"Ideas", b>>>>,
                 !.marks = <<"tasks", 2>> :> <<b, FALSE>>,
                 !.edits = [left |-> 3, kinds |-> {"extra", "label", "body", "swap", "priority"}]]
OlderNoted ==
  [Older EXCEPT !.doc = SubSeq(@, 1, 4), !.extras = <<<<"Ideas", b>>, <<"Ideas", a>>>>,
                !.snapshots = {[nodes |-> MapNodes(SubSeq(OldMap, 1, 4)), extras |-> <<<<"Ideas", b>>>>]},
                !.edits = [left |-> 2, kinds |-> {"extra", "label"}]]

MCStarts == {Edited, Drafted, Killed, Older, Noted, OlderNoted} \cup Legacy
=============================================================================
