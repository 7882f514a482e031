---------------------------- MODULE MCSmallParts ----------------------------
(***************************************************************************)
(* Small instances, for TLC, of parts of the program with few states: what *)
(* has to happen eventually to executions and to calls that wait for a     *)
(* browser, the workspaces, and the tree of collections with the documents *)
(* that are made of it.  They share no state, so a behaviour is one of any *)
(* of them: the part is chosen at the start and the others stay as they    *)
(* are.                                                                    *)
(***************************************************************************)
EXTENDS MCExecutionCoordinator, OAuthFlow, WorkspaceData, PostmanDocument

CONSTANTS call1, call2, theFlow, w1, w2, w3, f1, f2, f3, r1, r2

VARIABLE part

\* The documents of a tree are those of the part "tree".
Parts == {"executions", "flows", "spaces", "tree", "documents"}

allVars == <<part, vars, flowVars, spaceVars, treeVars, documentVars>>

OneFlow == [c \in Calls |-> theFlow]

\* No rows, one, one without a name, and two that are not in their order.
ARow(name, enabled, order) == [name |-> name, enabled |-> enabled, order |-> order]
SomeRows ==
  {<<>>, <<ARow("p", TRUE, 0)>>, <<ARow("", TRUE, 0), ARow("p", FALSE, 1)>>,
   <<ARow("p", TRUE, 1), ARow("q", FALSE, 0)>>}
SomeBodies ==
  [kind : {"none", "raw", "binary"}, parts : {<<>>}] \union [kind : {"urlencoded"}, parts : SomeRows]
    \union [kind : {"multipart"}, parts : {<<ARow("p", TRUE, 0), [file |-> 1], ARow("", FALSE, 2)>>}]
SomeContents ==
  [url : {"plain", "withQuery"}, query : SomeRows, body : SomeBodies,
   auth : {"none", "basic", "clientCredentials"}]
SomeElements == [key : {"", "k"}, enabled : BOOLEAN, secret : BOOLEAN]

PartsInit ==
  /\ part \in Parts
  /\ Init /\ FlowsInit /\ SpacesInit /\ TreeInit /\ DocumentInit

PartsNext ==
  /\ UNCHANGED part
  /\ IF part = "executions" THEN Next ELSE UNCHANGED vars
  /\ IF part = "flows" THEN FlowsNext ELSE UNCHANGED flowVars
  /\ IF part = "spaces" THEN SpacesNext ELSE UNCHANGED spaceVars
  /\ IF part = "tree" THEN TreeNext ELSE UNCHANGED treeVars
  /\ IF part = "documents" THEN DocumentNext ELSE UNCHANGED documentVars

PartsSpec == PartsInit /\ [][PartsNext]_allVars /\ Fairness /\ FlowsFairness

=============================================================================
