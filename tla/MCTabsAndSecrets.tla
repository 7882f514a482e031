-------------------------- MODULE MCTabsAndSecrets --------------------------
(***************************************************************************)
(* Small instances, for TLC, of three parts of a workspace: a tab that     *)
(* shows one execution after another, and the two parts that keep secrets  *)
(* beside their rows, cookies and environment variables.  They             *)
(* share no state, so a behaviour is one of any of them: the part is       *)
(* chosen at the start and the others stay as they are.                    *)
(***************************************************************************)
EXTENDS MCExecutionView, CookieJar, EnvironmentSecrets, TLC

CONSTANTS a, b, x, y, n1, n2, s1, s2,
          Parts   \* the parts that are checked

VARIABLE part

allVars == <<part, vars, jarVars, secretVars>>

\* What is only compared can be renamed.
Renamings ==
  Permutations({a, b}) \union Permutations({x, y}) \union Permutations({s1, s2})

\* What a step depends on: "last" tells of the step before, and is looked at only in
\* the state that the step reaches.
WithoutLast == <<part, vars, jar, service, now, secretVars>>

PartsInit == part \in Parts /\ Init /\ JarInit /\ SecretsInit

PartsNext ==
  /\ UNCHANGED part
  /\ IF part = "tab" THEN Next ELSE UNCHANGED vars
  /\ IF part = "cookies" THEN JarNext ELSE UNCHANGED jarVars
  /\ IF part = "secrets" THEN SecretsNext ELSE UNCHANGED secretVars

PartsSpec == PartsInit /\ [][PartsNext]_allVars

=============================================================================
