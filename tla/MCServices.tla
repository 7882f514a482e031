----------------------------- MODULE MCServices -----------------------------
(***************************************************************************)
(* Small instances, for TLC, of the parts of the program that keep state   *)
(* of their own.  They share none, so a behaviour is one of any of them:   *)
(* the part is chosen at the start and the others stay as they are.        *)
(***************************************************************************)
EXTENDS TokenCache, OAuthFlow, ExecutionHistory, DatabaseRecovery, ResponseSpool,
        VariableResolution, PostmanImport, NativeBackup, Curl, Diagnostics

CONSTANTS
  Parts,                          \* the parts that are checked
  nameA, nameB, nameC, aSecret,   \* variables
  call1, call2, theFlow, theKey,
  directory1, directory2, aFile   \* of a body file

VARIABLE part

allVars == <<part, tokenVars, flowVars, historyVars, recoveryVars, spoolVars, resolutionVars,
             importVars, backupVars, curlVars, logVars>>

OneKey == [c \in Callers |-> theKey]
OneFlow == [c \in Calls |-> theFlow]
LastElsewhere == [e \in Executions |-> IF e = 3 THEN 2 ELSE 1]

-----------------------------------------------------------------------------
\* Values with and without a secret, chains, cycles of every length up to three,
\* and names that the environment hides.
OfCollection == {Undefined, aSecret, <<nameB>>, <<nameC, Literal>>, <<nameA, nameB>>}
OfEnvironment == {Undefined, <<nameA>>}
Field(on, text) == [enabled |-> on, text |-> text]
SomeContents ==
  {[fields |-> <<Field(TRUE, <<Literal, nameA>>), Field(FALSE, <<nameB, nameC>>)>>, auth |-> <<>>],
   [fields |-> <<Field(FALSE, <<nameA>>), Field(TRUE, <<nameC, nameA>>)>>, auth |-> <<<<nameB>>>>],
   [fields |-> <<Field(FALSE, <<nameC>>)>>, auth |-> <<<<Literal>>, <<nameA>>>>]}

\* A document with a secret, and one without an environment.
SomeDocuments ==
  {[source |-> "A", env |-> "dev", protected |-> 1], [source |-> "B", env |-> Missing, protected |-> 0]}

\* A request with a body file in a folder of a folder, its draft with the same
\* file, the tab of both, and a record; and an environment, a draft, a cookie.
BackupRow(kind, name, of, held, value) ==
  [kind |-> kind, name |-> name, of |-> of, file |-> held, value |-> value]
FileAt(place, hash) == [at |-> place, name |-> aFile, hash |-> hash]
SavedRows ==
  <<BackupRow("folder", "f", <<>>, NoBodyFile, "plain"), BackupRow("folder", "g", <<1>>, NoBodyFile, "plain"),
    BackupRow("request", "r", <<2>>, FileAt("relative", "h1"), "secret"),
    BackupRow("draft", "d", <<3>>, FileAt(directory1, "h1"), "secret"),
    BackupRow("tab", "t", <<4, 3>>, NoBodyFile, "plain"),
    BackupRow("record", "e", <<>>, FileAt(directory1, "h2"), "secret")>>
OtherRows ==
  <<BackupRow("environment", "n", <<>>, NoBodyFile, "plain"),
    BackupRow("variable", "v", <<1>>, NoBodyFile, "secret"),
    BackupRow("draft", "u", <<>>, NoBodyFile, "plain"), BackupRow("tab", "t", <<3>>, NoBodyFile, "plain"),
    BackupRow("cookie", "c", <<>>, NoBodyFile, "secret")>>
SomeRows == {SavedRows, OtherRows}

-----------------------------------------------------------------------------
(* Requests for cURL *)

CurlRow(name, value, on) == [name |-> name, value |-> value, enabled |-> on]
FilePart(name, on) == [name |-> name, file |-> "p", enabled |-> on]
PlainRequest ==
  [method |-> "PUT", url |-> "u", headers |-> <<>>, auth |-> [kind |-> "none"], body |-> [kind |-> "none"],
   redirect |-> TRUE, maxRedirects |-> 10, verify |-> TRUE, proxy |-> Unset, noProxy |-> <<>>,
   connectMs |-> 10000, overallMs |-> 300000]

SomeHeaders ==
  {<<>>, <<CurlRow("B", "1", TRUE)>>,
   <<CurlRow("A", "1", TRUE), CurlRow("A", "2", FALSE), CurlRow("A", "3", TRUE)>>}
SomeAuths ==
  {[kind |-> "none"], [kind |-> "basic", user |-> "U", value |-> "P"], [kind |-> "bearer", value |-> "T"],
   [kind |-> "apiKey", user |-> "K", value |-> "V"], [kind |-> "clientCredentials"]}
SomeBodies ==
  {[kind |-> "none"], [kind |-> "raw", text |-> <<"t", "&">>], [kind |-> "binary", file |-> "p"],
   [kind |-> "urlencoded", rows |-> <<CurlRow("a", "1", FALSE), CurlRow("b", "2", TRUE)>>],
   [kind |-> "urlencoded", rows |-> <<CurlRow("a", "1", FALSE)>>],
   [kind |-> "multipart", rows |-> <<CurlRow("a", Text("x"), TRUE), FilePart("f", FALSE), FilePart("g", TRUE)>>],
   [kind |-> "multipart", rows |-> <<CurlRow("a", [at |-> TRUE, text |-> "y"], TRUE)>>]}

SomeCommands ==
  {[PlainRequest EXCEPT !.headers = h, !.auth = a, !.body = b, !.method = m] :
     h \in SomeHeaders, a \in SomeAuths, b \in SomeBodies, m \in {"GET", "PUT"}}
  \union
  {[PlainRequest EXCEPT !.redirect = r, !.maxRedirects = n, !.verify = v, !.proxy = p, !.noProxy = q,
                        !.connectMs = c, !.overallMs = c * 2] :
     r \in BOOLEAN, n \in {0, 3, 10, 11, 255}, v \in BOOLEAN, p \in {Unset, "P"}, q \in {<<>>, <<"h">>},
     c \in {0, 2500, 10000, 150000}}

-----------------------------------------------------------------------------
Init ==
  /\ part \in Parts
  /\ TokensInit /\ FlowsInit /\ HistoryInit /\ RecoveryInit /\ SpoolInit /\ ResolutionInit
  /\ ImportInit /\ BackupInit /\ CurlInit /\ DiagnosticsInit

Next ==
  /\ UNCHANGED part
  /\ IF part = "tokens" THEN TokensNext ELSE UNCHANGED tokenVars
  /\ IF part = "flows" THEN FlowsNext ELSE UNCHANGED flowVars
  /\ IF part = "history" THEN HistoryNext ELSE UNCHANGED historyVars
  /\ IF part = "recovery" THEN RecoveryNext ELSE UNCHANGED recoveryVars
  /\ IF part = "spool" THEN SpoolNext ELSE UNCHANGED spoolVars
  /\ IF part = "resolution" THEN ResolutionNext ELSE UNCHANGED resolutionVars
  /\ IF part = "import" THEN ImportNext ELSE UNCHANGED importVars
  /\ IF part = "backup" THEN BackupNext ELSE UNCHANGED backupVars
  /\ IF part = "curl" THEN CurlNext ELSE UNCHANGED curlVars
  /\ IF part = "diagnostics" THEN DiagnosticsNext ELSE UNCHANGED logVars

Spec == Init /\ [][Next]_allVars

=============================================================================
