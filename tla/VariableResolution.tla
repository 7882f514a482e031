------------------------- MODULE VariableResolution -------------------------
(***************************************************************************)
(* Variables in the texts of a request: resolve_text and resolve_variable  *)
(* (src-tauri/src/application/request/service/variables.rs), and what is   *)
(* made of a request before it is shown, sent, or copied as a cURL command *)
(* (resolution.rs and materialize_request_content of drafts.rs).           *)
(*                                                                         *)
(* A text is a sequence of names, the {{references}}, and of Literal.  A   *)
(* resolved text is a sequence of Literal, of references that were left as *)
(* they are, of secrets and of Redacted.  A request is abstracted to the   *)
(* texts of its fields, of which some are disabled, and to those of its    *)
(* authorization.                                                          *)
(***************************************************************************)
EXTENDS Integers, Sequences, FiniteSets, SequencesExt

CONSTANTS
  VariableNames,
  References,         \* references to secrets
  Literal, Redacted, Undefined,
  CollectionValues,   \* values tried for variables of the collection
  EnvironmentValues,  \* and for those of the environment
  Contents            \* requests that a user writes

VARIABLES
  draftContent,          \* the request of the draft
  collectionVariables,
  environmentVariables,  \* of the one environment
  selected,              \* it is selected
  expected,              \* the selection when the cURL command was previewed
  readable               \* references whose secrets the store can read

resolutionVars ==
  <<draftContent, collectionVariables, environmentVariables, selected, expected, readable>>

ResolutionInit ==
  /\ draftContent = [fields |-> <<>>, auth |-> <<>>]
  /\ collectionVariables = [n \in VariableNames |-> Undefined]
  /\ environmentVariables = [n \in VariableNames |-> Undefined]
  /\ selected = FALSE /\ expected = FALSE
  /\ readable = References

\* Mutant: the collection comes first.
ScopeOfCollection(n) ==
  IF collectionVariables[n] # Undefined \/ ~selected THEN collectionVariables[n]
  ELSE environmentVariables[n]

\* VariableScope::from_snapshot: the selected environment before the collection.
Scope(n) ==
  IF selected /\ environmentVariables[n] # Undefined THEN environmentVariables[n]
  ELSE collectionVariables[n]

IsSecret(value) == value \in References

\* What resolving a text gives: the text, contains_secret, the references and
\* the errors that it adds to the ResolutionState.
Resolved(value, secret, shown, errors) ==
  [value |-> value, secret |-> secret, shown |-> shown, errors |-> errors]

\* Later references replace earlier ones of the same name.
Joined(r, s) ==
  Resolved(r.value \o s.value, r.secret \/ s.secret,
           [n \in DOMAIN r.shown \union DOMAIN s.shown |->
              IF n \in DOMAIN s.shown THEN s.shown[n] ELSE r.shown[n]],
           r.errors \union s.errors)

NothingYet == Resolved(<<>>, FALSE, <<>>, {})
Unresolved(n, kind) == Resolved(<<n>>, FALSE, <<>>, {[name |-> n, kind |-> kind]})

RECURSIVE ResolveVariable(_, _, _), ResolveWith(_, _, _)

\* resolve_text_with_stack; Get is the secret_resolver, of every reference.
ResolveWith(text, stack, Get) ==
  FoldLeft(LAMBDA done, piece :
             Joined(done, IF piece = Literal THEN Resolved(<<Literal>>, FALSE, <<>>, {})
                          ELSE ResolveVariable(piece, stack, Get)),
           NothingYet, text)

\* What is shown for a variable is what it was resolved to, the last time.
Show(n, r) == [r EXCEPT !.shown = [m \in DOMAIN @ \union {n} |-> IF m = n THEN r.value ELSE @[m]]]

\* resolve_variable.
ResolveVariable(n, stack, Get) ==
  IF n \in Range(stack) THEN Unresolved(n, "cycle")
  ELSE IF Scope(n) = Undefined THEN Unresolved(n, "missing")
  ELSE IF IsSecret(Scope(n)) THEN Show(n, Resolved(<<Get[Scope(n)]>>, TRUE, <<>>, {}))
  ELSE Show(n, ResolveWith(Scope(n), Append(stack, n), Get))

\* resolve_text.
ResolveText(text, Get) == ResolveWith(text, <<>>, Get)

Masked == [r \in References |-> Redacted]

-----------------------------------------------------------------------------
(* Requests: [fields : Seq([enabled, text]), auth : Seq(text)]             *)

\* resolve_request_content: every text, whether its field is enabled or not.
\* Texts of the authorization that contain a secret are masked; those of
\* client credentials, which are resolved apart, are not modelled.
ResolvedContent(content, Get) ==
  LET auth(text) == LET r == ResolveText(text, Get)
                    IN  IF r.secret THEN [r EXCEPT !.value = <<Redacted>>] ELSE r
  IN  [fields |-> [i \in DOMAIN content.fields |-> ResolveText(content.fields[i].text, Get)],
       auth |-> [i \in DOMAIN content.auth |-> auth(content.auth[i])]]

\* The references that a resolution asks the resolver for.
AskedFor(texts) ==
  LET ask(text) == Range(ResolveText(text, [r \in References |-> r]).value)
  IN  References \intersect UNION {ask(text) : text \in texts}

TextsOf(content) ==
  {content.fields[i].text : i \in DOMAIN content.fields} \union Range(content.auth)

\* execution_active_content.
ActiveTexts(content) ==
  {content.fields[i].text : i \in {j \in DOMAIN content.fields : content.fields[j].enabled}}
    \union Range(content.auth)

Failure(why) == [failure |-> why]

\* materialize_request_content: what is sent.  Secrets that are used by
\* disabled fields alone are not read.
Materialize(content) ==
  LET active == AskedFor(ActiveTexts(content))
  IN  IF active \subseteq readable
      THEN ResolvedContent(content, [r \in References |-> IF r \in active THEN r ELSE Redacted])
      ELSE Failure("request.secret.unavailable")

\* materialize_request_content_for_curl: the authorization is resolved apart,
\* and the selection must still be the one the preview was made for.
MaterializeForCurl(content) ==
  IF selected # expected THEN Failure("curl.resolution.stale")
  ELSE IF ~(AskedFor(TextsOf(content)) \subseteq readable) THEN Failure("curl.secret.unavailable")
  ELSE LET Get == [r \in References |-> r] IN
       [fields |-> [i \in DOMAIN content.fields |-> ResolveText(content.fields[i].text, Get)],
        auth |-> [i \in DOMAIN content.auth |-> ResolveText(content.auth[i], Get)]]

-----------------------------------------------------------------------------
(* What a user does to the request and to the variables *)

EditContent(content) ==
  /\ draftContent' = content
  /\ UNCHANGED <<collectionVariables, environmentVariables, selected, expected, readable>>

SetCollectionVariable(n, value) ==
  /\ collectionVariables' = [collectionVariables EXCEPT ![n] = value]
  /\ UNCHANGED <<draftContent, environmentVariables, selected, expected, readable>>

SetEnvironmentVariable(n, value) ==
  /\ environmentVariables' = [environmentVariables EXCEPT ![n] = value]
  /\ UNCHANGED <<draftContent, collectionVariables, selected, expected, readable>>

SelectVariables(on) ==
  /\ selected' = on
  /\ UNCHANGED <<draftContent, collectionVariables, environmentVariables, expected, readable>>

PreviewCurl ==
  /\ expected' = selected
  /\ UNCHANGED <<draftContent, collectionVariables, environmentVariables, selected, readable>>

StoreChanges ==
  /\ readable' \in {{}, References}
  /\ UNCHANGED <<draftContent, collectionVariables, environmentVariables, selected, expected>>

ResolutionNext ==
  \/ \E content \in Contents : EditContent(content)
  \/ \E n \in VariableNames :
       \/ \E value \in CollectionValues : SetCollectionVariable(n, value)
       \/ \E value \in EnvironmentValues : SetEnvironmentVariable(n, value)
  \/ \E on \in BOOLEAN : SelectVariables(on)
  \/ PreviewCurl \/ StoreChanges

ResolutionSpec == ResolutionInit /\ [][ResolutionNext]_resolutionVars

-----------------------------------------------------------------------------
(* Properties *)

\* The reference definition: the value a name stands for, whatever the order in
\* which names are looked up, is a graph, and what a text depends on is what it
\* reaches in the graph.
Meaning(n) ==
  IF selected /\ environmentVariables[n] # Undefined THEN environmentVariables[n]
  ELSE collectionVariables[n]
Uses(n) ==
  IF Meaning(n) = Undefined \/ IsSecret(Meaning(n)) THEN {} ELSE Range(Meaning(n)) \ {Literal}
Step(names) == names \union UNION {Uses(n) : n \in names}
Reach(names) == FoldLeft(LAMBDA found, n : Step(found), names, SetToSeq(VariableNames))

\* Resolution ends and says of every text what is wrong with it: the names it
\* reaches that have no value, and the cycles, each by a name that lies on one;
\* a text without errors has no reference left, and shows a secret if and only
\* if it reaches one.
ResolutionIsExact ==
  \A text \in TextsOf(draftContent) :
    LET r == ResolveText(text, Masked)
        reached == Reach(Range(text) \ {Literal})
        errors(kind) == {n \in VariableNames : [name |-> n, kind |-> kind] \in r.errors}
    IN  /\ errors("missing") = {n \in reached : Meaning(n) = Undefined}
        /\ errors("cycle") \subseteq {n \in reached : n \in Reach(Uses(n))}
        /\ errors("cycle") = {} <=> \A n \in reached : n \notin Reach(Uses(n))
        /\ Range(r.value) \intersect VariableNames = errors("missing") \union errors("cycle")
        /\ r.secret <=> \E n \in reached : IsSecret(Meaning(n))

\* What is shown for each variable is its value, not that of an inner use of it
\* that was cut short, unless a cycle is reported.
ReferencesShowValues ==
  \A text \in TextsOf(draftContent) :
    LET r == ResolveText(text, Masked)
    IN  (\A e \in r.errors : e.kind # "cycle") =>
          \A n \in DOMAIN r.shown : r.shown[n] = ResolveText(<<n>>, Masked).value

\* A request is sent if and only if the secrets can be read that its enabled
\* fields and its authorization reach; one of a disabled field is no obstacle.
OnlyUsedSecretsAreNeeded ==
  LET reached == Reach(UNION {Range(text) \ {Literal} : text \in ActiveTexts(draftContent)})
  IN  "failure" \in DOMAIN Materialize(draftContent)
        <=> \E n \in reached : Meaning(n) \in References \ readable

\* A cURL command that is copied says what its preview said, and has the values
\* of the secrets; after a change of the environment it is refused.
CurlIsWhatWasPreviewed ==
  LET copy == MaterializeForCurl(draftContent)
  IN  "failure" \notin DOMAIN copy =>
        /\ selected = expected
        /\ \A i \in DOMAIN copy.auth : Redacted \notin Range(copy.auth[i].value)
        /\ \A i \in DOMAIN copy.fields : Redacted \notin Range(copy.fields[i].value)

\* What is sent has the values of the variables, in the fields and in the
\* authorization alike (CONTEXT.md: a variable has one value, which a request
\* refers to as {{variable_name}}).
SentAuthorizationHasValues ==
  LET sent == Materialize(draftContent)
  IN  "failure" \notin DOMAIN sent =>
        \A i \in DOMAIN sent.auth : Redacted \notin Range(sent.auth[i].value)

\* What resolution promises: values are those that the scopes define, and the
\* preview, the secrets that are read and the cURL command agree with them.
ResolutionCorrect ==
  /\ ResolutionIsExact
  /\ ReferencesShowValues
  /\ OnlyUsedSecretsAreNeeded
  /\ CurlIsWhatWasPreviewed

=============================================================================
