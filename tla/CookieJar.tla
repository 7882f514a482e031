------------------------------ MODULE CookieJar ------------------------------
(***************************************************************************)
(* The cookies of a workspace: RequestService in                           *)
(* src-tauri/src/application/request/service/drafts.rs over the table      *)
(* workspace_cookies and the two secret stores of                          *)
(* application/secrets.rs and infrastructure/secrets.rs.                   *)
(*                                                                         *)
(* The value of a persistent cookie is a secret that its row refers to;    *)
(* that of a session cookie is held in memory.  Rows and secrets have no   *)
(* transaction in common: every operation is a sequence of calls, each of  *)
(* which may fail and leave the earlier ones done.  A crash inside an      *)
(* operation is such a failure followed by JarRestart.                     *)
(***************************************************************************)
EXTENDS Integers, Sequences, FiniteSets

CONSTANTS
  Scopes,      \* (name, domain, path) of a cookie
  CookieValues,
  MaxCookies,  \* bound: cookie ids
  MaxSecrets,  \* bound: secrets in the stores
  MaxTime,     \* bound: the clock
  MaxHeaders,  \* bound: Set-Cookie headers of a response
  Faults,      \* what may go wrong: the "database", the secret "storage", the "headers"
  Malformed,   \* a Set-Cookie header that cannot be parsed
  Nil

ASSUME BoundsAssumption == {MaxCookies, MaxSecrets, MaxTime, MaxHeaders} \subseteq Nat
ASSUME FaultsAssumption == Faults \subseteq {"database", "storage", "headers"}
ASSUME NilAssumption == Nil \notin CookieValues /\ Nil \notin Nat

VARIABLES
  jar,      \* rows, values in memory and both secret stores
  service,  \* the system's secret service: "open", "locked" or "gone"
  now,      \* the clock
  last      \* the last command: whether it succeeded and set a session cookie

jarVars == <<jar, service, now, last>>

CookieIds == 1..MaxCookies
Refs == 1..MaxSecrets
Expiries == 0..MaxTime
CookieRow == [id : CookieIds, expires : Expiries \union {Nil}, ref : Refs \union {Nil}]
ASSUME CookieRowAssumption == Nil \notin CookieRow
CookieDraft == [scope : Scopes, value : CookieValues, expires : Expiries \union {Nil},
          id : CookieIds \union {Nil}]

\* "latest" is a history variable: the value last stored for each scope.
Jar == [rows : [Scopes -> CookieRow \union {Nil}],
        memory : [CookieIds -> CookieValues \union {Nil}],
        native : [Refs -> CookieValues \union {Nil}],
        session : [Refs -> CookieValues \union {Nil}],
        latest : [Scopes -> CookieValues \union {Nil}]]

\* No command, or one that does not return to a caller.
Silent == [by |-> "silent", ok |-> TRUE, session |-> FALSE]

JarInit ==
  /\ jar = [rows |-> [s \in Scopes |-> Nil], memory |-> [i \in CookieIds |-> Nil],
            native |-> [r \in Refs |-> Nil], session |-> [r \in Refs |-> Nil],
            latest |-> [s \in Scopes |-> Nil]]
  /\ service = "open"
  /\ now = 0
  /\ last = Silent

-----------------------------------------------------------------------------
(* Steps of an operation: each maps a jar to the set of its outcomes *)

Done(j) == [jar |-> j, ok |-> TRUE]
Failed(j) == [jar |-> j, ok |-> FALSE]

\* The operator ?: go on where a step succeeded, return where it failed.
AndThen(outcomes, Step(_)) ==
  UNION {IF o.ok THEN Step(o.jar) ELSE {o} : o \in outcomes}

Fails(fault, j) == IF fault \in Faults THEN {Failed(j)} ELSE {}

Live(j) == {s \in Scopes : j.rows[s] # Nil}
Stored(j) == {r \in Refs : j.native[r] # Nil \/ j.session[r] # Nil}
Referred(j) == {j.rows[s].ref : s \in Live(j)} \ {Nil}
Smallest(S) == CHOOSE n \in S : \A m \in S : n <= m

\* new_reference and CookieId::new.  What a command drops it does not draw again.
Used(j) == Stored(j) \union Referred(j)
FreshRefs(j) == Refs \ (Used(j) \union Used(jar))
FreshIds(j) ==
  CookieIds \ ({j.rows[s].id : s \in Live(j)} \union {i \in CookieIds : j.memory[i] # Nil})

\* FallbackSecretStore::put.
Put(j, ref, value) ==
  {Done(IF service = "open" THEN [j EXCEPT !.native[ref] = value]
        ELSE [j EXCEPT !.session[ref] = value])} \union Fails("storage", j)

\* FallbackSecretStore::delete cannot delete what is locked, and takes a
\* service that is gone for one that has nothing to delete.
Deletable(j, ref) == service = "locked" => j.native[ref] = Nil
MayFail(j, ref) == ~Deletable(j, ref) \/ "storage" \in Faults
Forget(j, refs) ==
  [j EXCEPT !.native = [r \in Refs |->
              IF r \in refs /\ service # "gone" THEN Nil ELSE @[r]],
            !.session = [r \in Refs |-> IF r \in refs THEN Nil ELSE @[r]]]
Delete(j, ref) ==
  {Done(Forget(k, {ref})) : k \in {k \in {j} : Deletable(j, ref)}}
    \union {Failed(k) : k \in {k \in {j} : MayFail(j, ref)}}

\* What is left of rows that are gone from the table: their values are removed
\* one after the other, up to the first that cannot be deleted.
RefsOf(gone) == {row.ref : row \in gone} \ {Nil}
Cleaned(j, done, tried) ==
  [Forget(j, RefsOf(done)) EXCEPT !.memory = [i \in CookieIds |->
     IF \E row \in done \union tried : row.id = i THEN Nil ELSE j.memory[i]]]
Purge(j, gone) ==
  LET Clean(rows) == \A ref \in RefsOf(rows) : Deletable(j, ref)
  IN  {Done(Cleaned(j, rows, {})) : rows \in {rows \in {gone} : Clean(rows)}}
        \union {Failed(Cleaned(j, try[1], {try[2]})) :
                  try \in {try \in (SUBSET gone) \X gone :
                    /\ Clean(try[1])
                    /\ try[2] \notin try[1]
                    /\ try[2].ref # Nil /\ MayFail(j, try[2].ref)}}

\* The table without the rows of these scopes.
Without(j, scopes) ==
  [j EXCEPT !.rows = [s \in Scopes |-> IF s \in scopes THEN Nil ELSE j.rows[s]]]

\* cleanup_and_load_cookies.
ExpiredCookies(expires) == expires # Nil /\ expires <= now
Cleanup(j) ==
  LET old == {s \in Live(j) : ExpiredCookies(j.rows[s].expires)}
      purged == Purge(Without(j, old), {j.rows[s] : s \in old})
  IN  Fails("database", j) \union purged
        \union UNION {Fails("database", o.jar) : o \in purged}

-----------------------------------------------------------------------------
(* Storing a cookie *)

\* upsert_cookie_metadata.  A cookie that has expired deletes the row and is
\* reported as not found; an id that another row has breaks a constraint.
Upsert(j, draft, ref) ==
  LET s == draft.scope
      row == j.rows[s]
      taken == \E other \in Live(j) : j.rows[other].id = draft.id
      id == IF row # Nil THEN row.id
            ELSE IF draft.id # Nil THEN draft.id ELSE Smallest(FreshIds(j))
  IN  Fails("database", j) \union
      {IF ExpiredCookies(draft.expires) THEN Failed([j EXCEPT !.rows[s] = Nil])
       ELSE IF row = Nil /\ taken THEN Failed(j)
       ELSE Done([j EXCEPT !.rows[s] = [id |-> id, expires |-> draft.expires, ref |-> ref],
                           !.latest[s] = draft.value])}

\* Mutant: the value that the row referred to before is not deleted.
ReplaceForgets(j, draft, old) ==
  LET row == j.rows[draft.scope] IN
    {Done([j EXCEPT !.memory[row.id] = IF row.ref = Nil THEN draft.value ELSE Nil])}

\* The rest of upsert_cookie: the value that the row no longer refers to goes.
Replace(j, draft, old) ==
  LET row == j.rows[draft.scope] IN
    IF row.ref = Nil THEN {Done([j EXCEPT !.memory[row.id] = draft.value])}
    ELSE LET k == [j EXCEPT !.memory[row.id] = Nil] IN
           IF old # Nil /\ old.ref # Nil THEN Delete(k, old.ref) ELSE {Done(k)}

\* upsert_cookie.
Stores(j, draft) ==
  LET old == j.rows[draft.scope]
      ref == IF draft.expires = Nil THEN Nil ELSE Smallest(FreshRefs(j))
      put == IF draft.expires = Nil THEN {Done(j)} ELSE Put(j, ref, draft.value)
      written == AndThen(Fails("database", j) \union put, LAMBDA k : Upsert(k, draft, ref))
      replaced == AndThen(written, LAMBDA k : Replace(k, draft, old))
  IN  AndThen(replaced, Cleanup)

\* capture_set_cookie_headers: it stops at the first header that fails.
Received(outcomes, header) ==
  AndThen(outcomes, LAMBDA j : IF header = Malformed THEN {Failed(j)} ELSE Stores(j, header))
Captured(headers) ==
  LET after[i \in 0..Len(headers)] ==
        IF i = 0 THEN {Done(jar)} ELSE Received(after[i - 1], headers[i])
  IN  after[Len(headers)]

-----------------------------------------------------------------------------
(* Commands *)

Returns(outcomes, session) ==
  /\ \E o \in outcomes :
       /\ jar' = o.jar
       /\ last' = [by |-> "command", ok |-> o.ok, session |-> session]
  /\ UNCHANGED <<service, now>>

\* Bound: ids and references for what the command may store.
Room(cookies) ==
  Cardinality(FreshIds(jar)) >= cookies /\ Cardinality(FreshRefs(jar)) >= cookies

\* upsert_cookie, from the cookie panel.
UpsertCookie(draft) ==
  /\ Room(1)
  /\ Returns(Stores(jar, draft), draft.expires = Nil)

\* The sink of an execution, on the headers of the response.
Capture(headers) ==
  /\ Room(Len(headers))
  /\ Returns(Captured(headers),
             \E i \in DOMAIN headers : headers[i] # Malformed /\ headers[i].expires = Nil)

\* delete_cookie, also of a cookie that is no longer there.
DeleteCookie(id) ==
  LET found == {s \in Live(jar) : jar.rows[s].id = id}
      purged == Purge(Without(jar, found), {jar.rows[s] : s \in found})
  IN  Returns(IF found = {} THEN {Failed(jar)}
              ELSE Fails("database", jar) \union AndThen(purged, Cleanup),
              FALSE)

\* clear_cookies.
ClearCookies ==
  LET purged == Purge(Without(jar, Live(jar)), {jar.rows[s] : s \in Live(jar)})
  IN  Returns(Fails("database", jar) \union AndThen(purged, Cleanup), FALSE)

\* list_cookies, reveal_cookie_value and attach_matching_cookies.
ListCookies == Returns(Cleanup(jar), FALSE)

\* The end of the program, or a crash, and the next start
\* (clear_session_cookie_metadata).
JarRestart ==
  /\ jar' = [jar EXCEPT
       !.rows = [s \in Scopes |->
         IF s \in Live(jar) /\ @[s].expires = Nil THEN Nil ELSE @[s]],
       !.memory = [i \in CookieIds |-> Nil],
       !.session = [r \in Refs |-> Nil]]
  /\ last' = Silent
  /\ UNCHANGED <<service, now>>

JarTick ==
  /\ now < MaxTime
  /\ now' = now + 1
  /\ last' = Silent
  /\ UNCHANGED <<jar, service>>

\* The user locks or unlocks the key ring; the service stops or starts.
ServiceChanges ==
  /\ service' \in {"open", "locked", "gone"} \ {service}
  /\ last' = Silent
  /\ UNCHANGED <<jar, now>>

Headers ==
  {h \in {Malformed} : "headers" \in Faults} \union {draft \in CookieDraft : draft.id = Nil}

\* The panel gives the id of the cookie it edits.  One that is gone from the table
\* since then is an id like any new one.
PanelDrafts ==
  {draft \in CookieDraft : draft.id \in {Nil} \union {jar.rows[s].id : s \in Live(jar)}}

JarNext ==
  \/ \E draft \in PanelDrafts : UpsertCookie(draft)
  \/ \E n \in 1..MaxHeaders : \E headers \in [1..n -> Headers] : Capture(headers)
  \/ \E id \in CookieIds : DeleteCookie(id)
  \/ ClearCookies \/ ListCookies
  \/ JarRestart \/ JarTick \/ ServiceChanges

JarSpec == JarInit /\ [][JarNext]_jarVars

-----------------------------------------------------------------------------
(* Properties *)

\* Every variable has its type.
JarTypeOK ==
  /\ jar \in Jar
  /\ service \in {"open", "locked", "gone"}
  /\ now \in 0..MaxTime
  /\ last \in [by : {"silent", "command"}, ok : BOOLEAN, session : BOOLEAN]

\* cookie_value: memory first, then the stores.
CookieValue(row) ==
  IF jar.memory[row.id] # Nil THEN jar.memory[row.id]
  ELSE IF row.ref = Nil THEN Nil
  ELSE IF service = "open" /\ jar.native[row.ref] # Nil THEN jar.native[row.ref]
  ELSE jar.session[row.ref]

\* A cookie that is sent has the value that was last stored for it, however it
\* changed between session and persistent, and whatever failed on the way.
ValuesAreCurrent ==
  \A s \in Live(jar) : CookieValue(jar.rows[s]) \in {Nil, jar.latest[s]}

\* While a row refers to a secret nothing takes the secret away, except the end
\* of a session that could not reach the secret service.
ReferredSecretsStay ==
  [][\A s \in Live(jar) :
       LET row == jar.rows[s] IN
         jar'.rows[s] # Nil /\ jar'.rows[s].ref = row.ref /\ row.ref # Nil =>
           /\ jar'.native[row.ref] = jar.native[row.ref]
           /\ last' # Silent => jar'.session[row.ref] = jar.session[row.ref]]_jarVars

\* A command that succeeds while the secret service is open leaves no secret
\* behind that no cookie refers to, unless it stored a session cookie.
SuccessLeavesNoOrphans ==
  [][service = "open" /\ last'.ok /\ ~last'.session =>
       Stored(jar') \ Referred(jar') \subseteq Stored(jar) \ Referred(jar)]_jarVars

\* CONTEXT.md: a session cookie is kept until the program ends.  A response
\* that sets one, and sets no other at its scope later, leaves it in the jar.
SessionCookiesAreKept ==
  [][\A n \in 1..MaxHeaders : \A headers \in [1..n -> Headers] : Capture(headers) =>
       \A i \in 1..n :
         headers[i] # Malformed /\ headers[i].expires = Nil
         /\ (\A k \in i + 1..n : headers[k] # Malformed => headers[k].scope # headers[i].scope)
           => jar'.rows[headers[i].scope] # Nil]_jarVars

\* What the cookies promise: current values, secrets that stay while a row refers
\* to them and go when none does.
CookiesCorrect ==
  /\ [](JarTypeOK /\ ValuesAreCurrent)
  /\ ReferredSecretsStay
  /\ SuccessLeavesNoOrphans

=============================================================================
