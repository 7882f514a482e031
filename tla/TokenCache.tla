----------------------------- MODULE TokenCache -----------------------------
(***************************************************************************)
(* The cache of client-credentials tokens:                                 *)
(* OAuthCoordinator::client_credentials_access_token in                    *)
(* src-tauri/src/application/oauth.rs, called by the task of an execution. *)
(*                                                                         *)
(* The record of a key names secrets; the refresh lock of the key is held  *)
(* from the second look at the record until the new one is stored.  A step *)
(* is what happens between two awaits.                                     *)
(***************************************************************************)
EXTENDS Integers, Sequences, FiniteSets

CONSTANTS
  Callers,     \* executions that need a token
  Keys,        \* workspace, environment and configuration
  KeyOf,       \* key of each caller
  Skew,        \* TOKEN_REFRESH_SKEW_SECONDS
  Lifetimes,   \* what servers answer as expires_in
  Latency,     \* the longest an answer of a server takes; the code does not limit it
  MaxTime,     \* bound: the clock
  MaxTokens,   \* bound: tokens a server issues
  NoRecord

ASSUME KeyOfAssumption == KeyOf \in [Callers -> Keys]
ASSUME TimesAssumption ==
  {Skew, Latency, MaxTime, MaxTokens} \subseteq Nat /\ Lifetimes \subseteq Nat \ {0}

VARIABLES
  step,     \* how far each caller has come
  line,     \* refresh lock of each key: who holds it, and who waits for it
  records,  \* OAuthTokenState::records
  request,  \* what each caller has sent, and what was answered
  given,    \* the token each caller was given
  native,   \* tokens in the secret service; others are in the session store
  locked,   \* the secret service cannot be read
  clock,
  issued,   \* the servers: when each token expires, in the order of issue
  spent,    \* the servers: refresh tokens that were replaced
  dropped   \* history: keys of which an answer was lost

serverVars == <<issued, spent, dropped>>
storeVars == <<native, locked>>
tokenVars == <<step, line, records, request, given, storeVars, clock, serverVars>>

Tokens == 1..MaxTokens
TokenRecord == [access : Tokens, refresh : Tokens \union {NoRecord},
                expires : Nat, generation : Nat]

\* What was sent, and the answer.
Request == [refresh : Tokens \union {NoRecord}, generation : Nat, sent : Nat,
            lifetime : Nat, access : Tokens \union {NoRecord}, next : Tokens \union {NoRecord}]

\* Neither a token nor a record: the None of an Option.
ASSUME NoRecordAssumption == NoRecord \notin Nat \union TokenRecord

TokensInit ==
  /\ step = [c \in Callers |-> "new"]
  /\ line = [k \in Keys |-> <<>>]
  /\ records = [k \in Keys |-> NoRecord]
  /\ request = [c \in Callers |-> NoRecord]
  /\ given = [c \in Callers |-> NoRecord]
  /\ native = {} /\ locked = FALSE /\ clock = 0
  /\ issued = <<>> /\ spent = {} /\ dropped = {}

Readable(token) == ~locked \/ token \notin native

\* Mutant: a token is used to its last second.
FreshToTheEnd(k) ==
  /\ records[k] # NoRecord
  /\ records[k].expires > clock
  /\ Readable(records[k].access)

\* read_fresh_access_token finds something.
Fresh(k) ==
  /\ records[k] # NoRecord
  /\ records[k].expires > clock + Skew
  /\ Readable(records[k].access)

\* A caller returns; its guard drops the refresh lock if it has it.
Return(c, how, token) ==
  LET k == KeyOf[c] IN
    /\ step' = [step EXCEPT ![c] = how]
    /\ given' = [given EXCEPT ![c] = token]
    /\ request' = [request EXCEPT ![c] = NoRecord]
    /\ line' = IF line[k] # <<>> /\ Head(line[k]) = c
               THEN [line EXCEPT ![k] = Tail(@)] ELSE line

-----------------------------------------------------------------------------
\* The first look at the record, without the refresh lock.
FirstLook(c) ==
  /\ step[c] = "new"
  /\ IF Fresh(KeyOf[c]) THEN Return(c, "served", records[KeyOf[c]].access)
     ELSE /\ step' = [step EXCEPT ![c] = "missed"]
          /\ UNCHANGED <<line, given, request>>
  /\ UNCHANGED <<records, storeVars, clock, serverVars>>

\* The refresh lock is fair: callers get it in the order in which they ask.
AskForLock(c) ==
  /\ step[c] = "missed"
  /\ step' = [step EXCEPT ![c] = "waiting"]
  /\ line' = [line EXCEPT ![KeyOf[c]] = Append(@, c)]
  /\ UNCHANGED <<records, request, given, storeVars, clock, serverVars>>

MayLookAgain(c) == step[c] = "waiting" /\ Head(line[KeyOf[c]]) = c

\* The second look, with the lock.
SecondLook(c) ==
  /\ MayLookAgain(c)
  /\ IF Fresh(KeyOf[c]) THEN Return(c, "served", records[KeyOf[c]].access)
     ELSE /\ step' = [step EXCEPT ![c] = "stale"]
          /\ UNCHANGED <<line, given, request>>
  /\ UNCHANGED <<records, storeVars, clock, serverVars>>

\* The request to the server: a refresh if the record has a refresh token that
\* can be read, the configuration's credentials if it has none.
Send(c) ==
  LET previous == records[KeyOf[c]]
      refresh == IF previous = NoRecord THEN NoRecord ELSE previous.refresh
      generation == IF previous = NoRecord THEN 0 ELSE previous.generation
  IN  /\ step[c] = "stale"
      /\ IF refresh # NoRecord /\ ~Readable(refresh) THEN Return(c, "failed", NoRecord)
         ELSE /\ step' = [step EXCEPT ![c] = "asking"]
              /\ request' = [request EXCEPT ![c] =
                   [refresh |-> refresh, generation |-> generation, sent |-> clock,
                    lifetime |-> 0, access |-> NoRecord, next |-> NoRecord]]
              /\ UNCHANGED <<line, given>>
      /\ UNCHANGED <<records, storeVars, clock, serverVars>>

\* The server answers with an access token and perhaps a refresh token in the
\* place of the one that was sent.
Answer(c, lifetime, rotates) ==
  LET access == Len(issued) + 1
      next == IF rotates THEN Len(issued) + 2 ELSE NoRecord
      tokens == IF rotates THEN 2 ELSE 1
  IN  /\ step[c] = "asking"
      /\ request[c].refresh \notin spent
      /\ Len(issued) + tokens <= MaxTokens
      /\ issued' = issued \o [n \in 1..tokens |-> clock + lifetime]
      /\ spent' = IF rotates THEN spent \union ({request[c].refresh} \ {NoRecord}) ELSE spent
      /\ step' = [step EXCEPT ![c] = "answered"]
      /\ request' = [request EXCEPT ![c].lifetime = lifetime, ![c].access = access,
                                    ![c].next = next]
      /\ UNCHANGED <<line, records, given, storeVars, clock, dropped>>

\* The server refuses, or the request does not reach it.
Refuse(c) ==
  /\ step[c] = "asking"
  /\ Return(c, "failed", NoRecord)
  /\ UNCHANGED <<records, storeVars, clock, serverVars>>

\* store_token_response.  The life of the token is counted from its arrival.
Store(c) ==
  LET k == KeyOf[c]
      answer == request[c]
      put == {answer.access, answer.next} \ {NoRecord}
      newer == records[k] # NoRecord /\ records[k].generation > answer.generation
      record == [access |-> answer.access, refresh |-> answer.next,
                 expires |-> clock + answer.lifetime,
                 generation |-> answer.generation + 1]
  IN  /\ step[c] = "answered"
      /\ native' = IF locked THEN native ELSE native \union put
      /\ IF ~newer
         THEN records' = [records EXCEPT ![k] = record] /\ Return(c, "stored", answer.access)
         ELSE /\ IF Readable(records[k].access) THEN Return(c, "served", records[k].access)
                 ELSE Return(c, "failed", NoRecord)
              /\ UNCHANGED records
      /\ UNCHANGED <<locked, clock, serverVars>>

\* The answer does not arrive whole, is of another token type, or one of its
\* secrets cannot be stored.
Drop(c) ==
  /\ step[c] = "answered"
  /\ Return(c, "failed", NoRecord)
  /\ dropped' = dropped \union {KeyOf[c]}
  /\ UNCHANGED <<records, storeVars, clock, issued, spent>>

\* No answer takes longer than Latency.
TokensTick ==
  /\ clock < MaxTime
  /\ \A c \in Callers : step[c] \in {"asking", "answered"} => clock < request[c].sent + Latency
  /\ clock' = clock + 1
  /\ UNCHANGED <<step, line, records, request, given, storeVars, serverVars>>

\* The user locks or unlocks the key ring.
LockChanges ==
  /\ locked' = ~locked
  /\ UNCHANGED <<step, line, records, request, given, native, clock, serverVars>>

CallerStep(c) ==
  \/ FirstLook(c) \/ AskForLock(c) \/ SecondLook(c) \/ Send(c) \/ Store(c)

ServerStep(c) ==
  \/ \E lifetime \in Lifetimes, rotates \in BOOLEAN : Answer(c, lifetime, rotates)
  \/ Refuse(c) \/ Drop(c)

TokensNext ==
  \/ \E c \in Callers : CallerStep(c) \/ ServerStep(c)
  \/ TokensTick \/ LockChanges

TokensSpec == TokensInit /\ [][TokensNext]_tokenVars

-----------------------------------------------------------------------------
(* Properties *)

Steps == {"new", "missed", "waiting", "stale", "asking", "answered", "served", "stored",
          "failed"}

\* Every variable has its type.
TokensTypeOK ==
  /\ step \in [Callers -> Steps]
  /\ line \in [Keys -> Seq(Callers)]
  /\ records \in [Keys -> TokenRecord \union {NoRecord}]
  /\ request \in [Callers -> Request \union {NoRecord}]
  /\ given \in [Callers -> Tokens \union {NoRecord}]
  /\ native \subseteq Tokens
  /\ locked \in BOOLEAN
  /\ clock \in Nat
  /\ issued \in Seq(Nat)
  /\ spent \subseteq Tokens
  /\ dropped \subseteq Keys

\* At most one request for a key is under way, and the record that it was
\* derived from is still the one in the map: the generation check of
\* store_token_response never finds anything newer.
OneRequestPerKey ==
  \A c \in Callers : step[c] \in {"asking", "answered"} =>
    LET k == KeyOf[c] IN
      /\ \A d \in Callers \ {c} : KeyOf[d] = k => step[d] \notin {"stale", "asking", "answered"}
      /\ request[c].generation = IF records[k] = NoRecord THEN 0 ELSE records[k].generation

\* A token from the cache has not expired at its server, although the cache
\* counts its life from the arrival of the answer: the skew covers the latency.
CachedTokensAreAlive ==
  [][\A c \in Callers :
       step'[c] = "served" /\ step[c] # "served" => issued[given'[c]] > clock]_tokenVars

\* While no answer was lost or could not be stored, no refresh token is sent
\* after the server has replaced it.
ReplacedTokensStayUnused ==
  \A c \in Callers :
    step[c] = "asking" /\ KeyOf[c] \notin dropped => request[c].refresh \notin spent

\* What the cache of tokens promises: one request for a key at a time, no token
\* that is about to expire, and no replaced token used again.
TokensCorrect ==
  /\ [](TokensTypeOK /\ OneRequestPerKey /\ ReplacedTokensStayUnused)
  /\ CachedTokensAreAlive

=============================================================================
