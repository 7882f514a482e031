----------------------------- MODULE OAuth_proofs -----------------------------
(***************************************************************************)
(* Proofs about OAuth: authorization in the browser, for any number of     *)
(* calls and flows and whatever browsers bring, and the cache of           *)
(* client-credentials tokens, for any callers, keys and times.             *)
(*                                                                         *)
(* About the cache two arguments meet.  The refresh lock serialises the    *)
(* requests of a key, so what an answer replaces is what the request was   *)
(* derived from.  And a refresh token belongs to one key only, so the      *)
(* server can replace it in answer to that key's requests only: a replaced *)
(* token is in the map just while the answer that replaced it is on its    *)
(* way, or after that answer was lost.                                     *)
(***************************************************************************)
EXTENDS OAuthFlow, TokenCache, TLAPS

-----------------------------------------------------------------------------
(* The cache: the invariant *)

Holding == {"stale", "asking", "answered"}
Pending == {"asking", "answered"}
Ended == {"served", "stored", "failed"}
IssuedTokens == 1..Len(issued)

\* What the next request of a key is derived from.
RefreshOf(k) == IF records[k] = NoRecord THEN NoRecord ELSE records[k].refresh
GenerationOf(k) == IF records[k] = NoRecord THEN 0 ELSE records[k].generation

\* Whoever may work on a key is first in its line, and whoever waits is in it.
HasLock(c) == step[c] \in Holding => line[KeyOf[c]] # <<>> /\ Head(line[KeyOf[c]]) = c
IsInLine(c) ==
  step[c] = "waiting" =>
    \E i \in 1..Len(line[KeyOf[c]]) : line[KeyOf[c]][i] = c

\* A request under way is derived from the record of its key, and not too old.
Derived(c) ==
  step[c] \in Pending =>
    /\ request[c] \in Request
    /\ request[c].refresh = RefreshOf(KeyOf[c])
    /\ request[c].generation = GenerationOf(KeyOf[c])
    /\ request[c].sent <= clock
    /\ clock <= request[c].sent + Latency

\* What has been answered was issued after the request was sent, and has not
\* been replaced yet.
Answered(c) ==
  step[c] = "answered" =>
    /\ request[c].access \in IssuedTokens
    /\ issued[request[c].access] >= request[c].sent + request[c].lifetime
    /\ request[c].next \in IssuedTokens \union {NoRecord}
    /\ request[c].next \notin spent

\* The record of a key: its token lives as long as the record says, but for the
\* latency of the answer.
Recorded(k) ==
  records[k] # NoRecord =>
    /\ records[k].access \in IssuedTokens
    /\ records[k].expires <= issued[records[k].access] + Latency
    /\ records[k].refresh \in IssuedTokens \union {NoRecord}

AnswerOnItsWay(k) == \E c \in Callers : KeyOf[c] = k /\ step[c] = "answered"

\* A refresh token that was replaced is in the map only until the answer is stored.
Replaced(k) == RefreshOf(k) \in spent => k \in dropped \/ AnswerOnItsWay(k)

\* The refresh tokens of a key: the one in the map and those on their way.
Belongs(t, k) ==
  \/ RefreshOf(k) = t
  \/ \E c \in Callers : KeyOf[c] = k /\ step[c] = "answered" /\ request[c].next = t
OfOneKey(t) == \A k, l \in Keys : Belongs(t, k) /\ Belongs(t, l) => k = l

TokensInv ==
  /\ TokensTypeOK
  /\ Len(issued) <= MaxTokens /\ spent \subseteq IssuedTokens
  /\ \A c \in Callers : HasLock(c) /\ IsInLine(c) /\ Derived(c) /\ Answered(c)
  /\ \A k \in Keys : Recorded(k) /\ Replaced(k)
  /\ \A t \in Tokens : OfOneKey(t)

-----------------------------------------------------------------------------
(* The parts of a state *)

\* The types of what a caller and a key have.
LEMMA TokenTypes ==
  ASSUME TokensTypeOK
  PROVE  /\ \A c \in Callers : KeyOf[c] \in Keys /\ step[c] \in Steps
         /\ \A k \in Keys : /\ line[k] \in Seq(Callers)
                            /\ records[k] = NoRecord \/ records[k] \in TokenRecord
                            /\ RefreshOf(k) \in Tokens \union {NoRecord}
                            /\ GenerationOf(k) \in Nat
         /\ Skew \in Nat /\ Latency \in Nat /\ MaxTime \in Nat /\ MaxTokens \in Nat
         /\ Len(issued) \in Nat /\ clock \in Nat
         /\ NoRecord \notin Nat /\ NoRecord \notin TokenRecord /\ NoRecord \notin Tokens
  <1>1. /\ Skew \in Nat /\ Latency \in Nat /\ MaxTime \in Nat /\ MaxTokens \in Nat
        /\ NoRecord \notin Nat /\ NoRecord \notin TokenRecord
    BY TimesAssumption, NoRecordAssumption
  <1>2. NoRecord \notin Tokens
    BY <1>1 DEF Tokens
  <1>3. \A c \in Callers : KeyOf[c] \in Keys /\ step[c] \in Steps
    BY KeyOfAssumption DEF TokensTypeOK
  <1>4. \A k \in Keys : line[k] \in Seq(Callers) /\ records[k] \in TokenRecord \union {NoRecord}
    BY DEF TokensTypeOK
  <1>5. \A k \in Keys : RefreshOf(k) \in Tokens \union {NoRecord} /\ GenerationOf(k) \in Nat
    BY <1>4 DEF RefreshOf, GenerationOf, TokenRecord
  <1>6. Len(issued) \in Nat /\ clock \in Nat
    BY DEF TokensTypeOK
  <1> QED
    BY <1>1, <1>2, <1>3, <1>4, <1>5, <1>6

\* Of the callers of a key one at a time has the lock.
LEMMA OneHolder ==
  ASSUME TokensInv, NEW c \in Callers, NEW d \in Callers, KeyOf[c] = KeyOf[d],
         step[c] \in Holding, step[d] \in Holding
  PROVE  c = d
  BY DEF TokensInv, HasLock

\* What a returning caller leaves: the others keep their places in the line, and
\* the head of a line changes only if the caller was the head.
LEMMA Returning ==
  ASSUME TokensInv, NEW c \in Callers, NEW how \in Ended, NEW token \in Tokens \union {NoRecord},
         Return(c, how, token)
  PROVE  /\ step' \in [Callers -> Steps] /\ step'[c] = how
         /\ given' \in [Callers -> Tokens \union {NoRecord}] /\ given'[c] = token
         /\ request' \in [Callers -> Request \union {NoRecord}]
         /\ \A d \in Callers \ {c} : /\ step'[d] = step[d] /\ given'[d] = given[d]
                                    /\ request'[d] = request[d]
         /\ line' \in [Keys -> Seq(Callers)]
         /\ \A d \in Callers : HasLock(d)' /\ IsInLine(d)'
  <1>1. /\ step' \in [Callers -> Steps] /\ step'[c] = how
        /\ given' \in [Callers -> Tokens \union {NoRecord}] /\ given'[c] = token
        /\ request' \in [Callers -> Request \union {NoRecord}]
        /\ \A d \in Callers \ {c} : /\ step'[d] = step[d] /\ given'[d] = given[d]
                                   /\ request'[d] = request[d]
    BY DEF TokensInv, TokensTypeOK, Ended, Steps, Return
  <1>2. KeyOf[c] \in Keys /\ \A d \in Callers : KeyOf[d] \in Keys
    BY KeyOfAssumption
  <1>3. CASE line' = line
    <2>1. ASSUME NEW d \in Callers \ {c} PROVE HasLock(d)' /\ IsInLine(d)'
      <3>1. HasLock(d) /\ IsInLine(d) /\ step'[d] = step[d]
        BY <1>1 DEF TokensInv
      <3> QED
        BY <1>3, <3>1 DEF HasLock, IsInLine
    <2>2. HasLock(c)' /\ IsInLine(c)'
      BY <1>1 DEF HasLock, IsInLine, Ended, Holding
    <2> QED
      BY <1>1, <1>3, <2>1, <2>2 DEF TokensInv, TokensTypeOK
  <1>4. CASE /\ line[KeyOf[c]] # <<>> /\ Head(line[KeyOf[c]]) = c
             /\ line' = [line EXCEPT ![KeyOf[c]] = Tail(line[KeyOf[c]])]
    <2> DEFINE k == KeyOf[c]
               queue == line[k]
    <2>1. queue \in Seq(Callers) /\ queue # <<>> /\ Head(queue) = c
      BY <1>2, <1>4 DEF TokensInv, TokensTypeOK
    <2>2. /\ line' \in [Keys -> Seq(Callers)] /\ line'[k] = Tail(queue)
          /\ \A l \in Keys \ {k} : line'[l] = line[l]
      BY <1>2, <1>4, <2>1 DEF TokensInv, TokensTypeOK
    <2>3. /\ Len(Tail(queue)) = Len(queue) - 1 /\ Len(queue) \in Nat \ {0}
          /\ \A i \in 1..(Len(queue) - 1) : Tail(queue)[i] = queue[i + 1]
          /\ Head(queue) = queue[1]
      BY <2>1
    <2>4. HasLock(c)' /\ IsInLine(c)'
      BY <1>1 DEF HasLock, IsInLine, Ended, Holding
    <2>5. ASSUME NEW d \in Callers \ {c} PROVE HasLock(d)' /\ IsInLine(d)'
      <3>1. CASE KeyOf[d] # k
        BY <1>1, <1>2, <2>2, <3>1 DEF TokensInv, HasLock, IsInLine
      <3>2. CASE KeyOf[d] = k
        <4>1. step[d] \notin Holding
          BY <2>1, <3>2 DEF TokensInv, HasLock
        <4>2. HasLock(d)'
          BY <1>1, <4>1 DEF HasLock
        <4>3. ASSUME step[d] = "waiting"
              PROVE  \E i \in 1..Len(line'[k]) : line'[k][i] = d
          <5>1. PICK i \in 1..Len(queue) : queue[i] = d
            BY <3>2, <4>3 DEF TokensInv, IsInLine
          <5>2. i # 1
            BY <2>1, <2>3, <5>1
          <5>3. i - 1 \in 1..(Len(queue) - 1) /\ Tail(queue)[i - 1] = queue[(i - 1) + 1]
            BY <2>3, <5>2
          <5>4. Tail(queue)[i - 1] = d
            BY <5>1, <5>3
          <5> QED
            BY <2>2, <2>3, <5>3, <5>4
        <4> QED
          BY <1>1, <3>2, <4>2, <4>3 DEF IsInLine
      <3> QED
        BY <3>1, <3>2
    <2> QED
      BY <1>1, <2>2, <2>4, <2>5
  <1> QED
    BY <1>3, <1>4 DEF Return

-----------------------------------------------------------------------------
(* Steps that store nothing and answer nothing *)

\* Nothing that is read of the map and the servers has changed.
LEMMA SameRecords ==
  ASSUME UNCHANGED <<records, issued, spent, dropped>>
  PROVE  \A k : /\ Recorded(k)' = Recorded(k)
                /\ RefreshOf(k)' = RefreshOf(k) /\ GenerationOf(k)' = GenerationOf(k)
  BY DEF Recorded, RefreshOf, GenerationOf, IssuedTokens

\* A caller moves without sending or losing a request.
LEMMA CallerMoves ==
  ASSUME TokensInv, NEW c \in Callers, step[c] \notin Pending, step'[c] \notin Pending,
         \A d \in Callers \ {c} : step'[d] = step[d] /\ request'[d] = request[d],
         UNCHANGED <<records, clock, issued, spent, dropped>>
  PROVE  /\ \A d \in Callers : Derived(d)' /\ Answered(d)'
         /\ \A k \in Keys : Recorded(k)' /\ Replaced(k)'
         /\ \A t \in Tokens : OfOneKey(t)'
  <1>1. \A d \in Callers : /\ (step'[d] \in Pending <=> step[d] \in Pending)
                          /\ (step'[d] = "answered" <=> step[d] = "answered")
                          /\ step[d] \in Pending => request'[d] = request[d]
    BY DEF Pending
  <1>2. \A k : /\ AnswerOnItsWay(k)' <=> AnswerOnItsWay(k)
               /\ \A t : Belongs(t, k)' <=> Belongs(t, k)
    BY <1>1, SameRecords DEF AnswerOnItsWay, Belongs, Pending
  <1>3. ASSUME NEW d \in Callers PROVE Derived(d)' /\ Answered(d)'
    <2>1. Derived(d) /\ Answered(d)
      BY DEF TokensInv
    <2>2. RefreshOf(KeyOf[d])' = RefreshOf(KeyOf[d]) /\ GenerationOf(KeyOf[d])' = GenerationOf(KeyOf[d])
      BY SameRecords
    <2>3. Derived(d)'
      BY <1>1, <2>1, <2>2 DEF Derived
    <2>4. Answered(d)'
      BY <1>1, <2>1 DEF Answered, IssuedTokens, Pending
    <2> QED
      BY <2>3, <2>4
  <1>4. \A k \in Keys : Recorded(k)' /\ Replaced(k)'
    BY <1>2, SameRecords DEF TokensInv, Replaced
  <1>5. \A t \in Tokens : OfOneKey(t)'
    BY <1>2 DEF TokensInv, OfOneKey
  <1> QED
    BY <1>3, <1>4, <1>5

\* A caller returns that no answer is on its way to.
LEMMA ReturnsUnanswered ==
  ASSUME TokensInv, NEW c \in Callers, step[c] # "answered",
         NEW how \in Ended, NEW token \in Tokens \union {NoRecord}, Return(c, how, token),
         UNCHANGED <<records, storeVars, clock, serverVars>>
  PROVE  TokensInv'
  <1>same. UNCHANGED <<records, clock, issued, spent, dropped>>
    BY DEF storeVars, serverVars
  <1>stores. UNCHANGED native /\ UNCHANGED locked
    BY DEF storeVars
  <1>1. /\ step' \in [Callers -> Steps] /\ step'[c] = how
        /\ given' \in [Callers -> Tokens \union {NoRecord}]
        /\ request' \in [Callers -> Request \union {NoRecord}]
        /\ \A d \in Callers \ {c} : step'[d] = step[d] /\ request'[d] = request[d]
        /\ line' \in [Keys -> Seq(Callers)]
        /\ \A d \in Callers : HasLock(d)' /\ IsInLine(d)'
    BY Returning
  <1>2. how \notin Pending
    BY DEF Ended, Pending
  <1>3. TokensTypeOK' /\ Len(issued') <= MaxTokens /\ spent' \subseteq IssuedTokens'
    BY <1>same, <1>stores, <1>1 DEF TokensInv, TokensTypeOK, IssuedTokens
  <1>4. \A d \in Callers :
          /\ (step'[d] = "answered" <=> step[d] = "answered")
          /\ step'[d] \in Pending => step[d] = step'[d] /\ request'[d] = request[d]
    BY <1>1, <1>2 DEF Pending
  <1>5. \A k : /\ AnswerOnItsWay(k)' <=> AnswerOnItsWay(k)
               /\ \A t : Belongs(t, k)' <=> Belongs(t, k)
    BY <1>4, SameRecords, <1>same DEF AnswerOnItsWay, Belongs, Pending
  <1>6. ASSUME NEW d \in Callers PROVE Derived(d)' /\ Answered(d)'
    <2>1. Derived(d) /\ Answered(d)
      BY DEF TokensInv
    <2>2. RefreshOf(KeyOf[d])' = RefreshOf(KeyOf[d]) /\ GenerationOf(KeyOf[d])' = GenerationOf(KeyOf[d])
      BY SameRecords, <1>same
    <2>3. Derived(d)'
      BY <1>same, <1>4, <2>1, <2>2 DEF Derived
    <2>4. Answered(d)'
      BY <1>same, <1>4, <2>1 DEF Answered, IssuedTokens, Pending
    <2> QED
      BY <2>3, <2>4
  <1>7. \A k \in Keys : Recorded(k)' /\ Replaced(k)'
    BY <1>5, SameRecords, <1>same DEF TokensInv, Replaced
  <1>8. \A t \in Tokens : OfOneKey(t)'
    BY <1>5 DEF TokensInv, OfOneKey
  <1> QED
    BY <1>1, <1>3, <1>6, <1>7, <1>8 DEF TokensInv

\* A fresh record has a token.
LEMMA FreshHasToken ==
  ASSUME TokensInv, NEW k \in Keys, Fresh(k)
  PROVE  /\ records[k] \in TokenRecord /\ records[k].access \in Tokens
         /\ records[k].access \in IssuedTokens
  BY DEF TokensInv, TokensTypeOK, Recorded, Fresh, TokenRecord

\* The looks at the record.
LEMMA FirstLookStep ==
  ASSUME TokensInv, NEW c \in Callers, FirstLook(c)
  PROVE  TokensInv'
  <1>1. step[c] = "new" /\ KeyOf[c] \in Keys
        /\ UNCHANGED <<records, storeVars, clock, serverVars>>
    BY KeyOfAssumption DEF FirstLook
  <1>2. CASE Fresh(KeyOf[c])
    <2>1. records[KeyOf[c]].access \in Tokens \union {NoRecord} /\ "served" \in Ended
      BY <1>1, <1>2, FreshHasToken DEF Ended
    <2>2. Return(c, "served", records[KeyOf[c]].access)
      BY <1>2 DEF FirstLook
    <2> QED
      BY <1>1, <2>1, <2>2, ReturnsUnanswered
  <1>3. CASE step' = [step EXCEPT ![c] = "missed"] /\ UNCHANGED <<line, given, request>>
    <2>1. /\ step' \in [Callers -> Steps] /\ step'[c] = "missed"
          /\ \A d \in Callers \ {c} : step'[d] = step[d]
      BY <1>3 DEF TokensInv, TokensTypeOK, Steps
    <2>2. TokensTypeOK' /\ Len(issued') <= MaxTokens /\ spent' \subseteq IssuedTokens'
      BY <1>1, <1>3, <2>1 DEF TokensInv, TokensTypeOK, IssuedTokens, storeVars, serverVars
    <2>3. ASSUME NEW d \in Callers PROVE HasLock(d)' /\ IsInLine(d)'
      BY <1>3, <2>1 DEF TokensInv, HasLock, IsInLine, Holding
    <2>4. /\ \A d \in Callers : Derived(d)' /\ Answered(d)'
          /\ \A k \in Keys : Recorded(k)' /\ Replaced(k)'
          /\ \A t \in Tokens : OfOneKey(t)'
      BY <1>1, <1>3, <2>1, CallerMoves DEF Pending, serverVars
    <2> QED
      BY <2>2, <2>3, <2>4 DEF TokensInv
  <1> QED
    BY <1>2, <1>3 DEF FirstLook

\* Whoever asks for the lock comes last in the line.
LEMMA AskForLockStep ==
  ASSUME TokensInv, NEW c \in Callers, AskForLock(c)
  PROVE  TokensInv'
  <1> DEFINE k == KeyOf[c]
  <1>1. step[c] = "missed" /\ k \in Keys
        /\ UNCHANGED <<records, request, given, storeVars, clock, serverVars>>
    BY KeyOfAssumption DEF AskForLock
  <1>2. /\ step' \in [Callers -> Steps] /\ step'[c] = "waiting"
        /\ \A d \in Callers \ {c} : step'[d] = step[d]
    BY DEF TokensInv, TokensTypeOK, Steps, AskForLock
  <1>3. line[k] \in Seq(Callers)
    BY <1>1 DEF TokensInv, TokensTypeOK
  <1>4. /\ line' \in [Keys -> Seq(Callers)] /\ line'[k] = Append(line[k], c)
        /\ \A l \in Keys \ {k} : line'[l] = line[l]
    BY <1>1, <1>3 DEF TokensInv, TokensTypeOK, AskForLock
  <1>5. /\ Len(line'[k]) = Len(line[k]) + 1 /\ Len(line[k]) \in Nat
        /\ line'[k][Len(line[k]) + 1] = c
        /\ \A i \in 1..Len(line[k]) : line'[k][i] = line[k][i]
        /\ line[k] # <<>> => line'[k] # <<>> /\ Head(line'[k]) = Head(line[k])
    BY <1>3, <1>4
  <1>6. TokensTypeOK' /\ Len(issued') <= MaxTokens /\ spent' \subseteq IssuedTokens'
    BY <1>1, <1>2, <1>4 DEF TokensInv, TokensTypeOK, IssuedTokens, storeVars, serverVars
  <1> HIDE DEF k
  <1>7. ASSUME NEW d \in Callers PROVE HasLock(d)' /\ IsInLine(d)'
    <2>1. KeyOf[d] \in Keys /\ HasLock(d) /\ IsInLine(d)
      BY KeyOfAssumption DEF TokensInv
    <2>2. CASE d = c
      <3>1. KeyOf[d] = k /\ step'[d] = "waiting"
        BY <1>2, <2>2 DEF k
      <3>2. Len(line[k]) + 1 \in 1..Len(line'[k]) /\ line'[k][Len(line[k]) + 1] = d
        BY <1>5, <2>2
      <3> QED
        BY <3>1, <3>2 DEF HasLock, IsInLine, Holding
    <2>3. CASE d # c
      <3>1. step'[d] = step[d]
        BY <1>2, <2>3
      <3>2. HasLock(d)'
        BY <1>4, <1>5, <2>1, <3>1 DEF HasLock
      <3>3. ASSUME step[d] = "waiting", NEW i \in 1..Len(line[KeyOf[d]]), line[KeyOf[d]][i] = d
            PROVE  \E j \in 1..Len(line'[KeyOf[d]]) : line'[KeyOf[d]][j] = d
        <4>1. CASE KeyOf[d] = k
          <5>1. i \in 1..Len(line'[k]) /\ line'[k][i] = d
            BY <1>5, <3>3, <4>1
          <5> QED
            BY <4>1, <5>1
        <4>2. CASE KeyOf[d] # k
          BY <1>4, <2>1, <3>3, <4>2
        <4> QED
          BY <4>1, <4>2
      <3> QED
        BY <2>1, <3>1, <3>2, <3>3 DEF IsInLine
    <2> QED
      BY <2>2, <2>3
  <1>8. /\ \A d \in Callers : Derived(d)' /\ Answered(d)'
        /\ \A l \in Keys : Recorded(l)' /\ Replaced(l)'
        /\ \A t \in Tokens : OfOneKey(t)'
    BY <1>1, <1>2, CallerMoves DEF Pending, serverVars
  <1> QED
    BY <1>6, <1>7, <1>8 DEF TokensInv

\* The first in the line looks again.
LEMMA SecondLookStep ==
  ASSUME TokensInv, NEW c \in Callers, SecondLook(c)
  PROVE  TokensInv'
  <1>1. /\ step[c] = "waiting" /\ Head(line[KeyOf[c]]) = c /\ KeyOf[c] \in Keys
        /\ UNCHANGED <<records, storeVars, clock, serverVars>>
    BY KeyOfAssumption DEF SecondLook, MayLookAgain
  <1>2. CASE Fresh(KeyOf[c])
    <2>1. records[KeyOf[c]].access \in Tokens \union {NoRecord} /\ "served" \in Ended
      BY <1>1, <1>2, FreshHasToken DEF Ended
    <2>2. Return(c, "served", records[KeyOf[c]].access)
      BY <1>2 DEF SecondLook
    <2> QED
      BY <1>1, <2>1, <2>2, ReturnsUnanswered
  <1>3. CASE step' = [step EXCEPT ![c] = "stale"] /\ UNCHANGED <<line, given, request>>
    <2>1. /\ step' \in [Callers -> Steps] /\ step'[c] = "stale"
          /\ \A d \in Callers \ {c} : step'[d] = step[d]
      BY <1>3 DEF TokensInv, TokensTypeOK, Steps
    <2>2. TokensTypeOK' /\ Len(issued') <= MaxTokens /\ spent' \subseteq IssuedTokens'
      BY <1>1, <1>3, <2>1 DEF TokensInv, TokensTypeOK, IssuedTokens, storeVars, serverVars
    <2>3. line[KeyOf[c]] # <<>>
      BY <1>1 DEF TokensInv, TokensTypeOK, IsInLine
    <2>4. ASSUME NEW d \in Callers PROVE HasLock(d)' /\ IsInLine(d)'
      BY <1>1, <1>3, <2>1, <2>3 DEF TokensInv, HasLock, IsInLine, Holding
    <2>5. /\ \A d \in Callers : Derived(d)' /\ Answered(d)'
          /\ \A k \in Keys : Recorded(k)' /\ Replaced(k)'
          /\ \A t \in Tokens : OfOneKey(t)'
      BY <1>1, <1>3, <2>1, CallerMoves DEF Pending, serverVars
    <2> QED
      BY <2>2, <2>4, <2>5 DEF TokensInv
  <1> QED
    BY <1>2, <1>3 DEF SecondLook

-----------------------------------------------------------------------------
(* Steps of a request *)

\* A request is derived from the record as it is.
LEMMA SendStep ==
  ASSUME TokensInv, NEW c \in Callers, Send(c)
  PROVE  TokensInv'
  <1> DEFINE k == KeyOf[c]
  <1>1. step[c] = "stale" /\ k \in Keys /\ UNCHANGED <<records, storeVars, clock, serverVars>>
    BY KeyOfAssumption DEF Send
  <1>2. CASE Return(c, "failed", NoRecord)
    <2>1. "failed" \in Ended /\ NoRecord \in Tokens \union {NoRecord} /\ step[c] # "answered"
      BY <1>1 DEF Ended
    <2> QED
      BY <1>1, <1>2, <2>1, ReturnsUnanswered
  <1>3. CASE /\ step' = [step EXCEPT ![c] = "asking"]
             /\ request' = [request EXCEPT ![c] =
                  [refresh |-> RefreshOf(k), generation |-> GenerationOf(k), sent |-> clock,
                   lifetime |-> 0, access |-> NoRecord, next |-> NoRecord]]
             /\ UNCHANGED <<line, given>>
    <2> DEFINE sent == [refresh |-> RefreshOf(k), generation |-> GenerationOf(k), sent |-> clock,
                        lifetime |-> 0, access |-> NoRecord, next |-> NoRecord]
    <2>1. UNCHANGED <<records, clock, issued, spent, dropped, native>> /\ UNCHANGED locked
      BY <1>1 DEF storeVars, serverVars
    <2>2. /\ k \in Keys /\ clock \in Nat /\ Latency \in Nat
          /\ RefreshOf(k) \in Tokens \union {NoRecord} /\ GenerationOf(k) \in Nat
      BY <1>1, TokenTypes DEF TokensInv
    <2>3. sent \in Request
      BY <2>2 DEF Request
    <2>4. /\ step' \in [Callers -> Steps] /\ step'[c] = "asking"
          /\ request' \in [Callers -> Request \union {NoRecord}] /\ request'[c] = sent
          /\ \A d \in Callers \ {c} : step'[d] = step[d] /\ request'[d] = request[d]
      BY <1>3, <2>3 DEF TokensInv, TokensTypeOK, Steps
    <2>5. TokensTypeOK' /\ Len(issued') <= MaxTokens /\ spent' \subseteq IssuedTokens'
      BY <1>3, <2>1, <2>4 DEF TokensInv, TokensTypeOK, IssuedTokens
    <2>6. ASSUME NEW d \in Callers PROVE HasLock(d)' /\ IsInLine(d)'
      BY <1>1, <1>3, <2>4 DEF TokensInv, HasLock, IsInLine, Holding
    <2>7. \A d \in Callers :
            /\ (step'[d] = "answered" <=> step[d] = "answered")
            /\ step[d] = "answered" => request'[d] = request[d]
      BY <1>1, <2>4
    <2>8. \A l : /\ AnswerOnItsWay(l)' <=> AnswerOnItsWay(l)
                 /\ \A t : Belongs(t, l)' <=> Belongs(t, l)
      BY <2>1, <2>7, SameRecords DEF AnswerOnItsWay, Belongs
    <2>9. \A l \in Keys : Recorded(l)' /\ Replaced(l)'
      BY <2>1, <2>8, SameRecords DEF TokensInv, Replaced
    <2>10. \A t \in Tokens : OfOneKey(t)'
      BY <2>8 DEF TokensInv, OfOneKey
    <2>11. ASSUME NEW d \in Callers PROVE Answered(d)'
      BY <2>1, <2>7 DEF TokensInv, Answered, IssuedTokens
    <2>12. ASSUME NEW d \in Callers PROVE Derived(d)'
      <3>1. RefreshOf(KeyOf[d])' = RefreshOf(KeyOf[d]) /\ GenerationOf(KeyOf[d])' = GenerationOf(KeyOf[d])
        BY <2>1, SameRecords
      <3>2. CASE d = c
        <4>1. /\ request'[d] \in Request /\ request'[d].refresh = RefreshOf(KeyOf[d])
              /\ request'[d].generation = GenerationOf(KeyOf[d]) /\ request'[d].sent = clock
          BY <2>3, <2>4, <3>2
        <4>2. clock <= clock + Latency /\ clock <= clock
          BY <2>2
        <4> QED
          BY <2>1, <3>1, <4>1, <4>2 DEF Derived
      <3>3. CASE d # c
        <4>1. step'[d] = step[d] /\ request'[d] = request[d] /\ Derived(d)
          BY <2>4, <3>3 DEF TokensInv
        <4> QED
          BY <2>1, <3>1, <4>1 DEF Derived
      <3> QED
        BY <3>2, <3>3
    <2> QED
      BY <2>5, <2>6, <2>9, <2>10, <2>11, <2>12 DEF TokensInv
  <1> QED
    BY <1>1, <1>2, <1>3 DEF Send, RefreshOf, GenerationOf

\* The tokens that a server issues come after the others.
LEMMA Issuing ==
  ASSUME issued \in Seq(Nat), NEW tokens \in {1, 2}, NEW until \in Nat,
         issued' = issued \o [n \in 1..tokens |-> until]
  PROVE  /\ issued' \in Seq(Nat) /\ Len(issued') = Len(issued) + tokens
         /\ \A i \in 1..Len(issued) : issued'[i] = issued[i]
         /\ issued'[Len(issued) + 1] = until
  <1> DEFINE new == [n \in 1..tokens |-> until]
  <1>1. new \in Seq(Nat) /\ Len(new) = tokens /\ new[1] = until
    <2>1. new \in [1..tokens -> Nat] /\ tokens \in Nat /\ 1 \in 1..tokens
      OBVIOUS
    <2> QED
      BY <2>1
  <1> HIDE DEF new
  <1>2. issued' = issued \o new
    BY DEF new
  <1> QED
    BY <1>1, <1>2

\* The server answers; a refresh token that it replaces is this key's alone.
LEMMA AnswerStep ==
  ASSUME TokensInv, NEW c \in Callers, NEW lifetime \in Lifetimes, NEW rotates \in {TRUE, FALSE},
         Answer(c, lifetime, rotates)
  PROVE  TokensInv'
  <1> DEFINE k == KeyOf[c]
             old == request[c].refresh
             len == Len(issued)
             tokens == IF rotates THEN 2 ELSE 1
             next == IF rotates THEN len + 2 ELSE NoRecord
  <1>1. /\ step[c] = "asking" /\ k \in Keys
        /\ len + tokens <= MaxTokens
        /\ issued' = issued \o [n \in 1..tokens |-> clock + lifetime]
        /\ spent' = IF rotates THEN spent \union ({old} \ {NoRecord}) ELSE spent
        /\ step' = [step EXCEPT ![c] = "answered"]
        /\ request' = [request EXCEPT ![c].lifetime = lifetime, ![c].access = len + 1, ![c].next = next]
        /\ UNCHANGED <<line, records, given, native, clock, dropped>>
    BY KeyOfAssumption DEF Answer, storeVars
  <1>2. UNCHANGED locked
    BY DEF Answer, storeVars
  <1>3. /\ lifetime \in Nat /\ clock \in Nat /\ Latency \in Nat /\ MaxTokens \in Nat /\ len \in Nat
        /\ NoRecord \notin Nat /\ NoRecord \notin Tokens
        /\ issued \in Seq(Nat) /\ tokens \in {1, 2}
    BY TokenTypes, TimesAssumption DEF TokensInv, TokensTypeOK
  <1>4. /\ request[c] \in Request /\ old = RefreshOf(k)
        /\ request[c].generation = GenerationOf(k)
        /\ request[c].sent \in Nat /\ request[c].sent <= clock /\ clock <= request[c].sent + Latency
    BY <1>1 DEF TokensInv, Derived, Pending, Request
  <1>5. /\ issued' \in Seq(Nat) /\ Len(issued') = len + tokens
        /\ \A i \in 1..len : issued'[i] = issued[i]
        /\ issued'[len + 1] = clock + lifetime
    BY <1>1, <1>3, Issuing
  <1>6. /\ IssuedTokens' = 1..(len + tokens) /\ IssuedTokens = 1..len
        /\ IssuedTokens \subseteq IssuedTokens' /\ len + 1 \in IssuedTokens'
        /\ next \in IssuedTokens' \union {NoRecord} /\ next \notin IssuedTokens
        /\ IssuedTokens' \subseteq Tokens
        /\ \A t \in IssuedTokens : issued'[t] = issued[t]
    BY <1>1, <1>3, <1>5 DEF IssuedTokens, Tokens
  <1>7. RefreshOf(k) \in IssuedTokens \union {NoRecord} /\ NoRecord \notin IssuedTokens
    BY <1>1, <1>3 DEF TokensInv, Recorded, RefreshOf, IssuedTokens
  <1>8. spent' \subseteq IssuedTokens /\ spent \subseteq IssuedTokens
        /\ spent \subseteq spent' /\ spent' \subseteq spent \union ({RefreshOf(k)} \ {NoRecord})
    BY <1>1, <1>4, <1>7 DEF TokensInv
  <1> HIDE DEF next, tokens, k, len
  <1>9. /\ step' \in [Callers -> Steps] /\ step'[c] = "answered"
        /\ \A d \in Callers \ {c} : step'[d] = step[d]
    BY <1>1 DEF TokensInv, TokensTypeOK, Steps
  <1>10. /\ request'[c] \in Request /\ request'[c].refresh = RefreshOf(k)
         /\ request'[c].generation = GenerationOf(k) /\ request'[c].sent = request[c].sent
         /\ request'[c].lifetime = lifetime
         /\ request'[c].access = len + 1 /\ request'[c].next = next
    <2>1. request'[c] = [request[c] EXCEPT !.lifetime = lifetime, !.access = len + 1, !.next = next]
      BY <1>1 DEF TokensInv, TokensTypeOK
    <2>2. len + 1 \in Tokens /\ next \in Tokens \union {NoRecord}
      BY <1>6
    <2> QED
      BY <1>3, <1>4, <2>1, <2>2 DEF Request
  <1>11. /\ request' \in [Callers -> Request \union {NoRecord}]
         /\ \A d \in Callers \ {c} : request'[d] = request[d]
    BY <1>1, <1>10 DEF TokensInv, TokensTypeOK
  <1>12. TokensTypeOK' /\ Len(issued') <= MaxTokens /\ spent' \subseteq IssuedTokens'
    <2>1. spent' \subseteq Tokens
      BY <1>6, <1>8
    <2>2. Len(issued') <= MaxTokens /\ spent' \subseteq IssuedTokens'
      BY <1>1, <1>5, <1>6, <1>8
    <2> QED
      BY <1>1, <1>2, <1>5, <1>9, <1>11, <2>1, <2>2 DEF TokensInv, TokensTypeOK
  <1>13. ASSUME NEW d \in Callers PROVE HasLock(d)' /\ IsInLine(d)'
    BY <1>1, <1>9 DEF TokensInv, HasLock, IsInLine, Holding
  <1>14. \A l : RefreshOf(l)' = RefreshOf(l) /\ GenerationOf(l)' = GenerationOf(l)
    BY <1>1 DEF RefreshOf, GenerationOf
  \* No other key has the token that is replaced.
  <1>15. ASSUME NEW l \in Keys, l # k, NEW t \in Tokens, Belongs(t, l)
         PROVE  t # RefreshOf(k)
    BY <1>1, <1>15 DEF TokensInv, OfOneKey, Belongs, k
  <1>16. ASSUME NEW d \in Callers \ {c}, step[d] = "answered"
         PROVE  /\ KeyOf[d] \in Keys /\ KeyOf[d] # k
                /\ Belongs(request[d].next, KeyOf[d])
    BY <1>1, <1>16, OneHolder, KeyOfAssumption DEF Belongs, Holding, k
  <1>17. ASSUME NEW d \in Callers PROVE Derived(d)'
    <2>1. RefreshOf(KeyOf[d])' = RefreshOf(KeyOf[d]) /\ GenerationOf(KeyOf[d])' = GenerationOf(KeyOf[d])
      BY <1>14
    <2>2. CASE d = c
      BY <1>1, <1>4, <1>10, <2>1, <2>2 DEF Derived, k
    <2>3. CASE d # c
      <3>1. step'[d] = step[d] /\ request'[d] = request[d] /\ Derived(d) /\ clock' = clock
        BY <1>1, <1>9, <1>11, <2>3 DEF TokensInv
      <3> QED
        BY <2>1, <3>1 DEF Derived
    <2> QED
      BY <2>2, <2>3
  <1>18. ASSUME NEW d \in Callers PROVE Answered(d)'
    <2>1. CASE d = c
      <3>1. issued'[len + 1] >= request'[c].sent + request'[c].lifetime
        BY <1>3, <1>4, <1>5, <1>10
      <3>2. next \notin spent'
        BY <1>6, <1>8
      <3> QED
        BY <1>6, <1>10, <2>1, <3>1, <3>2 DEF Answered
    <2>2. CASE d # c
      <3>1. step'[d] = step[d] /\ request'[d] = request[d] /\ Answered(d)
        BY <1>9, <1>11, <2>2 DEF TokensInv
      <3> SUFFICES ASSUME step[d] = "answered"
                   PROVE  /\ request[d].access \in IssuedTokens'
                          /\ issued'[request[d].access] >= request[d].sent + request[d].lifetime
                          /\ request[d].next \in IssuedTokens' \union {NoRecord}
                          /\ request[d].next \notin spent'
        BY <3>1 DEF Answered
      <3>2. /\ request[d].access \in IssuedTokens
            /\ issued[request[d].access] >= request[d].sent + request[d].lifetime
            /\ request[d].next \in IssuedTokens \union {NoRecord}
            /\ request[d].next \notin spent
        BY <3>1 DEF Answered
      <3>3. request[d].next \in Tokens => request[d].next # RefreshOf(k)
        BY <1>15, <1>16, <2>2
      <3> QED
        BY <1>6, <1>8, <3>2, <3>3
    <2> QED
      BY <2>1, <2>2
  <1>19. ASSUME NEW l \in Keys PROVE Recorded(l)' /\ Replaced(l)'
    <2>1. Recorded(l) /\ Replaced(l)
      BY DEF TokensInv
    <2>2. Recorded(l)'
      BY <1>1, <1>6, <2>1 DEF Recorded
    <2>3. AnswerOnItsWay(l) \/ l = k => AnswerOnItsWay(l)'
      BY <1>9 DEF AnswerOnItsWay, k
    <2>4. l # k /\ RefreshOf(l) \in Tokens => RefreshOf(l) # RefreshOf(k)
      BY <1>15 DEF Belongs
    <2>5. RefreshOf(l) \in spent' => RefreshOf(l) \in spent \/ l = k
      BY <1>6, <1>8, <2>4
    <2> QED
      BY <1>1, <1>14, <2>1, <2>2, <2>3, <2>5 DEF Replaced
  <1>20. ASSUME NEW t \in Tokens, NEW l \in Keys, Belongs(t, l)'
         PROVE  Belongs(t, l) \/ (t = next /\ l = k)
    BY <1>9, <1>10, <1>11, <1>14, <1>20 DEF Belongs, k
  <1>21. ASSUME NEW t \in Tokens, NEW l \in Keys, Belongs(t, l)
         PROVE  t # next
    <2>1. CASE RefreshOf(l) = t
      BY <1>3, <1>6, <2>1 DEF TokensInv, Recorded, RefreshOf
    <2>2. CASE \E d \in Callers : KeyOf[d] = l /\ step[d] = "answered" /\ request[d].next = t
      BY <1>3, <1>6, <2>2 DEF TokensInv, Answered
    <2> QED
      BY <1>21, <2>1, <2>2 DEF Belongs
  <1>22. ASSUME NEW t \in Tokens PROVE OfOneKey(t)'
    BY <1>20, <1>21 DEF TokensInv, OfOneKey
  <1> QED
    BY <1>12, <1>13, <1>17, <1>18, <1>19, <1>22 DEF TokensInv

\* The check of the generation never finds anything newer: the record that a
\* request was derived from is still the one in the map.
LEMMA NothingNewer ==
  ASSUME TokensInv, NEW c \in Callers, step[c] = "answered"
  PROVE  ~(/\ records[KeyOf[c]] # NoRecord
           /\ records[KeyOf[c]].generation > request[c].generation)
  <1>1. request[c].generation = GenerationOf(KeyOf[c]) /\ GenerationOf(KeyOf[c]) \in Nat
    BY TokenTypes DEF TokensInv, Derived, Pending
  <1> QED
    BY <1>1 DEF GenerationOf

\* The life of a token counted from the arrival of the answer is longer than the
\* server's count, but by no more than the latency.
LEMMA LifeFromArrival ==
  /\ \A a, b \in Nat : a + b \in Nat
  /\ \A arrival, sent, lifetime, latency, end \in Nat :
       arrival <= sent + latency /\ end >= sent + lifetime
         => arrival + lifetime <= end + latency
  OBVIOUS

\* The answer takes the place of the record that it was derived from.
LEMMA StoreStep ==
  ASSUME TokensInv, NEW c \in Callers, Store(c)
  PROVE  TokensInv'
  <1> DEFINE k == KeyOf[c]
             answer == request[c]
             record == [access |-> answer.access, refresh |-> answer.next,
                        expires |-> clock + answer.lifetime,
                        generation |-> answer.generation + 1]
  <1>1. step[c] = "answered" /\ k \in Keys
    BY KeyOfAssumption DEF Store
  <1>2. /\ records' = [records EXCEPT ![k] = record] /\ Return(c, "stored", answer.access)
        /\ UNCHANGED <<clock, issued, spent, dropped>> /\ UNCHANGED locked
        /\ native' = IF locked THEN native ELSE native \union ({answer.access, answer.next} \ {NoRecord})
    BY <1>1, NothingNewer DEF Store, serverVars
  <1>3. /\ answer \in Request
        /\ clock <= answer.sent + Latency
        /\ answer.access \in IssuedTokens
        /\ issued[answer.access] >= answer.sent + answer.lifetime
        /\ answer.next \in IssuedTokens \union {NoRecord}
        /\ answer.next \notin spent
    BY <1>1 DEF TokensInv, Derived, Answered, Pending
  <1>4. /\ clock \in Nat /\ Latency \in Nat /\ MaxTokens \in Nat /\ Len(issued) \in Nat
        /\ issued \in Seq(Nat)
        /\ Len(issued) <= MaxTokens /\ NoRecord \notin Nat /\ NoRecord \notin TokenRecord
    BY TokenTypes DEF TokensInv, TokensTypeOK
  <1>5. IssuedTokens \subseteq Tokens
    BY <1>4 DEF IssuedTokens, Tokens
  <1>6. answer.sent \in Nat /\ answer.lifetime \in Nat /\ answer.generation \in Nat
        /\ issued[answer.access] \in Nat
    <2>1. answer.sent \in Nat /\ answer.lifetime \in Nat /\ answer.generation \in Nat
      BY <1>3 DEF Request
    <2> HIDE DEF answer
    <2>2. issued[answer.access] \in Nat
      BY ONLY <1>3, <1>4 DEF IssuedTokens
    <2> QED
      BY <2>1, <2>2
  <1>7. record \in TokenRecord /\ record # NoRecord
    <2>1. answer.access \in Tokens /\ answer.next \in Tokens \union {NoRecord}
      BY <1>3, <1>5
    <2>2. clock + answer.lifetime \in Nat /\ answer.generation + 1 \in Nat
      BY <1>4, <1>6, LifeFromArrival, 1 \in Nat
    <2>3. record \in TokenRecord
      BY <2>1, <2>2 DEF TokenRecord
    <2> QED
      BY <1>4, <2>3
  <1>8. record.expires <= issued[record.access] + Latency
    <2>1. clock + answer.lifetime <= issued[answer.access] + Latency
      BY <1>3, <1>4, <1>6, LifeFromArrival
    <2> QED
      BY <2>1
  <1>9. record.access = answer.access /\ record.refresh = answer.next
    OBVIOUS
  <1> HIDE DEF record
  <1>10. "stored" \in Ended /\ answer.access \in Tokens \union {NoRecord}
    BY <1>3, <1>5 DEF Ended
  <1>11. /\ step' \in [Callers -> Steps] /\ step'[c] = "stored"
         /\ given' \in [Callers -> Tokens \union {NoRecord}]
         /\ request' \in [Callers -> Request \union {NoRecord}]
         /\ \A d \in Callers \ {c} : step'[d] = step[d] /\ request'[d] = request[d]
         /\ line' \in [Keys -> Seq(Callers)]
         /\ \A d \in Callers : HasLock(d)' /\ IsInLine(d)'
    BY <1>2, <1>10, Returning
  <1>12. /\ records' \in [Keys -> TokenRecord \union {NoRecord}] /\ records'[k] = record
         /\ \A l \in Keys \ {k} : records'[l] = records[l]
    BY <1>1, <1>2, <1>7 DEF TokensInv, TokensTypeOK
  <1>13. TokensTypeOK' /\ Len(issued') <= MaxTokens /\ spent' \subseteq IssuedTokens'
    <2>1. native' \subseteq Tokens
      BY <1>2, <1>3, <1>5 DEF TokensInv, TokensTypeOK
    <2> QED
      BY <1>2, <1>11, <1>12, <2>1 DEF TokensInv, TokensTypeOK, IssuedTokens
  <1>14. /\ RefreshOf(k)' = answer.next
         /\ \A l \in Keys \ {k} : RefreshOf(l)' = RefreshOf(l) /\ GenerationOf(l)' = GenerationOf(l)
    BY <1>7, <1>9, <1>12 DEF RefreshOf, GenerationOf
  <1>15. ASSUME NEW d \in Callers PROVE Derived(d)' /\ Answered(d)'
    <2>1. CASE d = c
      BY <1>11, <2>1 DEF Derived, Answered, Pending
    <2>2. CASE d # c
      <3>1. step'[d] = step[d] /\ request'[d] = request[d] /\ Derived(d) /\ Answered(d)
        BY <1>11, <2>2 DEF TokensInv
      <3>2. step[d] \in Pending => KeyOf[d] \in Keys \ {k}
        BY <1>1, <2>2, OneHolder, KeyOfAssumption DEF Pending, Holding
      <3>3. Derived(d)'
        <4> SUFFICES ASSUME step[d] \in Pending
                     PROVE  /\ request[d] \in Request
                            /\ request[d].refresh = RefreshOf(KeyOf[d])'
                            /\ request[d].generation = GenerationOf(KeyOf[d])'
                            /\ request[d].sent <= clock
                            /\ clock <= request[d].sent + Latency
          BY <1>2, <3>1 DEF Derived
        <4> QED
          BY <1>14, <3>1, <3>2 DEF Derived
      <3>4. Answered(d)'
        BY <1>2, <3>1 DEF Answered, IssuedTokens
      <3> QED
        BY <3>3, <3>4
    <2> QED
      BY <2>1, <2>2
  <1>16. ASSUME NEW l \in Keys PROVE Recorded(l)' /\ Replaced(l)'
    <2>1. CASE l = k
      <3>1. Recorded(k)'
        BY <1>2, <1>3, <1>8, <1>9, <1>12 DEF Recorded, IssuedTokens
      <3>2. RefreshOf(k)' \notin spent'
        BY <1>2, <1>3, <1>14
      <3> QED
        BY <2>1, <3>1, <3>2 DEF Replaced
    <2>2. CASE l # k
      <3>1. Recorded(l) /\ Replaced(l) /\ records'[l] = records[l] /\ RefreshOf(l)' = RefreshOf(l)
        BY <1>12, <1>14, <2>2 DEF TokensInv
      <3>2. Recorded(l)'
        BY <1>2, <3>1 DEF Recorded, IssuedTokens
      <3>3. AnswerOnItsWay(l) => AnswerOnItsWay(l)'
        BY <1>11, <2>2 DEF AnswerOnItsWay
      <3> QED
        BY <1>2, <3>1, <3>2, <3>3 DEF Replaced
    <2> QED
      BY <2>1, <2>2
  <1>17. ASSUME NEW t \in Tokens, NEW l \in Keys, Belongs(t, l)' PROVE Belongs(t, l)
    <2>1. CASE RefreshOf(l)' = t
      BY <1>1, <1>14, <2>1 DEF Belongs
    <2>2. CASE \E d \in Callers : KeyOf[d] = l /\ step'[d] = "answered" /\ request'[d].next = t
      BY <1>11, <2>2 DEF Belongs
    <2> QED
      BY <1>17, <2>1, <2>2 DEF Belongs
  <1>18. ASSUME NEW t \in Tokens PROVE OfOneKey(t)'
    BY <1>17 DEF TokensInv, OfOneKey
  <1> QED
    BY <1>11, <1>13, <1>15, <1>16, <1>18 DEF TokensInv

\* An answer that is lost leaves the record as it was, and the key on record.
LEMMA DropStep ==
  ASSUME TokensInv, NEW c \in Callers, Drop(c)
  PROVE  TokensInv'
  <1> DEFINE k == KeyOf[c]
  <1>1. /\ step[c] = "answered" /\ k \in Keys /\ Return(c, "failed", NoRecord)
        /\ dropped' = dropped \union {k}
        /\ UNCHANGED <<records, native, clock, issued, spent>> /\ UNCHANGED locked
    BY KeyOfAssumption DEF Drop, storeVars
  <1>2. "failed" \in Ended /\ NoRecord \in Tokens \union {NoRecord}
    BY DEF Ended
  <1>3. /\ step' \in [Callers -> Steps] /\ step'[c] = "failed"
        /\ given' \in [Callers -> Tokens \union {NoRecord}]
        /\ request' \in [Callers -> Request \union {NoRecord}]
        /\ \A d \in Callers \ {c} : step'[d] = step[d] /\ request'[d] = request[d]
        /\ line' \in [Keys -> Seq(Callers)]
        /\ \A d \in Callers : HasLock(d)' /\ IsInLine(d)'
    BY <1>1, <1>2, Returning
  <1>4. TokensTypeOK' /\ Len(issued') <= MaxTokens /\ spent' \subseteq IssuedTokens'
    BY <1>1, <1>3 DEF TokensInv, TokensTypeOK, IssuedTokens
  <1>5. \A l : RefreshOf(l)' = RefreshOf(l) /\ GenerationOf(l)' = GenerationOf(l)
    BY <1>1 DEF RefreshOf, GenerationOf
  <1>6. ASSUME NEW d \in Callers PROVE Derived(d)' /\ Answered(d)'
    <2>1. CASE d = c
      BY <1>3, <2>1 DEF Derived, Answered, Pending
    <2>2. CASE d # c
      <3>1. step'[d] = step[d] /\ request'[d] = request[d] /\ Derived(d) /\ Answered(d)
        BY <1>3, <2>2 DEF TokensInv
      <3>2. RefreshOf(KeyOf[d])' = RefreshOf(KeyOf[d]) /\ GenerationOf(KeyOf[d])' = GenerationOf(KeyOf[d])
        BY <1>5
      <3>3. Derived(d)'
        BY <1>1, <3>1, <3>2 DEF Derived
      <3>4. Answered(d)'
        BY <1>1, <3>1 DEF Answered, IssuedTokens
      <3> QED
        BY <3>3, <3>4
    <2> QED
      BY <2>1, <2>2
  <1>7. ASSUME NEW l \in Keys PROVE Recorded(l)' /\ Replaced(l)'
    <2>1. Recorded(l) /\ Replaced(l)
      BY DEF TokensInv
    <2>2. Recorded(l)'
      BY <1>1, <2>1 DEF Recorded, IssuedTokens
    <2>3. CASE l = k
      BY <1>1, <2>2, <2>3 DEF Replaced
    <2>4. CASE l # k
      <3>1. AnswerOnItsWay(l) => AnswerOnItsWay(l)'
        BY <1>3, <2>4 DEF AnswerOnItsWay
      <3> QED
        BY <1>1, <1>5, <2>1, <2>2, <3>1 DEF Replaced
    <2> QED
      BY <2>3, <2>4
  <1>8. ASSUME NEW t \in Tokens, NEW l \in Keys, Belongs(t, l)' PROVE Belongs(t, l)
    BY <1>3, <1>5, <1>8 DEF Belongs
  <1>9. ASSUME NEW t \in Tokens PROVE OfOneKey(t)'
    BY <1>8 DEF TokensInv, OfOneKey
  <1> QED
    BY <1>3, <1>4, <1>6, <1>7, <1>9 DEF TokensInv

\* Time passes, no further than a request may take.
LEMMA TickStep ==
  ASSUME TokensInv, TokensTick
  PROVE  TokensInv'
  <1>1. /\ clock' = clock + 1
        /\ UNCHANGED <<step, line, records, request, given, native, issued, spent, dropped>>
        /\ UNCHANGED locked
        /\ \A d \in Callers : step[d] \in Pending => clock < request[d].sent + Latency
    BY DEF TokensTick, storeVars, serverVars, Pending
  <1>2. clock \in Nat /\ Latency \in Nat
    BY TokenTypes DEF TokensInv
  <1>3. TokensTypeOK' /\ Len(issued') <= MaxTokens /\ spent' \subseteq IssuedTokens'
    BY <1>1, <1>2 DEF TokensInv, TokensTypeOK, IssuedTokens
  <1>4. ASSUME NEW d \in Callers PROVE HasLock(d)' /\ IsInLine(d)' /\ Answered(d)'
    BY <1>1 DEF TokensInv, HasLock, IsInLine, Answered, IssuedTokens
  <1>5. \A k : /\ RefreshOf(k)' = RefreshOf(k) /\ GenerationOf(k)' = GenerationOf(k)
               /\ AnswerOnItsWay(k)' <=> AnswerOnItsWay(k)
               /\ Recorded(k)' <=> Recorded(k)
               /\ \A t : Belongs(t, k)' <=> Belongs(t, k)
    BY <1>1 DEF RefreshOf, GenerationOf, AnswerOnItsWay, Belongs, Recorded, IssuedTokens
  <1>6. ASSUME NEW d \in Callers PROVE Derived(d)'
    <2>1. Derived(d)
      BY DEF TokensInv
    <2> SUFFICES ASSUME step[d] \in Pending
                 PROVE  /\ request[d] \in Request
                        /\ request[d].refresh = RefreshOf(KeyOf[d])
                        /\ request[d].generation = GenerationOf(KeyOf[d])
                        /\ request[d].sent <= clock + 1
                        /\ clock + 1 <= request[d].sent + Latency
      BY <1>1, <1>5 DEF Derived
    <2>2. request[d] \in Request /\ request[d].sent \in Nat /\ request[d].sent <= clock
      BY <2>1 DEF Derived, Request
    <2>3. clock < request[d].sent + Latency
      BY <1>1
    <2> QED
      BY <1>2, <2>1, <2>2, <2>3 DEF Derived
  <1>7. /\ \A k \in Keys : Recorded(k)' /\ Replaced(k)'
        /\ \A t \in Tokens : OfOneKey(t)'
    BY <1>1, <1>5 DEF TokensInv, Replaced, OfOneKey
  <1> QED
    BY <1>3, <1>4, <1>6, <1>7 DEF TokensInv

\* The invariant does not depend on the key ring.
LEMMA LockStep ==
  ASSUME TokensInv, LockChanges \/ UNCHANGED tokenVars
  PROVE  TokensInv'
  <1>1. /\ UNCHANGED <<step, line, records, request, given, native, clock, issued, spent, dropped>>
        /\ locked' \in BOOLEAN
    BY DEF LockChanges, tokenVars, storeVars, serverVars, TokensInv, TokensTypeOK
  <1>2. TokensTypeOK' /\ Len(issued') <= MaxTokens /\ spent' \subseteq IssuedTokens'
    BY <1>1 DEF TokensInv, TokensTypeOK, IssuedTokens
  <1>3. \A k : /\ RefreshOf(k)' = RefreshOf(k) /\ GenerationOf(k)' = GenerationOf(k)
               /\ AnswerOnItsWay(k)' <=> AnswerOnItsWay(k)
               /\ Recorded(k)' <=> Recorded(k)
               /\ \A t : Belongs(t, k)' <=> Belongs(t, k)
    BY <1>1 DEF RefreshOf, GenerationOf, AnswerOnItsWay, Belongs, Recorded, IssuedTokens
  <1>4. ASSUME NEW d \in Callers PROVE HasLock(d)' /\ IsInLine(d)' /\ Answered(d)'
    BY <1>1 DEF TokensInv, HasLock, IsInLine, Answered, IssuedTokens
  <1>5. ASSUME NEW d \in Callers PROVE Derived(d)'
    BY <1>1, <1>3 DEF TokensInv, Derived
  <1>6. /\ \A k \in Keys : Recorded(k)' /\ Replaced(k)'
        /\ \A t \in Tokens : OfOneKey(t)'
    BY <1>1, <1>3 DEF TokensInv, Replaced, OfOneKey
  <1> QED
    BY <1>2, <1>4, <1>5, <1>6 DEF TokensInv

-----------------------------------------------------------------------------
(* The invariant *)

\* Nothing has been asked yet.
LEMMA TokensInitInv == TokensInit => TokensInv
  <1> SUFFICES ASSUME TokensInit PROVE TokensInv
    OBVIOUS
  <1> USE DEF TokensInit
  <1>1. TokensTypeOK /\ Len(issued) <= MaxTokens /\ spent \subseteq IssuedTokens
    <2>1. <<>> \in Seq(Callers) /\ <<>> \in Seq(Nat) /\ Len(issued) = 0 /\ MaxTokens \in Nat
      BY TimesAssumption
    <2>2. /\ step \in [Callers -> Steps] /\ line \in [Keys -> Seq(Callers)]
          /\ records \in [Keys -> TokenRecord \union {NoRecord}]
          /\ request \in [Callers -> Request \union {NoRecord}]
          /\ given \in [Callers -> Tokens \union {NoRecord}]
      BY <2>1 DEF Steps
    <2>3. locked \in BOOLEAN
      OBVIOUS
    <2> QED
      BY <2>1, <2>2, <2>3 DEF TokensTypeOK
  <1>2. \A c \in Callers : step[c] = "new" /\ \A k \in Keys : records[k] = NoRecord
    OBVIOUS
  <1>3. \A c \in Callers : HasLock(c) /\ IsInLine(c) /\ Derived(c) /\ Answered(c)
    BY <1>2 DEF HasLock, IsInLine, Derived, Answered, Holding, Pending
  <1>4. \A k \in Keys : records[k] = NoRecord /\ RefreshOf(k) = NoRecord
    BY DEF RefreshOf
  <1>5. \A k \in Keys : Recorded(k) /\ Replaced(k)
    BY <1>4 DEF Recorded, Replaced
  <1>6. \A t \in Tokens : t # NoRecord
    BY NoRecordAssumption DEF Tokens
  <1>7. \A t \in Tokens : OfOneKey(t)
    BY <1>2, <1>4, <1>6 DEF OfOneKey, Belongs
  <1> QED
    BY <1>1, <1>3, <1>5, <1>7 DEF TokensInv

\* A refused or failed request leaves the record as it was.
LEMMA RefuseStep ==
  ASSUME TokensInv, NEW c \in Callers, Refuse(c)
  PROVE  TokensInv'
  <1>1. /\ step[c] # "answered" /\ Return(c, "failed", NoRecord)
        /\ "failed" \in Ended /\ NoRecord \in Tokens \union {NoRecord}
        /\ UNCHANGED <<records, storeVars, clock, serverVars>>
    BY DEF Refuse, Ended
  <1> QED
    BY <1>1, ReturnsUnanswered

\* Every step keeps the invariant.
LEMMA TokensNextInv ==
  ASSUME TokensInv, [TokensNext]_tokenVars
  PROVE  TokensInv'
  <1>1. ASSUME NEW c \in Callers, CallerStep(c) PROVE TokensInv'
    BY <1>1, FirstLookStep, AskForLockStep, SecondLookStep, SendStep, StoreStep DEF CallerStep
  <1>2. ASSUME NEW c \in Callers, ServerStep(c) PROVE TokensInv'
    BY <1>2, AnswerStep, RefuseStep, DropStep DEF ServerStep
  <1> QED
    BY <1>1, <1>2, TickStep, LockStep DEF TokensNext

\* It gives what a state of the cache promises.
LEMMA InvGivesTokens ==
  ASSUME TokensInv
  PROVE  TokensTypeOK /\ OneRequestPerKey /\ ReplacedTokensStayUnused
  <1>1. OneRequestPerKey
    <2> SUFFICES ASSUME NEW c \in Callers, step[c] \in Pending
                 PROVE  /\ \A d \in Callers \ {c} : KeyOf[d] = KeyOf[c] => step[d] \notin Holding
                        /\ request[c].generation = GenerationOf(KeyOf[c])
      BY DEF OneRequestPerKey, Pending, Holding, GenerationOf
    <2> QED
      BY OneHolder DEF TokensInv, Derived, Pending, Holding
  <1>2. ReplacedTokensStayUnused
    <2> SUFFICES ASSUME NEW c \in Callers, step[c] = "asking", KeyOf[c] \notin dropped,
                        request[c].refresh \in spent
                 PROVE  FALSE
      BY DEF ReplacedTokensStayUnused
    <2>1. RefreshOf(KeyOf[c]) \in spent /\ KeyOf[c] \in Keys
      BY KeyOfAssumption DEF TokensInv, Derived, Pending
    <2>2. PICK d \in Callers : KeyOf[d] = KeyOf[c] /\ step[d] = "answered"
      BY <2>1 DEF TokensInv, Replaced, AnswerOnItsWay
    <2> QED
      BY <2>2, OneHolder DEF Holding
  <1> QED
    BY <1>1, <1>2 DEF TokensInv

\* A fresh token outlives the skew less the latency.
LEMMA FreshIsAlive ==
  ASSUME TokensInv, Latency <= Skew, NEW k \in Keys, Fresh(k)
  PROVE  issued[records[k].access] > clock
  <1>1. /\ records[k].expires > clock + Skew
        /\ records[k].expires <= issued[records[k].access] + Latency
        /\ records[k].access \in IssuedTokens
        /\ records[k].expires \in Nat
    BY FreshHasToken DEF TokensInv, Recorded, Fresh, TokenRecord
  <1>2. issued[records[k].access] \in Nat
    BY <1>1 DEF TokensInv, TokensTypeOK, IssuedTokens
  <1>3. clock \in Nat /\ Latency \in Nat /\ Skew \in Nat
    BY TokenTypes DEF TokensInv
  <1> QED
    BY ONLY <1>1, <1>2, <1>3, Latency <= Skew

\* Every token that a step takes from the cache is alive.
LEMMA ServedIsAlive ==
  ASSUME TokensInv, Latency <= Skew, [TokensNext]_tokenVars,
         NEW c \in Callers, step'[c] = "served", step[c] # "served"
  PROVE  issued[given'[c]] > clock
  <1>1. ASSUME NEW d \in Callers, NEW how \in Ended, NEW token \in Tokens \union {NoRecord},
               Return(d, how, token)
        PROVE  d = c /\ how = "served" /\ given'[c] = token
    BY <1>1, Returning
  <1>2. ASSUME NEW d \in Callers, NEW how \in Steps \ {"served"}, step' = [step EXCEPT ![d] = how]
        PROVE  FALSE
    BY <1>2 DEF TokensInv, TokensTypeOK
  <1>3. ASSUME NEW d \in Callers, FirstLook(d) \/ SecondLook(d)
        PROVE  issued[given'[c]] > clock
    <2>1. CASE Fresh(KeyOf[d]) /\ Return(d, "served", records[KeyOf[d]].access)
      <3>1. /\ KeyOf[d] \in Keys /\ "served" \in Ended
            /\ records[KeyOf[d]].access \in Tokens \union {NoRecord}
        BY <2>1, KeyOfAssumption, FreshHasToken DEF Ended
      <3>2. given'[c] = records[KeyOf[d]].access
        BY <1>1, <2>1, <3>1
      <3> QED
        BY <2>1, <3>1, <3>2, FreshIsAlive
    <2>2. CASE \E how \in {"missed", "stale"} : step' = [step EXCEPT ![d] = how]
      BY <1>2, <2>2 DEF Steps
    <2> QED
      BY <1>3, <2>1, <2>2 DEF FirstLook, SecondLook
  <1>4. ASSUME NEW d \in Callers, AskForLock(d) PROVE FALSE
    BY <1>2, <1>4 DEF AskForLock, Steps
  <1>5. ASSUME NEW d \in Callers, Return(d, "failed", NoRecord) PROVE FALSE
    <2>1. "failed" \in Ended /\ NoRecord \in Tokens \union {NoRecord}
      BY DEF Ended
    <2> QED
      BY <1>1, <1>5, <2>1
  <1>6. ASSUME NEW d \in Callers, Send(d) PROVE FALSE
    BY <1>2, <1>5, <1>6 DEF Send, Steps
  <1>7. ASSUME NEW d \in Callers, Store(d) PROVE FALSE
    <2>1. step[d] = "answered" /\ Return(d, "stored", request[d].access)
      BY <1>7, NothingNewer DEF Store
    <2>2. "stored" \in Ended /\ request[d].access \in Tokens \union {NoRecord}
      BY <2>1 DEF TokensInv, Derived, Pending, Request, Ended
    <2> QED
      BY <1>1, <2>1, <2>2
  <1>8. ASSUME NEW d \in Callers, ServerStep(d) PROVE FALSE
    <2>1. ASSUME NEW lifetime \in Lifetimes, NEW rotates \in BOOLEAN, Answer(d, lifetime, rotates)
          PROVE  FALSE
      BY <1>2, <2>1 DEF Answer, Steps
    <2> QED
      BY <1>5, <1>8, <2>1 DEF ServerStep, Refuse, Drop
  <1>9. CASE TokensTick \/ LockChanges \/ UNCHANGED tokenVars
    BY <1>9 DEF TokensTick, LockChanges, tokenVars
  <1> QED
    BY <1>3, <1>4, <1>6, <1>7, <1>8, <1>9 DEF TokensNext, CallerStep

\* In every reachable state one request for a key is under way, derived from the
\* record that is in the map, and a refresh token that the server has replaced is
\* not sent again unless an answer was lost.
THEOREM OneRefreshAtATime ==
  TokensSpec => [](TokensTypeOK /\ OneRequestPerKey /\ ReplacedTokensStayUnused)
  <1>1. TokensInit => TokensInv
    BY TokensInitInv
  <1>2. TokensInv /\ [TokensNext]_tokenVars => TokensInv'
    BY TokensNextInv
  <1>3. TokensInv => TokensTypeOK /\ OneRequestPerKey /\ ReplacedTokensStayUnused
    BY InvGivesTokens
  <1> QED
    BY <1>1, <1>2, <1>3, PTL DEF TokensSpec

\* If no answer of a server takes longer than the skew, a token from the cache has
\* not expired at its server when it is handed out: with the theorem above, all
\* that the cache promises.
THEOREM CacheKeepsItsPromise ==
  ASSUME Latency <= Skew
  PROVE  TokensSpec => TokensCorrect
  <1>1. TokensInit => TokensInv
    BY TokensInitInv
  <1>2. TokensInv /\ [TokensNext]_tokenVars => TokensInv'
    BY TokensNextInv
  <1>3. TokensInv => TokensTypeOK /\ OneRequestPerKey /\ ReplacedTokensStayUnused
    BY InvGivesTokens
  <1>4. TokensInv /\ [TokensNext]_tokenVars =>
          [\A c \in Callers :
             step'[c] = "served" /\ step[c] # "served" => issued[given'[c]] > clock]_tokenVars
    BY ServedIsAlive
  <1> QED
    BY <1>1, <1>2, <1>3, <1>4, PTL DEF TokensSpec, TokensCorrect, CachedTokensAreAlive

-----------------------------------------------------------------------------
(* Authorization in the browser *)

USE FlowOfAssumption, NoFlowAssumption

-----------------------------------------------------------------------------
(* Types *)

LEMMA CallbackResultLemma ==
  ASSUME NEW c \in Calls, NEW callback \in Callbacks \union {Garbage}
  PROVE  /\ CallbackResult(c, callback) \in Outcomes
         /\ CallbackResult(c, callback) \in {"code", "error"} => callback.state = c
  BY DEF CallbackResult, Callbacks, Outcomes

\* The actions of a call by the variables that they change: a call that ends
\* lets go of its listener, and of its flow if that was registered.
LEMMA StepsOfACall ==
  ASSUME FlowsTypeOK, NEW c \in Calls, Bind(c) \/ CallStep(c)
  PROVE  /\ UNCHANGED <<arrived, stopped, due, answered>>
         /\ \/ /\ stage[c] = "new" /\ stage' = [stage EXCEPT ![c] = "bound"]
               /\ listening' = listening \union {c} /\ UNCHANGED <<outcome, flows>>
            \/ /\ stage[c] = "bound" /\ stage' = [stage EXCEPT ![c] = "registered"]
               /\ flows[FlowOf[c]] = NoFlow /\ flows' = [flows EXCEPT ![FlowOf[c]] = c]
               /\ UNCHANGED <<outcome, listening>>
            \/ /\ stage[c] = "registered" /\ stage' = [stage EXCEPT ![c] = "open"]
               /\ UNCHANGED <<outcome, listening, flows>>
            \/ \E result \in Outcomes :
                 /\ result \in {"code", "error"} => arrived[c].state = c
                 /\ Ends(c, result)
                 /\ \/ stage[c] \in {"new", "bound"} /\ UNCHANGED flows
                    \/ /\ stage[c] \in {"registered", "open"}
                       /\ flows' = [flows EXCEPT ![FlowOf[c]] = NoFlow]
  <1>1. CASE Bind(c)
    BY <1>1 DEF Bind, Outcomes
  <1>2. CASE InsertFlow(c)
    BY <1>2 DEF InsertFlow, Outcomes
  <1>3. CASE OpenBrowser(c)
    BY <1>3 DEF OpenBrowser, Returns, Outcomes
  <1>4. CASE Wait(c)
    <2>1. CASE c \in stopped /\ Returns(c, "Cancelled")
      BY <1>4, <2>1 DEF Wait, Returns, Outcomes
    <2>2. CASE c \in due /\ Returns(c, "Timeout")
      BY <1>4, <2>2 DEF Wait, Returns, Outcomes
    <2>3. CASE arrived[c] # NoFlow /\ Returns(c, CallbackResult(c, arrived[c]))
      <3>1. arrived[c] \in Callbacks \union {Garbage}
        BY <2>3 DEF FlowsTypeOK
      <3> QED
        BY <1>4, <2>3, <3>1, CallbackResultLemma DEF Wait, Returns
    <2> QED
      BY <1>4, <2>1, <2>2, <2>3 DEF Wait
  <1> QED
    BY <1>1, <1>2, <1>3, <1>4 DEF CallStep

LEMMA FlowsTypeInit == FlowsInit => FlowsTypeOK
  BY DEF FlowsInit, FlowsTypeOK, Stages

LEMMA FlowsTypeStep == FlowsTypeOK /\ [FlowsNext]_flowVars => FlowsTypeOK'
  <1> SUFFICES ASSUME FlowsTypeOK, [FlowsNext]_flowVars
               PROVE  FlowsTypeOK'
    OBVIOUS
  <1>1. ASSUME NEW c \in Calls, Bind(c) \/ CallStep(c)
        PROVE  FlowsTypeOK'
    BY <1>1, StepsOfACall DEF FlowsTypeOK, Ends, Stages
  <1>2. ASSUME NEW c \in Calls, TimePasses(c)
        PROVE  FlowsTypeOK'
    BY <1>2 DEF TimePasses, FlowsTypeOK
  <1>3. ASSUME NEW c \in Calls, NEW callback \in Callbacks \union {Garbage},
               Connect(c, callback)
        PROVE  FlowsTypeOK'
    BY <1>3 DEF Connect, FlowsTypeOK
  <1>4. ASSUME NEW f \in Flows, CancelFlow(f)
        PROVE  FlowsTypeOK'
    BY <1>4 DEF CancelFlow, FlowsTypeOK
  <1>5. CASE UNCHANGED flowVars
    BY <1>5 DEF flowVars, FlowsTypeOK
  <1> QED
    BY <1>1, <1>2, <1>3, <1>4, <1>5 DEF FlowsNext

-----------------------------------------------------------------------------
(* The invariant *)

\* What makes the promises inductive: only a call that has ended has an outcome,
\* and it does not listen any more, so nothing arrives after the answer was
\* given; and a flow is registered under its own name, so a cancel of the flow
\* finds the call.
FlowsInv ==
  /\ RegisteredWhileRunning /\ AnswersAreOwn
  /\ \A c \in Calls : stage[c] # "ended" => outcome[c] = NoFlow
  /\ \A c \in listening : stage[c] # "ended"
  /\ \A f \in Flows : flows[f] # NoFlow => FlowOf[flows[f]] = f

LEMMA FlowsInvInit == FlowsInit => FlowsInv
  BY DEF FlowsInit, FlowsInv, RegisteredWhileRunning, AnswersAreOwn, Outcomes

LEMMA FlowsInvStep == FlowsTypeOK /\ FlowsInv /\ [FlowsNext]_flowVars => FlowsInv'
  <1> SUFFICES ASSUME FlowsTypeOK, FlowsInv, [FlowsNext]_flowVars
               PROVE  FlowsInv'
    OBVIOUS
  <1>1. ASSUME NEW c \in Calls, Bind(c) \/ CallStep(c)
        PROVE  FlowsInv'
    <2>1. CASE /\ stage[c] = "new" /\ stage' = [stage EXCEPT ![c] = "bound"]
               /\ listening' = listening \union {c} /\ UNCHANGED <<arrived, outcome, flows>>
      BY <2>1 DEF FlowsTypeOK, FlowsInv, RegisteredWhileRunning, AnswersAreOwn
    <2>2. CASE /\ stage[c] = "bound" /\ stage' = [stage EXCEPT ![c] = "registered"]
               /\ flows[FlowOf[c]] = NoFlow /\ flows' = [flows EXCEPT ![FlowOf[c]] = c]
               /\ UNCHANGED <<arrived, outcome, listening>>
      <3>1. RegisteredWhileRunning'
        BY <2>2 DEF FlowsTypeOK, FlowsInv, RegisteredWhileRunning
      <3> QED
        BY <2>2, <3>1 DEF FlowsTypeOK, FlowsInv, AnswersAreOwn
    <2>3. CASE /\ stage[c] = "registered" /\ stage' = [stage EXCEPT ![c] = "open"]
               /\ UNCHANGED <<arrived, outcome, listening, flows>>
      BY <2>3 DEF FlowsTypeOK, FlowsInv, RegisteredWhileRunning, AnswersAreOwn
    <2>4. ASSUME NEW result \in Outcomes, UNCHANGED arrived,
                 result \in {"code", "error"} => arrived[c].state = c,
                 Ends(c, result),
                 \/ stage[c] \in {"new", "bound"} /\ UNCHANGED flows
                 \/ /\ stage[c] \in {"registered", "open"}
                    /\ flows' = [flows EXCEPT ![FlowOf[c]] = NoFlow]
          PROVE  FlowsInv'
      <3>1. /\ stage' = [stage EXCEPT ![c] = "ended"]
            /\ outcome' = [outcome EXCEPT ![c] = result]
            /\ listening' = listening \ {c}
        BY <2>4 DEF Ends
      <3>2. RegisteredWhileRunning'
        BY <2>4, <3>1 DEF FlowsTypeOK, FlowsInv, RegisteredWhileRunning
      <3>3. AnswersAreOwn'
        BY <2>4, <3>1 DEF FlowsTypeOK, FlowsInv, AnswersAreOwn
      <3> QED
        BY <2>4, <3>1, <3>2, <3>3 DEF FlowsTypeOK, FlowsInv
    <2> QED
      BY <1>1, <2>1, <2>2, <2>3, <2>4, StepsOfACall
  <1>2. ASSUME NEW c \in Calls, TimePasses(c)
        PROVE  FlowsInv'
    BY <1>2 DEF TimePasses, FlowsInv, RegisteredWhileRunning, AnswersAreOwn
  <1>3. ASSUME NEW c \in Calls, NEW callback \in Callbacks \union {Garbage},
               Connect(c, callback)
        PROVE  FlowsInv'
    <2>1. outcome[c] \notin {"code", "error"}
      BY <1>3 DEF Connect, FlowsInv, Outcomes
    <2> QED
      BY <1>3, <2>1 DEF Connect, FlowsTypeOK, FlowsInv, RegisteredWhileRunning, AnswersAreOwn
  <1>4. ASSUME NEW f \in Flows, CancelFlow(f)
        PROVE  FlowsInv'
    BY <1>4 DEF CancelFlow, FlowsInv, RegisteredWhileRunning, AnswersAreOwn
  <1>5. CASE UNCHANGED flowVars
    BY <1>5 DEF flowVars, FlowsInv, RegisteredWhileRunning, AnswersAreOwn
  <1> QED
    BY <1>1, <1>2, <1>3, <1>4, <1>5 DEF FlowsNext

-----------------------------------------------------------------------------
(* The theorem *)

\* A step that confirms a cancel has found the call of the flow, which runs.
LEMMA ConfirmedStep ==
  FlowsTypeOK /\ FlowsInv /\ [FlowsNext]_flowVars =>
    [\A c \in answered' \ answered : c \in stopped' /\ stage[c] \in {"registered", "open"}]_flowVars
  <1> SUFFICES ASSUME FlowsTypeOK, FlowsInv, FlowsNext, NEW c \in answered' \ answered
               PROVE  c \in stopped' /\ stage[c] \in {"registered", "open"}
    BY DEF flowVars
  <1>1. PICK f \in Flows : CancelFlow(f)
    BY StepsOfACall DEF FlowsNext, TimePasses, Connect
  <1>2. c = flows[f] /\ c # NoFlow /\ c \in stopped'
    BY <1>1 DEF CancelFlow
  <1>3. c \in Calls /\ FlowOf[c] = f
    BY <1>2 DEF FlowsTypeOK, FlowsInv
  <1> QED
    BY <1>2, <1>3 DEF FlowsInv, RegisteredWhileRunning

\* A flow that waits for a browser is registered exactly while it runs, so that
\* it can be cancelled; a cancel that is confirmed reaches it; and it ends with
\* the answer to its own call only (OAuthCoordinator::start and cancel).
THEOREM FlowsKeepTheirPromise == FlowsSpec => FlowsCorrect
  <1>1. FlowsInit => FlowsTypeOK /\ FlowsInv
    BY FlowsTypeInit, FlowsInvInit
  <1>2. FlowsTypeOK /\ FlowsInv /\ [FlowsNext]_flowVars => (FlowsTypeOK /\ FlowsInv)'
    BY FlowsTypeStep, FlowsInvStep
  <1>3. FlowsTypeOK /\ FlowsInv => FlowsTypeOK /\ RegisteredWhileRunning /\ AnswersAreOwn
    BY DEF FlowsInv
  <1> QED
    BY <1>1, <1>2, <1>3, ConfirmedStep, PTL DEF FlowsSpec, FlowsCorrect, ConfirmedCancelsAreSeen

=============================================================================
