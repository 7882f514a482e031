------------------------- MODULE LocalFiles_proofs -------------------------
(***************************************************************************)
(* Proofs about files that several executions or threads write: the files  *)
(* of response bodies, for any executions, sizes and times, and the        *)
(* diagnostics log, for any writers and limits.  And about cURL command    *)
(* lines, for words of any length and any request.                         *)
(*                                                                         *)
(* No step of an execution touches the files of another, so the invariant  *)
(* of the bodies is one of each execution and its own files, Sound(e), and *)
(* a step has to be looked at for the execution that takes it only.        *)
(*                                                                         *)
(* The files of the log are shared.  What keeps them in order is that      *)
(* every event in them is older than the next one its writer appends       *)
(* (EventsAreWritten), wherever the others have moved the files meanwhile; *)
(* what bounds them, that who has looked for room is counted               *)
(* (LogsAreShort); and what keeps a writer that is alone from losing       *)
(* events is the shape of the names in use at each step of its rotation    *)
(* (FullAt).                                                               *)
(*                                                                         *)
(* A command line is read from its first word to its last.  What the lexer *)
(* has after a prefix of the line (LexState) is shown for one character    *)
(* more, and what the parser has after a prefix of the words for one       *)
(* option more (Kept): each option changes its own fields of the parser,   *)
(* and no two parts of a request share one, except an API key and the      *)
(* headers.                                                                *)
(***************************************************************************)
EXTENDS ResponseSpool, Diagnostics, Curl, FiniteSetTheorems, WellFoundedInduction, NaturalsInduction,
        SequenceTheorems, TLAPS

Own(e) == {f \in files : f.of = e}

\* The body so far, the preview of it and the file agree; the file is no older
\* than the download, and is there while the window is open.
BodyAgrees(e) ==
  LET x == exchange[e] IN
    /\ x.decoded <= Limit
    /\ x.preview = IF x.decoded < Preview THEN x.decoded ELSE Preview
    /\ x.created <= now
    /\ \A f \in Own(e) :
         /\ f.modified <= now
         /\ f.kind = "decoded" /\ x.phase # "killed" =>
              f.bytes = x.decoded /\ x.decoded > Preview /\ f.modified >= x.created
    /\ window = "open" /\ x.phase \in Active \union {"completed"} /\ x.decoded > Preview =>
         \E f \in Own(e) : f.kind = "decoded"

\* Which files an execution has, by how far it is.
FilesFitPhase(e) ==
  LET x == exchange[e] IN
    /\ \A f, g \in Own(e) : f.kind = g.kind => f = g
    /\ x.phase \in {"idle", "sending", "failed", "cancelled"} => Own(e) = {}
    /\ x.phase \in {"idle", "sending"} => x.decoded = 0
    /\ x.phase = "completed" => \A f \in Own(e) : x.offers /\ f.kind = "decoded"
    /\ x.offers => x.phase = "completed" /\ x.decoded > Preview

\* What runs, or has left a file, while the window closes; and when it is gone.
FitsWindow(e) ==
  LET x == exchange[e] IN
    /\ window = "closing" /\ (x.phase \in Active \/ Own(e) # {}) => e \in running
    /\ window = "gone" => x.phase \in {"idle", "killed"}

MethodKept(e) ==
  LET x == exchange[e] IN
    /\ x.phase = "sending" /\ x.body => x.method = x.first
    /\ x.redirects <= MaxRedirects

Sound(e) == BodyAgrees(e) /\ FilesFitPhase(e) /\ FitsWindow(e) /\ MethodKept(e)

SpoolTypes ==
  /\ exchange \in [Exchanges -> Exchange]
  /\ files \subseteq SpoolFile
  /\ window \in {"open", "closing", "gone"} /\ running \subseteq Exchanges /\ now \in Nat

SpoolInv == SpoolTypes /\ \A e \in Exchanges : Sound(e)

-----------------------------------------------------------------------------
(* Executions and their files *)

\* What the constants are.
LEMMA SpoolConstants ==
  /\ Chunks \subseteq Nat \ {0} /\ Preview \in Nat /\ Limit \in Nat
  /\ FileLife \in Nat \ {0} /\ MaxRedirects \in Nat /\ MaxNow \in Nat
  BY SizesAssumption, FileLifeAssumption

\* The fields of an execution.
LEMMA ExchangeFields ==
  ASSUME NEW x \in Exchange
  PROVE  /\ x.phase \in Phases /\ x.first \in Methods /\ x.method \in Methods
         /\ x.redirects \in Nat /\ x.created \in Nat /\ x.preview \in Nat /\ x.decoded \in Nat
         /\ x.body \in BOOLEAN /\ x.encoded \in BOOLEAN
         /\ x.stopped \in BOOLEAN /\ x.offers \in BOOLEAN
  BY DEF Exchange

LEMMA NotBegunIs ==
  /\ NotBegun \in Exchange
  /\ NotBegun.decoded = 0 /\ NotBegun.preview = 0 /\ NotBegun.created = 0
  /\ NotBegun.redirects = 0 /\ ~NotBegun.offers
  BY DEF NotBegun, Exchange, Phases, Methods

\* A step of one execution keeps the others sound.
LEMMA OneExchange ==
  ASSUME SpoolInv, NEW e \in Exchanges,
         exchange' \in [Exchanges -> Exchange],
         \A d \in Exchanges \ {e} : exchange'[d] = exchange[d],
         files' \subseteq SpoolFile,
         \A d \in Exchanges \ {e} : Own(d)' = Own(d),
         UNCHANGED <<window, running, now>>,
         Sound(e)'
  PROVE  SpoolInv'
  <1>2. ASSUME NEW d \in Exchanges \ {e} PROVE Sound(d)'
    <2>1. Sound(d) /\ exchange'[d] = exchange[d] /\ Own(d)' = Own(d)
      BY DEF SpoolInv
    <2>2. BodyAgrees(d)'
      BY <2>1 DEF Sound, BodyAgrees
    <2>3. FilesFitPhase(d)'
      BY <2>1 DEF Sound, FilesFitPhase
    <2>4. FitsWindow(d)' /\ MethodKept(d)'
      BY <2>1 DEF Sound, FitsWindow, MethodKept
    <2> QED
      BY <2>2, <2>3, <2>4 DEF Sound
  <1>3. SpoolTypes'
    BY DEF SpoolInv, SpoolTypes
  <1> QED
    BY <1>2, <1>3 DEF SpoolInv

\* What an active execution is like.
LEMMA ActiveIs ==
  ASSUME SpoolInv, NEW e \in Exchanges, exchange[e].phase \in Active
  PROVE  /\ exchange[e] \in Exchange /\ Sound(e)
         /\ ~exchange[e].offers /\ window # "gone"
         /\ window = "closing" => e \in running
  <1>1. exchange[e] \in Exchange /\ Sound(e) /\ window \in {"open", "closing", "gone"}
    BY DEF SpoolInv, SpoolTypes
  <1>2. exchange[e].phase \notin {"completed", "idle", "killed"}
    BY DEF Active
  <1>3. ~exchange[e].offers
    BY <1>1, <1>2 DEF Sound, FilesFitPhase
  <1>4. window # "gone" /\ (window = "closing" => e \in running)
    BY <1>1, <1>2 DEF Sound, FitsWindow
  <1> QED
    BY <1>1, <1>3, <1>4

\* An execution that fails or is cancelled drops its files.
LEMMA EndsWithStep ==
  ASSUME SpoolInv, NEW e \in Exchanges, exchange[e].phase \in Active,
         NEW phase \in {"failed", "cancelled"}, EndsWith(e, phase),
         UNCHANGED <<window, running, now>>
  PROVE  SpoolInv'
  <1> DEFINE x == [exchange[e] EXCEPT !.phase = phase]
  <1>1. exchange[e] \in Exchange /\ Sound(e) /\ ~exchange[e].offers /\ window # "gone"
        /\ (window = "closing" => e \in running)
    BY ActiveIs
  <1>2. x \in Exchange /\ x.phase = phase /\ x.decoded = exchange[e].decoded
        /\ x.preview = exchange[e].preview /\ x.created = exchange[e].created
        /\ x.redirects = exchange[e].redirects /\ x.offers = exchange[e].offers
    BY <1>1 DEF Exchange, Phases
  <1> HIDE DEF x
  <1>3. /\ exchange' \in [Exchanges -> Exchange] /\ exchange'[e] = x
        /\ \A d \in Exchanges \ {e} : exchange'[d] = exchange[d]
    BY <1>2 DEF EndsWith, x, SpoolInv, SpoolTypes
  <1>4. /\ files' = (files \ Own(e)) \union {}
        /\ \A f \in Own(e) \union {} : f.of = e
    BY DEF EndsWith, Own
  <1>5. Own(e)' = {} /\ \A d \in Exchanges \ {e} : Own(d)' = Own(d)
    BY <1>4 DEF Own
  <1>6. phase \notin {"idle", "sending", "completed"} /\ phase \notin Active /\ phase # "killed"
    BY DEF Active
  <1>7. BodyAgrees(e)'
    BY <1>1, <1>2, <1>3, <1>5, <1>6 DEF Sound, BodyAgrees
  <1>8. FilesFitPhase(e)' /\ FitsWindow(e)'
    BY <1>1, <1>2, <1>3, <1>5, <1>6 DEF FilesFitPhase, FitsWindow
  <1>9. MethodKept(e)'
    BY <1>1, <1>2, <1>3, <1>6 DEF Sound, MethodKept
  <1>10. Sound(e)'
    BY <1>7, <1>8, <1>9 DEF Sound
  <1>11. files' \subseteq SpoolFile
    BY <1>4 DEF SpoolInv, SpoolTypes
  <1> QED
    BY <1>2, <1>3, <1>5, <1>10, <1>11, OneExchange

-----------------------------------------------------------------------------
(* Sending *)

\* An execution that begins, or follows a redirect, has no file and no body yet.
LEMMA SendingStep ==
  ASSUME SpoolInv, NEW e \in Exchanges, NEW x \in Exchange,
         exchange[e].phase \in {"idle", "sending"}, window # "gone",
         window = "closing" => e \in running,
         exchange' \in [Exchanges -> Exchange], exchange'[e] = x,
         \A d \in Exchanges \ {e} : exchange'[d] = exchange[d],
         x.phase = "sending", x.decoded = exchange[e].decoded, x.preview = exchange[e].preview,
         x.created = exchange[e].created, x.offers = exchange[e].offers,
         x.body => x.method = x.first, x.redirects <= MaxRedirects,
         UNCHANGED <<files, window, running, now>>
  PROVE  SpoolInv'
  <1>1. Sound(e) /\ files' \subseteq SpoolFile
    BY DEF SpoolInv, SpoolTypes
  <1>2. Own(e) = {} /\ exchange[e].decoded = 0 /\ ~exchange[e].offers
    BY <1>1 DEF Sound, FilesFitPhase
  <1>3. \A d \in Exchanges : Own(d)' = Own(d)
    BY DEF Own
  <1>4. ~(0 > Preview)
    BY SpoolConstants
  <1>5. BodyAgrees(e)'
    BY <1>1, <1>2, <1>3, <1>4 DEF Sound, BodyAgrees
  <1>6. FilesFitPhase(e)' /\ FitsWindow(e)'
    BY <1>1, <1>2, <1>3 DEF FilesFitPhase, FitsWindow
  <1>7. MethodKept(e)'
    BY <1>1 DEF MethodKept
  <1>8. Sound(e)'
    BY <1>5, <1>6, <1>7 DEF Sound
  <1> QED
    BY <1>1, <1>3, <1>8, OneExchange

LEMMA BeginExchangeStep ==
  ASSUME SpoolInv, NEW e \in Exchanges, NEW method \in Methods, BeginExchange(e, method)
  PROVE  SpoolInv'
  <1> DEFINE x == [exchange[e] EXCEPT !.phase = "sending", !.first = method, !.method = method]
  <1>1. exchange[e] \in Exchange /\ exchange[e].phase = "idle" /\ window = "open"
        /\ exchange[e].redirects <= MaxRedirects
    BY DEF BeginExchange, SpoolInv, SpoolTypes, Sound, MethodKept
  <1>2. /\ x \in Exchange /\ x.phase = "sending" /\ x.decoded = exchange[e].decoded
        /\ x.preview = exchange[e].preview /\ x.created = exchange[e].created
        /\ x.offers = exchange[e].offers /\ x.method = x.first
        /\ x.redirects = exchange[e].redirects
    BY <1>1 DEF Exchange, Phases
  <1>3. /\ exchange' \in [Exchanges -> Exchange] /\ exchange'[e] = x
        /\ \A d \in Exchanges \ {e} : exchange'[d] = exchange[d]
        /\ UNCHANGED <<files, window, running, now>>
    BY <1>2 DEF BeginExchange, SpoolInv, SpoolTypes
  <1> HIDE DEF x
  <1> QED
    BY <1>1, <1>2, <1>3, SendingStep

\* A redirect that changes the method drops the body, for good.
LEMMA RedirectStep ==
  ASSUME SpoolInv, NEW e \in Exchanges, NEW status \in {302, 303, 307}, Redirect(e, status)
  PROVE  SpoolInv'
  <1> DEFINE method == RedirectMethod(exchange[e].method, status)
             same == method = exchange[e].method
             x == [exchange[e] EXCEPT !.method = method, !.redirects = @ + 1, !.body = @ /\ same]
  <1>1. /\ exchange[e] \in Exchange /\ exchange[e].phase = "sending" /\ Sound(e)
        /\ exchange[e].redirects < MaxRedirects
    BY DEF Redirect, SpoolInv, SpoolTypes
  <1>2. exchange[e].phase \in Active
    BY <1>1 DEF Active
  <1>3. window # "gone" /\ (window = "closing" => e \in running)
    BY <1>2, ActiveIs
  <1>4. /\ exchange[e].redirects \in Nat /\ exchange[e].redirects + 1 \in Nat
        /\ exchange[e].redirects + 1 <= MaxRedirects
    BY <1>1, SpoolConstants DEF Exchange
  <1>5. method \in Methods
    BY <1>1 DEF RedirectMethod, Methods, Exchange
  <1>6. /\ x \in Exchange /\ x.phase = "sending" /\ x.decoded = exchange[e].decoded
        /\ x.preview = exchange[e].preview /\ x.created = exchange[e].created
        /\ x.offers = exchange[e].offers /\ x.method = method /\ x.first = exchange[e].first
        /\ x.redirects = exchange[e].redirects + 1
        /\ x.body => exchange[e].body /\ same
    BY <1>1, <1>4, <1>5 DEF Exchange
  <1>7. x.body => x.method = x.first
    BY <1>1, <1>6 DEF Sound, MethodKept
  <1>8. /\ exchange' \in [Exchanges -> Exchange] /\ exchange'[e] = x
        /\ \A d \in Exchanges \ {e} : exchange'[d] = exchange[d]
        /\ UNCHANGED <<files, window, running, now>>
    BY <1>6 DEF Redirect, SpoolInv, SpoolTypes
  <1> HIDE DEF x
  <1> QED
    BY <1>1, <1>3, <1>4, <1>6, <1>7, <1>8, SendingStep

-----------------------------------------------------------------------------
(* Receiving *)

\* A file that is written now.
LEMMA NewFile ==
  ASSUME SpoolInv, NEW e \in Exchanges, NEW kind \in {"encoded", "decoded"}, NEW bytes \in Nat
  PROVE  /\ File(e, kind, bytes) \in SpoolFile
         /\ File(e, kind, bytes).of = e /\ File(e, kind, bytes).kind = kind
         /\ File(e, kind, bytes).bytes = bytes /\ File(e, kind, bytes).modified = now
         /\ now \in Nat
  BY DEF File, SpoolFile, SpoolInv, SpoolTypes

\* The download begins, with an empty file if the body is encoded.
LEMMA ResponseHeadersStep ==
  ASSUME SpoolInv, NEW e \in Exchanges, NEW encoded \in {TRUE, FALSE}, ResponseHeaders(e, encoded)
  PROVE  SpoolInv'
  <1> DEFINE x == [NotBegun EXCEPT !.phase = "receiving", !.encoded = encoded, !.created = now,
                                   !.stopped = exchange[e].stopped]
             new == IF encoded THEN {File(e, "encoded", 0)} ELSE {}
  <1>1. /\ exchange[e] \in Exchange /\ exchange[e].phase = "sending" /\ Sound(e)
        /\ exchange[e].stopped \in BOOLEAN
    BY DEF ResponseHeaders, SpoolInv, SpoolTypes, Exchange
  <1>2. exchange[e].phase \in Active
    BY <1>1 DEF Active
  <1>3. window # "gone" /\ (window = "closing" => e \in running)
    BY <1>2, ActiveIs
  <1>4. now \in Nat
    BY DEF SpoolInv, SpoolTypes
  <1>5. /\ x \in Exchange /\ x.phase = "receiving" /\ x.decoded = 0 /\ x.preview = 0
        /\ x.created = now /\ ~x.offers /\ x.redirects = 0
    BY <1>1, <1>4 DEF NotBegun, Exchange, Phases, Methods
  <1>6. /\ exchange' \in [Exchanges -> Exchange] /\ exchange'[e] = x
        /\ \A d \in Exchanges \ {e} : exchange'[d] = exchange[d]
        /\ UNCHANGED <<window, running, now>>
        /\ files' = files \union new
    BY <1>5 DEF ResponseHeaders, SpoolInv, SpoolTypes
  <1>7. new \subseteq SpoolFile /\ \A f \in new : f.of = e /\ f.kind = "encoded" /\ f.modified = now
    BY NewFile
  <1>8. \A f, g \in new : f = g
    OBVIOUS
  <1> HIDE DEF x, new
  <1>9. Own(e) = {}
    BY <1>1 DEF Sound, FilesFitPhase
  <1>10. Own(e)' = new /\ \A d \in Exchanges \ {e} : Own(d)' = Own(d)
    BY <1>6, <1>7, <1>9 DEF Own
  <1>11. exchange'[e] = x
    BY <1>6
  <1>12. BodyAgrees(e)'
    <2>1. 0 <= Limit /\ ~(0 > Preview) /\ (0 = IF 0 < Preview THEN 0 ELSE Preview) /\ now <= now
      BY SpoolConstants, <1>4
    <2> QED
      BY <1>5, <1>6, <1>7, <1>10, <1>11, <2>1 DEF BodyAgrees
  <1>13. FilesFitPhase(e)'
    BY <1>5, <1>8, <1>10, <1>11 DEF FilesFitPhase
  <1>14. FitsWindow(e)' /\ MethodKept(e)'
    BY <1>3, <1>5, <1>6, <1>11, SpoolConstants DEF FitsWindow, MethodKept
  <1>15. Sound(e)'
    BY <1>12, <1>13, <1>14 DEF Sound
  <1>16. files' \subseteq SpoolFile
    BY <1>6, <1>7 DEF SpoolInv, SpoolTypes
  <1> QED
    BY <1>5, <1>6, <1>10, <1>15, <1>16, OneExchange

\* Arithmetic of a body that grows by a chunk.
LEMMA Growing ==
  ASSUME NEW decoded \in Nat, NEW n \in Nat \ {0}, NEW preview \in Nat,
         preview = IF decoded < Preview THEN decoded ELSE Preview
  PROVE  /\ decoded + n \in Nat /\ preview + n \in Nat
         /\ decoded > Preview => decoded + n > Preview
         /\ ~(decoded > Preview) => preview = decoded
         /\ ~(decoded + n > Limit) => decoded + n <= Limit
         /\ (IF decoded + n < Preview THEN decoded + n ELSE Preview) \in Nat
  BY SpoolConstants

\* What a chunk leaves of the file.
Unlinked(e) == exchange[e].decoded > Preview /\ Of(e, "decoded") = {}
AfterChunk(e, n) == IF Unlinked(e) THEN {} ELSE SpoolBytes(e, n)

\* The file after a chunk has all bytes so far, and there is one while the window
\* is open if they are more than the preview takes.
LEMMA FileAfterChunk ==
  ASSUME SpoolInv, NEW e \in Exchanges, NEW n \in Chunks,
         exchange[e].phase \in {"receiving", "decoding"}
  PROVE  /\ exchange[e].decoded + n \in Nat
         /\ \A f \in AfterChunk(e, n) :
              /\ f \in SpoolFile /\ f.of = e /\ f.kind = "decoded" /\ f.modified = now
              /\ f.bytes = exchange[e].decoded + n /\ exchange[e].decoded + n > Preview
         /\ \A f, g \in AfterChunk(e, n) : f = g
         /\ window = "open" /\ exchange[e].decoded + n > Preview => AfterChunk(e, n) # {}
  <1> DEFINE x == exchange[e]
             next == x.decoded + n
             new == AfterChunk(e, n)
  <1>1. x \in Exchange /\ Sound(e) /\ x.phase \in Active /\ x.phase # "killed"
    BY DEF SpoolInv, SpoolTypes, Active
  <1>2. /\ x.decoded \in Nat /\ x.preview \in Nat /\ n \in Nat \ {0}
        /\ x.preview = IF x.decoded < Preview THEN x.decoded ELSE Preview
    BY <1>1, SpoolConstants DEF Exchange, Sound, BodyAgrees
  <1>3. /\ next \in Nat /\ x.preview + n \in Nat
        /\ x.decoded > Preview => next > Preview
        /\ ~(x.decoded > Preview) => x.preview = x.decoded
    BY <1>2, Growing
  <1>4. \A f \in Of(e, "decoded") : f.bytes = x.decoded /\ x.decoded > Preview
    BY <1>1 DEF Of, Own, Sound, BodyAgrees
  <1>5. CASE Of(e, "decoded") # {}
    <2>1. new = {File(e, "decoded", f.bytes + n) : f \in Of(e, "decoded")}
      BY <1>5 DEF SpoolBytes, AfterChunk, Unlinked
    <2>2. new = {File(e, "decoded", next)} /\ x.decoded > Preview
      BY <1>4, <1>5, <2>1
    <2> QED
      BY <1>3, <2>2, NewFile
  <1>6. CASE Of(e, "decoded") = {} /\ x.decoded > Preview
    <2>1. new = {}
      BY <1>6 DEF AfterChunk, Unlinked
    <2>2. window # "open"
      BY <1>1, <1>6 DEF Sound, BodyAgrees, Of, Own
    <2> QED
      BY <1>3, <2>1, <2>2
  <1>7. CASE Of(e, "decoded") = {} /\ ~(x.decoded > Preview)
    <2>1. new = IF next > Preview THEN {File(e, "decoded", next)} ELSE {}
      BY <1>3, <1>7 DEF SpoolBytes, AfterChunk, Unlinked
    <2> QED
      BY <1>3, <2>1, NewFile
  <1> QED
    BY <1>5, <1>6, <1>7

\* A chunk of the body is collected.
LEMMA PushStep ==
  ASSUME SpoolInv, NEW e \in Exchanges, NEW n \in Chunks,
         exchange[e].phase \in {"receiving", "decoding"}, Push(e, n),
         UNCHANGED <<window, running, now>>
  PROVE  SpoolInv'
  <1> DEFINE next == exchange[e].decoded + n
             new == AfterChunk(e, n)
             shown == IF next < Preview THEN next ELSE Preview
             x == [exchange[e] EXCEPT !.decoded = next, !.preview = shown]
  <1>1. exchange[e] \in Exchange /\ Sound(e) /\ exchange[e].phase \in Active /\ ~exchange[e].offers
        /\ window # "gone" /\ (window = "closing" => e \in running)
    BY ActiveIs DEF Active
  <1>2. CASE next > Limit
    BY <1>1, <1>2, EndsWithStep DEF Push
  <1>3. CASE ~(next > Limit)
    <2>1. /\ next \in Nat
          /\ \A f \in new : /\ f \in SpoolFile /\ f.of = e /\ f.kind = "decoded" /\ f.modified = now
                           /\ f.bytes = next /\ next > Preview
          /\ \A f, g \in new : f = g
          /\ window = "open" /\ next > Preview => new # {}
      BY FileAfterChunk
    <2>2. next <= Limit /\ shown \in Nat /\ now \in Nat
      BY <1>3, <2>1, SpoolConstants DEF SpoolInv, SpoolTypes
    <2>3. /\ x \in Exchange /\ x.phase = exchange[e].phase /\ x.decoded = next /\ x.preview = shown
          /\ x.created = exchange[e].created /\ x.offers = exchange[e].offers
          /\ x.redirects = exchange[e].redirects
      BY <1>1, <2>1, <2>2 DEF Exchange
    <2>4. /\ exchange' \in [Exchanges -> Exchange] /\ exchange'[e] = x
          /\ \A d \in Exchanges \ {e} : exchange'[d] = exchange[d]
      BY <1>3, <2>3 DEF Push, SpoolInv, SpoolTypes
    <2>5. files' = (files \ Of(e, "decoded")) \union new
      BY <1>3 DEF Push, AfterChunk, Unlinked
    <2>6. shown = IF next < Preview THEN next ELSE Preview
      OBVIOUS
    <2> HIDE DEF x, new, next, shown
    <2>7. /\ Own(e)' = (Own(e) \ Of(e, "decoded")) \union new
          /\ \A d \in Exchanges \ {e} : Own(d)' = Own(d)
      BY <2>1, <2>5 DEF Own, Of
    <2>8. \A f \in Own(e)' : f \in new \/ (f \in Own(e) /\ f.kind # "decoded")
      BY <2>7 DEF Own, Of
    <2>9. exchange[e].phase \notin {"idle", "sending", "failed", "cancelled", "completed", "killed"}
      BY DEF Active
    <2>10. BodyAgrees(e)'
      <3>1. x.created <= now /\ \A f \in Own(e) : f.modified <= now
        BY <1>1, <2>3 DEF Sound, BodyAgrees
      <3>2. \A f \in Own(e)' :
              /\ f.modified <= now
              /\ f.kind = "decoded" => f.bytes = next /\ next > Preview /\ f.modified >= x.created
        <4> SUFFICES ASSUME NEW f \in Own(e)'
                     PROVE  /\ f.modified <= now
                            /\ f.kind = "decoded" => f.bytes = next /\ next > Preview /\ f.modified >= x.created
          OBVIOUS
        <4>1. x.created \in Nat /\ now <= now /\ now >= x.created
          BY <2>2, <2>3, <3>1 DEF Exchange
        <4>2. CASE f \in new
          BY <2>1, <4>1, <4>2
        <4>3. CASE f \in Own(e) /\ f.kind # "decoded"
          BY <3>1, <4>3
        <4> QED
          BY <2>8, <4>2, <4>3
      <3>3. window = "open" /\ next > Preview => \E f \in Own(e)' : f.kind = "decoded"
        BY <2>1, <2>7
      <3> QED
        BY <2>2, <2>3, <2>4, <2>6, <3>1, <3>2, <3>3 DEF BodyAgrees
    <2>11. FilesFitPhase(e)'
      <3>1. \A f, g \in Own(e) : f.kind = g.kind => f = g
        BY <1>1 DEF Sound, FilesFitPhase
      <3>2. \A f, g \in Own(e)' : f.kind = g.kind => f = g
        BY <2>1, <2>8, <3>1
      <3> QED
        BY <1>1, <2>3, <2>4, <2>9, <3>2 DEF FilesFitPhase
    <2>12. FitsWindow(e)' /\ MethodKept(e)'
      BY <1>1, <2>3, <2>4, <2>9 DEF Sound, FitsWindow, MethodKept
    <2>13. Sound(e)'
      BY <2>10, <2>11, <2>12 DEF Sound
    <2>14. files' \subseteq SpoolFile
      BY <2>1, <2>5 DEF SpoolInv, SpoolTypes
    <2> QED
      BY <2>4, <2>7, <2>13, <2>14, OneExchange
  <1> QED
    BY <1>2, <1>3

\* A chunk of an encoded body goes to the encoded file, of which nothing but the
\* time changes.
LEMMA ReceiveStep ==
  ASSUME SpoolInv, NEW e \in Exchanges, NEW n \in Chunks, Receive(e, n)
  PROVE  SpoolInv'
  <1>1. exchange[e].phase = "receiving" /\ UNCHANGED <<window, running, now>>
    BY DEF Receive
  <1>2. CASE ~exchange[e].encoded
    BY <1>1, <1>2, PushStep DEF Receive
  <1>3. CASE exchange[e].encoded
    <2> DEFINE new == {File(e, "encoded", f.bytes) : f \in Of(e, "encoded")}
    <2>1. /\ exchange[e] \in Exchange /\ Sound(e) /\ files \subseteq SpoolFile /\ now \in Nat
          /\ exchange \in [Exchanges -> Exchange]
      BY DEF SpoolInv, SpoolTypes
    <2>2. exchange' = exchange /\ files' = (files \ Of(e, "encoded")) \union new
      BY <1>3 DEF Receive
    <2>3. \A f \in Of(e, "encoded") : f \in Own(e) /\ f.bytes \in Nat
      BY <2>1 DEF Of, Own, SpoolFile
    <2>4. \A f \in new : /\ f \in SpoolFile /\ f.of = e /\ f.kind = "encoded" /\ f.modified = now
      BY <2>3, NewFile
    <2>5. \A f, g \in Own(e) : f.kind = g.kind => f = g
      BY <2>1 DEF Sound, FilesFitPhase
    <2>6. \A f, g \in Of(e, "encoded") : f = g
      BY <2>3, <2>5 DEF Of
    <2>7. \A f, g \in new : f = g
      BY <2>6
    <2>8. Own(e) = {} => new = {}
      BY <2>3
    <2> HIDE DEF new
    <2>9. /\ Own(e)' = (Own(e) \ Of(e, "encoded")) \union new
          /\ \A d \in Exchanges \ {e} : Own(d)' = Own(d)
      BY <2>2, <2>4 DEF Own, Of
    <2>10. \A f \in Own(e)' : f \in new \/ (f \in Own(e) /\ f.kind # "encoded")
      BY <2>9 DEF Own, Of
    <2>11. \A f \in Own(e) : f.kind = "decoded" => f \in Own(e)'
      BY <2>9 DEF Of
    <2>12. BodyAgrees(e)'
      <3>1. now <= now
        BY <2>1
      <3>2. \A f \in Own(e)' :
              /\ f.modified <= now
              /\ f.kind = "decoded" /\ exchange[e].phase # "killed" =>
                   /\ f.bytes = exchange[e].decoded /\ exchange[e].decoded > Preview
                   /\ f.modified >= exchange[e].created
        BY <2>1, <2>4, <2>10, <3>1 DEF Sound, BodyAgrees
      <3> QED
        BY <1>1, <2>1, <2>2, <2>11, <3>2 DEF Sound, BodyAgrees
    <2>13. FilesFitPhase(e)'
      <3>1. \A f, g \in Own(e)' : f.kind = g.kind => f = g
        BY <2>4, <2>5, <2>7, <2>10
      <3> QED
        BY <1>1, <2>1, <2>2, <3>1 DEF Sound, FilesFitPhase
    <2>14. FitsWindow(e)' /\ MethodKept(e)'
      BY <1>1, <2>1, <2>2 DEF Sound, FitsWindow, MethodKept, Active
    <2>15. Sound(e)'
      BY <2>12, <2>13, <2>14 DEF Sound
    <2>16. files' \subseteq SpoolFile
      BY <2>1, <2>2, <2>4
    <2> QED
      BY <1>1, <2>1, <2>2, <2>9, <2>15, <2>16, OneExchange
  <1> QED
    BY <1>2, <1>3

-----------------------------------------------------------------------------
(* Ends *)

\* A step of an active execution that leaves the body as it is.
LEMMA SameBody ==
  ASSUME SpoolInv, NEW e \in Exchanges, exchange[e].phase \in Active, NEW x \in Exchange,
         exchange' \in [Exchanges -> Exchange], exchange'[e] = x,
         \A d \in Exchanges \ {e} : exchange'[d] = exchange[d],
         x.phase = exchange[e].phase \/ (x.phase = "decoding" /\ exchange[e].phase = "receiving"),
         x.decoded = exchange[e].decoded, x.preview = exchange[e].preview,
         x.created = exchange[e].created, x.offers = exchange[e].offers,
         x.method = exchange[e].method, x.first = exchange[e].first, x.body = exchange[e].body,
         x.redirects = exchange[e].redirects,
         UNCHANGED <<files, window, running, now>>
  PROVE  SpoolInv'
  <1>1. Sound(e) /\ ~exchange[e].offers /\ window # "gone" /\ (window = "closing" => e \in running)
        /\ files' \subseteq SpoolFile
    BY ActiveIs DEF SpoolInv, SpoolTypes
  <1>2. \A d \in Exchanges : Own(d)' = Own(d)
    BY DEF Own
  <1>3. BodyAgrees(e)'
    BY <1>1, <1>2 DEF Sound, BodyAgrees, Active
  <1>4. FilesFitPhase(e)'
    BY <1>1, <1>2 DEF Sound, FilesFitPhase, Active
  <1>5. FitsWindow(e)' /\ MethodKept(e)'
    BY <1>1 DEF Sound, FitsWindow, MethodKept
  <1>6. Sound(e)'
    BY <1>3, <1>4, <1>5 DEF Sound
  <1> QED
    BY <1>1, <1>2, <1>6, OneExchange

\* The result offers the file if there is more than the preview has; the encoded
\* file goes.
LEMMA FinishStep ==
  ASSUME SpoolInv, NEW e \in Exchanges, exchange[e].phase \in {"receiving", "decoding"}, Finish(e),
         UNCHANGED <<window, running, now>>
  PROVE  SpoolInv'
  <1> DEFINE more == exchange[e].decoded > Preview
             x == [exchange[e] EXCEPT !.phase = "completed", !.offers = more]
  <1>1. exchange[e] \in Exchange /\ Sound(e) /\ exchange[e].phase \in Active
        /\ window # "gone" /\ (window = "closing" => e \in running)
        /\ files \subseteq SpoolFile
    BY ActiveIs DEF Active, SpoolInv, SpoolTypes
  <1>2. /\ x \in Exchange /\ x.phase = "completed" /\ x.decoded = exchange[e].decoded
        /\ x.preview = exchange[e].preview /\ x.created = exchange[e].created
        /\ x.redirects = exchange[e].redirects
    <2>1. more \in BOOLEAN
      OBVIOUS
    <2> HIDE DEF more
    <2> QED
      BY <1>1, <2>1 DEF Exchange, Phases
  <1>3. x.offers <=> more
    BY <1>1 DEF Exchange
  <1>4. /\ exchange' \in [Exchanges -> Exchange] /\ exchange'[e] = x
        /\ \A d \in Exchanges \ {e} : exchange'[d] = exchange[d]
    BY <1>2 DEF Finish, SpoolInv, SpoolTypes
  <1>5. files' = files \ Of(e, "encoded")
    BY DEF Finish
  <1> HIDE DEF x
  <1>6. /\ Own(e)' = Own(e) \ Of(e, "encoded")
        /\ \A d \in Exchanges \ {e} : Own(d)' = Own(d)
    BY <1>5 DEF Own, Of
  <1>7. \A f \in Own(e)' : f \in Own(e) /\ f.kind = "decoded"
    BY <1>1, <1>6 DEF Own, Of, SpoolFile
  <1>8. \A f \in Own(e) : f.kind = "decoded" => f \in Own(e)'
    BY <1>6 DEF Of
  <1>9. exchange[e].phase # "killed"
    OBVIOUS
  <1>10. BodyAgrees(e)'
    BY <1>1, <1>2, <1>4, <1>7, <1>8, <1>9 DEF Sound, BodyAgrees
  <1>11. \A f \in Own(e)' : x.offers /\ f.kind = "decoded"
    BY <1>1, <1>3, <1>7, <1>9 DEF Sound, BodyAgrees
  <1>12. FilesFitPhase(e)'
    BY <1>1, <1>2, <1>3, <1>4, <1>7, <1>11 DEF Sound, FilesFitPhase
  <1>13. FitsWindow(e)' /\ MethodKept(e)'
    BY <1>1, <1>2, <1>4 DEF Sound, FitsWindow, MethodKept
  <1>14. Sound(e)'
    BY <1>10, <1>12, <1>13 DEF Sound
  <1> QED
    BY <1>1, <1>4, <1>5, <1>6, <1>14, OneExchange

LEMMA EndOfBodyStep ==
  ASSUME SpoolInv, NEW e \in Exchanges, EndOfBody(e)
  PROVE  SpoolInv'
  <1>1. exchange[e].phase = "receiving" /\ exchange[e] \in Exchange
        /\ UNCHANGED <<window, running, now>>
    BY DEF EndOfBody, SpoolInv, SpoolTypes
  <1>2. CASE Finish(e)
    BY <1>1, <1>2, FinishStep
  <1>3. CASE EndsWith(e, "failed")
    BY <1>1, <1>3, EndsWithStep DEF Active
  <1>4. CASE exchange' = [exchange EXCEPT ![e].phase = "decoding"] /\ UNCHANGED files
    <2> DEFINE x == [exchange[e] EXCEPT !.phase = "decoding"]
    <2>1. /\ x \in Exchange /\ x.phase = "decoding" /\ x.decoded = exchange[e].decoded
          /\ x.preview = exchange[e].preview /\ x.created = exchange[e].created
          /\ x.offers = exchange[e].offers /\ x.method = exchange[e].method
          /\ x.first = exchange[e].first /\ x.body = exchange[e].body
          /\ x.redirects = exchange[e].redirects
      BY <1>1 DEF Exchange, Phases
    <2>2. /\ exchange' \in [Exchanges -> Exchange] /\ exchange'[e] = x
          /\ \A d \in Exchanges \ {e} : exchange'[d] = exchange[d]
      BY <1>4, <2>1 DEF SpoolInv, SpoolTypes
    <2>3. exchange[e].phase \in Active
      BY <1>1 DEF Active
    <2> HIDE DEF x
    <2> QED
      BY <1>1, <1>4, <2>1, <2>2, <2>3, SameBody
  <1> QED
    BY <1>2, <1>3, <1>4 DEF EndOfBody

LEMMA DecodeStep ==
  ASSUME SpoolInv, NEW e \in Exchanges, Decode(e)
  PROVE  SpoolInv'
  BY PushStep, FinishStep DEF Decode

LEMMA FailStep ==
  ASSUME SpoolInv, NEW e \in Exchanges, Fail(e) \/ NoticeStop(e)
  PROVE  SpoolInv'
  BY EndsWithStep DEF Fail, NoticeStop, Active

LEMMA StopExchangeStep ==
  ASSUME SpoolInv, NEW e \in Exchanges, StopExchange(e)
  PROVE  SpoolInv'
  <1> DEFINE x == [exchange[e] EXCEPT !.stopped = TRUE]
  <1>1. exchange[e].phase \in Active /\ exchange[e] \in Exchange
        /\ UNCHANGED <<files, window, running, now>>
    BY DEF StopExchange, SpoolInv, SpoolTypes
  <1>2. /\ x \in Exchange /\ x.phase = exchange[e].phase /\ x.decoded = exchange[e].decoded
        /\ x.preview = exchange[e].preview /\ x.created = exchange[e].created
        /\ x.offers = exchange[e].offers /\ x.method = exchange[e].method
        /\ x.first = exchange[e].first /\ x.body = exchange[e].body
        /\ x.redirects = exchange[e].redirects
    BY <1>1 DEF Exchange
  <1>3. /\ exchange' \in [Exchanges -> Exchange] /\ exchange'[e] = x
        /\ \A d \in Exchanges \ {e} : exchange'[d] = exchange[d]
    BY <1>2 DEF StopExchange, SpoolInv, SpoolTypes
  <1> HIDE DEF x
  <1> QED
    BY <1>1, <1>2, <1>3, SameBody

-----------------------------------------------------------------------------
(* The window, the process and the clock *)

\* A closing window stops what is active, and what it cannot remove stays.
LEMMA CloseWindowStep ==
  ASSUME SpoolInv, CloseWindow
  PROVE  SpoolInv'
  <1>1. PICK kept \in SUBSET files : files' = (files \ files) \union kept /\ running' = StillRuns(kept)
    BY DEF CloseWindow, Clean
  <1>2. window' = "closing" /\ now' = now /\ window = "open" /\ files' = kept
    BY <1>1 DEF CloseWindow
  <1>3. ASSUME NEW d \in Exchanges
        PROVE  /\ exchange'[d] \in Exchange /\ exchange'[d].phase = exchange[d].phase
               /\ exchange'[d].decoded = exchange[d].decoded /\ exchange'[d].preview = exchange[d].preview
               /\ exchange'[d].created = exchange[d].created /\ exchange'[d].offers = exchange[d].offers
               /\ exchange'[d].method = exchange[d].method /\ exchange'[d].first = exchange[d].first
               /\ exchange'[d].body = exchange[d].body /\ exchange'[d].redirects = exchange[d].redirects
    <2>1. exchange[d] \in Exchange
      BY DEF SpoolInv, SpoolTypes
    <2>2. PICK stop \in BOOLEAN : exchange'[d] = [exchange[d] EXCEPT !.stopped = stop]
      BY <2>1 DEF CloseWindow, StopAll
    <2> QED
      BY <2>1, <2>2 DEF Exchange
  <1>4. SpoolTypes'
    <2>1. exchange' \in [Exchanges -> Exchange]
      BY <1>3 DEF CloseWindow, StopAll
    <2>2. running' \subseteq Exchanges
      BY <1>1 DEF StillRuns
    <2> QED
      BY <1>2, <2>1, <2>2 DEF SpoolInv, SpoolTypes
  <1>5. ASSUME NEW d \in Exchanges PROVE Sound(d)'
    <2>1. Sound(d) /\ \A f \in Own(d)' : f \in Own(d) /\ f \in kept /\ f.of = d
      BY <1>2 DEF SpoolInv, Own
    <2>2. BodyAgrees(d)'
      BY <1>2, <1>3, <2>1 DEF Sound, BodyAgrees
    <2>3. FilesFitPhase(d)'
      BY <1>3, <2>1 DEF Sound, FilesFitPhase
    <2>4. FitsWindow(d)'
      BY <1>1, <1>2, <1>3, <2>1 DEF FitsWindow, StillRuns
    <2>5. MethodKept(d)'
      BY <1>3, <2>1 DEF Sound, MethodKept
    <2> QED
      BY <2>2, <2>3, <2>4, <2>5 DEF Sound
  <1> QED
    BY <1>4, <1>5 DEF SpoolInv

\* When the process has ended, nothing of an execution is left but its files.
LEMMA EndProcessStep ==
  ASSUME SpoolInv, EndProcess
  PROVE  SpoolInv'
  <1>1. window' = "gone" /\ UNCHANGED <<files, running, now>>
    BY DEF EndProcess
  <1>2. ASSUME NEW d \in Exchanges
        PROVE  /\ exchange'[d] \in Exchange
               /\ \/ exchange'[d] = exchange[d] /\ exchange[d].phase = "idle"
                  \/ /\ exchange'[d].phase = "killed" /\ exchange'[d].decoded = 0
                     /\ exchange'[d].preview = 0 /\ exchange'[d].created = 0
                     /\ exchange'[d].redirects = 0 /\ ~exchange'[d].offers
    <2>1. exchange[d] \in Exchange
      BY DEF SpoolInv, SpoolTypes
    <2>2. exchange'[d] = IF exchange[d].phase = "idle" THEN exchange[d]
                         ELSE [NotBegun EXCEPT !.phase = "killed"]
      BY DEF EndProcess
    <2>3. CASE exchange[d].phase = "idle"
      BY <2>1, <2>2, <2>3
    <2>4. CASE exchange[d].phase # "idle"
      <3>1. exchange'[d] = [NotBegun EXCEPT !.phase = "killed"]
        BY <2>2, <2>4
      <3> QED
        BY <3>1, NotBegunIs DEF Exchange, Phases
    <2> QED
      BY <2>3, <2>4
  <1>3. SpoolTypes'
    <2>1. exchange' \in [Exchanges -> Exchange]
      BY <1>2 DEF EndProcess
    <2> QED
      BY <1>1, <2>1 DEF SpoolInv, SpoolTypes
  <1>4. \A d \in Exchanges : Own(d)' = Own(d)
    BY <1>1 DEF Own
  <1>5. now \in Nat /\ 0 <= now /\ 0 <= Limit /\ 0 <= MaxRedirects
        /\ (0 = IF 0 < Preview THEN 0 ELSE Preview)
    BY SpoolConstants DEF SpoolInv, SpoolTypes
  <1>6. ASSUME NEW d \in Exchanges PROVE Sound(d)'
    <2>1. Sound(d)
      BY DEF SpoolInv
    <2>2. BodyAgrees(d)'
      BY <1>1, <1>2, <1>4, <1>5, <2>1 DEF Sound, BodyAgrees
    <2>3. FilesFitPhase(d)'
      BY <1>2, <1>4, <2>1 DEF Sound, FilesFitPhase
    <2>4. FitsWindow(d)' /\ MethodKept(d)'
      BY <1>1, <1>2, <1>5, <2>1 DEF Sound, FitsWindow, MethodKept
    <2> QED
      BY <2>2, <2>3, <2>4 DEF Sound
  <1> QED
    BY <1>3, <1>6 DEF SpoolInv

\* A program that starts finds no execution under way.
LEMMA OpenWindowStep ==
  ASSUME SpoolInv, OpenWindow
  PROVE  SpoolInv'
  <1>1. window = "gone" /\ window' = "open" /\ running' = {} /\ UNCHANGED <<exchange, now>>
        /\ files' \subseteq files
    BY DEF OpenWindow, Clean, Expired
  <1>2. SpoolTypes'
    BY <1>1 DEF SpoolInv, SpoolTypes
  <1>3. ASSUME NEW d \in Exchanges PROVE Sound(d)'
    <2>1. Sound(d) /\ Own(d)' \subseteq Own(d)
      BY <1>1 DEF SpoolInv, Own
    <2>2. exchange[d].phase \notin Active \union {"completed"}
      BY <1>1, <2>1 DEF Sound, FitsWindow, Active
    <2>3. BodyAgrees(d)'
      BY <1>1, <2>1, <2>2 DEF Sound, BodyAgrees
    <2>4. FilesFitPhase(d)'
      BY <1>1, <2>1 DEF Sound, FilesFitPhase
    <2>5. FitsWindow(d)' /\ MethodKept(d)'
      BY <1>1, <2>1 DEF Sound, FitsWindow, MethodKept
    <2> QED
      BY <2>3, <2>4, <2>5 DEF Sound
  <1> QED
    BY <1>2, <1>3 DEF SpoolInv

LEMMA SpoolTickStep ==
  ASSUME SpoolInv, SpoolTick
  PROVE  SpoolInv'
  <1>1. now' = now + 1 /\ now \in Nat /\ UNCHANGED <<exchange, files, window, running>>
    BY DEF SpoolTick, SpoolInv, SpoolTypes
  <1>2. SpoolTypes'
    BY <1>1 DEF SpoolInv, SpoolTypes
  <1>3. \A t \in Nat : t <= now => t <= now'
    BY <1>1
  <1>4. ASSUME NEW d \in Exchanges PROVE Sound(d)'
    <2>1. Sound(d) /\ Own(d)' = Own(d) /\ exchange[d] \in Exchange
      BY <1>1 DEF SpoolInv, SpoolTypes, Own
    <2>2. exchange[d].created \in Nat /\ \A f \in Own(d) : f.modified \in Nat
      BY <2>1 DEF Exchange, SpoolInv, SpoolTypes, SpoolFile, Own
    <2>3. BodyAgrees(d)'
      BY <1>1, <1>3, <2>1, <2>2 DEF Sound, BodyAgrees
    <2>4. FilesFitPhase(d)' /\ FitsWindow(d)' /\ MethodKept(d)'
      BY <1>1, <2>1 DEF Sound, FilesFitPhase, FitsWindow, MethodKept
    <2> QED
      BY <2>3, <2>4 DEF Sound
  <1> QED
    BY <1>2, <1>4 DEF SpoolInv

-----------------------------------------------------------------------------
(* The theorem *)

LEMMA SpoolInitInv == SpoolInit => SpoolInv
  <1> SUFFICES ASSUME SpoolInit PROVE SpoolInv
    OBVIOUS
  <1>1. /\ exchange = [e \in Exchanges |-> NotBegun]
        /\ files = {} /\ window = "open" /\ running = {} /\ now = 0
    BY DEF SpoolInit
  <1>2. SpoolTypes
    BY <1>1, NotBegunIs DEF SpoolTypes
  <1>3. \A e \in Exchanges : Own(e) = {} /\ exchange[e] = NotBegun
    BY <1>1 DEF Own
  <1>4. NotBegun.phase = "idle"
    BY DEF NotBegun
  <1>5. ASSUME NEW e \in Exchanges PROVE Sound(e)
    <2>1. 0 <= Limit /\ 0 <= 0 /\ 0 <= MaxRedirects /\ (0 = IF 0 < Preview THEN 0 ELSE Preview)
      BY SpoolConstants
    <2>2. BodyAgrees(e)
      BY <1>1, <1>3, <1>4, <2>1, NotBegunIs DEF BodyAgrees, Active
    <2>3. FilesFitPhase(e) /\ FitsWindow(e) /\ MethodKept(e)
      BY <1>1, <1>3, <1>4, <2>1, NotBegunIs DEF FilesFitPhase, FitsWindow, MethodKept
    <2> QED
      BY <2>2, <2>3 DEF Sound
  <1> QED
    BY <1>2, <1>5 DEF SpoolInv

\* Every step keeps the invariant.
LEMMA SpoolNextInv ==
  ASSUME SpoolInv, [SpoolNext]_spoolVars
  PROVE  SpoolInv'
  <1>1. ASSUME NEW e \in Exchanges, NEW method \in Methods, BeginExchange(e, method) PROVE SpoolInv'
    BY <1>1, BeginExchangeStep
  <1>2. ASSUME NEW e \in Exchanges, NEW status \in {302, 303, 307}, Redirect(e, status) PROVE SpoolInv'
    BY <1>2, RedirectStep
  <1>3. ASSUME NEW e \in Exchanges, NEW encoded \in BOOLEAN, ResponseHeaders(e, encoded) PROVE SpoolInv'
    BY <1>3, ResponseHeadersStep
  <1>4. ASSUME NEW e \in Exchanges, NEW n \in Chunks, Receive(e, n) PROVE SpoolInv'
    BY <1>4, ReceiveStep
  <1>5. ASSUME NEW e \in Exchanges, EndOfBody(e) PROVE SpoolInv'
    BY <1>5, EndOfBodyStep
  <1>6. ASSUME NEW e \in Exchanges, Decode(e) PROVE SpoolInv'
    BY <1>6, DecodeStep
  <1>7. ASSUME NEW e \in Exchanges, Fail(e) \/ NoticeStop(e) PROVE SpoolInv'
    BY <1>7, FailStep
  <1>8. ASSUME NEW e \in Exchanges, StopExchange(e) PROVE SpoolInv'
    BY <1>8, StopExchangeStep
  <1>9. CASE CloseWindow \/ EndProcess \/ OpenWindow \/ SpoolTick
    BY <1>9, CloseWindowStep, EndProcessStep, OpenWindowStep, SpoolTickStep
  <1>10. CASE UNCHANGED spoolVars
    <2>1. UNCHANGED <<exchange, files, window, running, now>>
      BY <1>10 DEF spoolVars
    <2> QED
      BY <2>1 DEF SpoolInv, SpoolTypes, Sound, BodyAgrees, FilesFitPhase, FitsWindow, MethodKept, Own
  <1> QED
    BY <1>1, <1>2, <1>3, <1>4, <1>5, <1>6, <1>7, <1>8, <1>9, <1>10 DEF SpoolNext

\* It gives what the files promise.
LEMMA InvGivesSpool == SpoolInv => SpoolCorrect
  <1> SUFFICES ASSUME SpoolInv PROVE SpoolCorrect
    OBVIOUS
  <1>1. \A f \in files : f.of \in Exchanges /\ f \in Own(f.of) /\ f.kind \in {"encoded", "decoded"}
                       /\ f.modified \in Nat
    BY DEF SpoolInv, SpoolTypes, SpoolFile, Own
  <1>2. SpoolTypeOK
    <2>1. ASSUME NEW f \in files, NEW g \in files, f.of = g.of, f.kind = g.kind PROVE f = g
      <3>1. f \in Own(f.of) /\ g \in Own(f.of) /\ Sound(f.of)
        BY <1>1, <2>1 DEF SpoolInv
      <3> QED
        BY <2>1, <3>1 DEF Sound, FilesFitPhase
    <2> QED
      BY <2>1 DEF SpoolTypeOK, SpoolInv, SpoolTypes
  <1>3. PreviewAndFileAgree
    BY DEF PreviewAndFileAgree, SpoolInv, Sound, BodyAgrees, Own, Of
  <1>4. OfferedFilesCanBeSaved
    <2> SUFFICES ASSUME NEW e \in Exchanges, exchange[e].offers, window = "open",
                        now < exchange[e].created + FileLife
                 PROVE  \E f \in Of(e, "decoded") : now - f.modified < FileLife
      BY DEF OfferedFilesCanBeSaved, CanSave
    <2>1. exchange[e].phase = "completed" /\ exchange[e].decoded > Preview
      BY DEF SpoolInv, Sound, FilesFitPhase
    <2>2. PICK f \in Own(e) : f.kind = "decoded"
      BY <2>1 DEF SpoolInv, Sound, BodyAgrees
    <2>3. f \in Of(e, "decoded") /\ f.modified >= exchange[e].created /\ f.modified \in Nat
      BY <1>1, <2>1, <2>2 DEF SpoolInv, Sound, BodyAgrees, Own, Of
    <2>4. now \in Nat /\ exchange[e].created \in Nat /\ FileLife \in Nat
      BY SpoolConstants DEF SpoolInv, SpoolTypes, Exchange
    <2>5. now - f.modified < FileLife
      BY <2>3, <2>4
    <2> QED
      BY <2>3, <2>5
  <1>5. OnlyResultsStay
    <2> SUFFICES ASSUME NEW f \in files
                 PROVE  \/ exchange[f.of].phase \in Active \union {"killed"}
                        \/ exchange[f.of].phase = "completed" /\ exchange[f.of].offers /\ f.kind = "decoded"
      BY DEF OnlyResultsStay
    <2>1. f.of \in Exchanges /\ f \in Own(f.of) /\ Sound(f.of) /\ exchange[f.of].phase \in Phases
      BY <1>1 DEF SpoolInv, SpoolTypes, Exchange
    <2> QED
      BY <2>1 DEF Sound, FilesFitPhase, Phases, Active
  <1>6. CloseLeavesOnlyTheRunning
    BY <1>1 DEF CloseLeavesOnlyTheRunning, SpoolInv, Sound, FitsWindow
  <1>7. BodyKeepsItsMethod
    BY DEF BodyKeepsItsMethod, SpoolInv, Sound, MethodKept
  <1> QED
    BY <1>2, <1>3, <1>4, <1>5, <1>6, <1>7 DEF SpoolCorrect

\* For any sizes, chunks, redirects and times, and wherever transfers, windows and
\* programs are ended: preview and file agree with what was decoded, what a result
\* offers can be saved as long as it says, no other file stays, and a body is sent
\* with the method the user gave it alone.
THEOREM SpoolKeepsItsPromise == SpoolSpec => []SpoolCorrect
  <1>1. SpoolInit => SpoolInv
    BY SpoolInitInv
  <1>2. SpoolInv /\ [SpoolNext]_spoolVars => SpoolInv'
    BY SpoolNextInv
  <1>3. SpoolInv => SpoolCorrect
    BY InvGivesSpool
  <1> QED
    BY <1>1, <1>2, <1>3, PTL DEF SpoolSpec

-----------------------------------------------------------------------------
(* The diagnostics log                                                      *)
(*                                                                          *)
(* FlattenSeq and SumFunction are recursive functions: that there are such  *)
(* functions, and what their values are, is shown by climbing from one      *)
(* number to the next (Climb), as induction itself cannot be cited.         *)

\* Every event of a sequence is before those of another, if one writer made them.
Before(s, t) ==
  \A i \in 1..Len(s), j \in 1..Len(t) : s[i][1] = t[j][1] => s[i][2] < t[j][2]

\* A set of numbers that is not empty has a least one.
LEMMA NatMin ==
  ASSUME NEW T \in SUBSET Nat, T # {}
  PROVE  \E m \in T : \A n \in T : m <= n
  <1> DEFINE Less == {ss \in Nat \X Nat : ss[1] < ss[2]}
  <1>0. IsWellFoundedOn(Less, Nat)
    BY NatLessThanWellFounded DEF OpToRel
  <1>1. \A n, k \in Nat : n < k => <<n, k>> \in Less
    OBVIOUS
  <1> HIDE DEF Less
  <1>1a. \E m \in T : \A n \in T : ~ (<<n, m>> \in Less)
    BY <1>0, WFMin
  <1>2. PICK m \in T : \A n \in T : ~ (<<n, m>> \in Less)
    BY <1>1a
  <1>3. ASSUME NEW n \in T PROVE m <= n
    <2>1. m \in Nat /\ n \in Nat
      OBVIOUS
    <2>2. ~ (n < m)
      BY <1>1, <1>2, <2>1
    <2> QED
      BY <2>1, <2>2
  <1> QED
    BY <1>3

\* A set of numbers that has the first, and with each one the next, has them all.
LEMMA Climb ==
  ASSUME NEW n \in Nat, NEW m \in Nat, NEW T, m \in T,
         \A k \in m..n : k \in T /\ k < n => k + 1 \in T
  PROVE  \A k \in m..n : k \in T
  <1> DEFINE Out == {k \in m..n : k \notin T}
  <1>1. SUFFICES ASSUME Out # {} PROVE FALSE
    OBVIOUS
  <1>2. Out \in SUBSET Nat
    OBVIOUS
  <1> HIDE DEF Out
  <1>3. \E k \in Out : \A j \in Out : k <= j
    BY <1>1, <1>2, NatMin
  <1>4. PICK k \in Out : \A j \in Out : k <= j
    BY <1>3
  <1> USE DEF Out
  <1>5. k # m /\ k \in m..n /\ k \notin T
    BY <1>4
  <1>6. k - 1 \in m..n /\ k - 1 < n /\ k - 1 \notin Out
    BY <1>4, <1>5
  <1>7. k - 1 \in T
    BY <1>6
  <1>8. k - 1 + 1 \in T
    BY ONLY <1>6, <1>7, \A j \in m..n : j \in T /\ j < n => j + 1 \in T
  <1>9. k - 1 + 1 = k
    BY <1>5
  <1> QED
    BY <1>5, <1>8, <1>9

\* Concatenation, as an operator of which only what the lemmas say is known.
Cat(s, t) == s \o t

\* The length and the elements of a concatenation.
LEMMA CatProperties ==
  ASSUME NEW S, NEW s \in Seq(S), NEW t \in Seq(S)
  PROVE  /\ Cat(s, t) \in Seq(S)
         /\ Len(Cat(s, t)) = Len(s) + Len(t)
         /\ \A i \in 1..(Len(s) + Len(t)) : Cat(s, t)[i] = IF i <= Len(s) THEN s[i] ELSE t[i - Len(s)]
         /\ Len(s) \in Nat /\ Len(t) \in Nat
  BY ConcatProperties, LenProperties DEF Cat

SeqsOf(s, n, S) == \A i \in 1..n : s[i] \in Seq(S)

\* f[k] is the concatenation of the first k of the files.
Flat(f, parts, n) ==
  f = [k \in 1..n |-> IF k = 1 THEN parts[k] ELSE Cat(f[k - 1], parts[k])]

\* There is a function as FlattenSeq defines one.
LEMMA FlatExists ==
  ASSUME NEW s, NEW n \in Nat
  PROVE  \E f : Flat(f, s, n)
  <1> DEFINE T == {k \in Nat : \E f : Flat(f, s, k)}
  <1>1. 0 \in T
    <2>1. Flat([k \in 1..0 |-> 0], s, 0)
      BY DEF Flat
    <2> QED
      BY <2>1
  <1>2. ASSUME NEW k \in 0..n, k \in T, k < n PROVE k + 1 \in T
    <2>1. PICK f : Flat(f, s, k)
      BY <1>2
    <2> DEFINE g == [j \in 1..(k + 1) |-> IF j = 1 THEN s[j]
                                         ELSE IF j = k + 1 THEN Cat(f[k], s[k + 1]) ELSE f[j]]
    <2>2. ASSUME NEW j \in 1..(k + 1) PROVE g[j] = IF j = 1 THEN s[j] ELSE Cat(g[j - 1], s[j])
      <3>1. CASE j = 1
        BY <3>1
      <3>2. CASE j # 1 /\ j = k + 1
        <4>1. k \in 1..k /\ k # k + 1
          BY <3>2
        <4>2. f[k] = IF k = 1 THEN s[k] ELSE Cat(f[k - 1], s[k])
          BY <2>1, <4>1 DEF Flat
        <4>3. g[k] = f[k]
          BY <4>1, <4>2
        <4>4. j - 1 = k
          BY <3>2
        <4>5. g[j] = Cat(f[k], s[k + 1])
          BY <3>2
        <4>6. Cat(g[j - 1], s[j]) = Cat(f[k], s[k + 1])
          BY <3>2, <4>3, <4>4
        <4> QED
          BY <3>2, <4>5, <4>6
      <3>3. CASE j # 1 /\ j # k + 1
        <4>1. j \in 1..k /\ j - 1 \in 1..k /\ j - 1 # k + 1
          BY <3>3
        <4>2. f[j] = Cat(f[j - 1], s[j])
          BY <2>1, <3>3, <4>1 DEF Flat
        <4>3. f[j - 1] = IF j - 1 = 1 THEN s[j - 1] ELSE Cat(f[j - 1 - 1], s[j - 1])
          BY <2>1, <4>1 DEF Flat
        <4>4. g[j - 1] = f[j - 1]
          BY <4>1, <4>3
        <4> QED
          BY <3>3, <4>1, <4>2, <4>4
      <3> QED
        BY <3>1, <3>2, <3>3
    <2>3. Flat(g, s, k + 1)
      <3> HIDE DEF g
      <3>1. g = [j \in 1..(k + 1) |-> g[j]]
        BY DEF g
      <3> QED
        BY <2>2, <3>1 DEF Flat
    <2> QED
      BY <2>3
  <1> HIDE DEF T
  <1>3. \A k \in 0..n : k \in T
    BY <1>1, <1>2, Climb
  <1> QED
    BY <1>3 DEF T

\* FlattenSeq is the last value of such a function.
LEMMA FlattenIsFlat ==
  ASSUME NEW n \in Nat \ {0}, NEW S, NEW s \in [1..n -> Seq(S)]
  PROVE  \E f : Flat(f, s, n) /\ FlattenSeq(s) = f[n]
  <1>1. Len(s) = n
    OBVIOUS
  <1> DEFINE f == CHOOSE f : f = [k \in 1..n |-> IF k = 1 THEN s[k] ELSE Cat(f[k - 1], s[k])]
  <1>2. Flat(f, s, n)
    BY FlatExists DEF Flat
  <1>3. FlattenSeq(s) = f[n]
    BY <1>1 DEF FlattenSeq, Cat
  <1> QED
    BY <1>2, <1>3

\* Bounds of two numbers add up.
LEMMA SumOfBounds ==
  \A l, m, p, q \in Nat :
    /\ l <= p /\ m <= q => l + m <= p + q
    /\ l >= p /\ m >= q => l + m >= p + q
  OBVIOUS

\* A position in two sequences is one in the first or one in the second.
LEMMA WhichPart ==
  \A p, q \in Nat : \A a \in 1..(p + q) :
    /\ a <= p => a \in 1..p
    /\ ~ (a <= p) => a - p \in 1..q
  OBVIOUS

\* One file more.
LEMMA FlatStep ==
  ASSUME NEW n \in Nat, NEW s, NEW f, Flat(f, s, n)
  PROVE  /\ n > 0 => f[1] = s[1]
         /\ \A k \in 1..n : k < n => f[k + 1] = Cat(f[k], s[k + 1])
  <1>1. ASSUME NEW k \in 1..n, k < n PROVE f[k + 1] = Cat(f[k], s[k + 1])
    <2>1. k + 1 \in 1..n /\ k + 1 # 1 /\ k + 1 - 1 = k
      BY <1>1
    <2>2. \A m \in 1..n : f[m] = IF m = 1 THEN s[m] ELSE Cat(f[m - 1], s[m])
      BY DEF Flat
    <2>3. f[k + 1] = Cat(f[k + 1 - 1], s[k + 1])
      BY ONLY <2>1, <2>2
    <2> QED
      BY ONLY <2>1, <2>3
  <1>2. n > 0 => f[1] = s[1]
    BY DEF Flat
  <1> QED
    BY <1>1, <1>2

\* What files of events say are events.
LEMMA FlatType ==
  ASSUME NEW n \in Nat \ {0}, NEW S, NEW s, SeqsOf(s, n, S), NEW f, Flat(f, s, n)
  PROVE  \A k \in 1..n : f[k] \in Seq(S)
  <1> USE DEF SeqsOf
  <1>0. /\ f[1] = s[1]
        /\ \A k \in 1..n : k < n => f[k + 1] = Cat(f[k], s[k + 1])
    BY ONLY FlatStep, n \in Nat, n > 0, Flat(f, s, n)
  <1> DEFINE T == {k \in 1..n : f[k] \in Seq(S)}
  <1>1. 1 \in T
    BY <1>0
  <1>2. ASSUME NEW k \in 1..n, k \in T, k < n PROVE k + 1 \in T
    <2>1. f[k + 1] = Cat(f[k], s[k + 1]) /\ k + 1 \in 1..n
      BY <1>2, <1>0
    <2>2. f[k] \in Seq(S) /\ s[k + 1] \in Seq(S)
      BY <1>2, <2>1
    <2>3. Cat(f[k], s[k + 1]) \in Seq(S)
      BY ONLY <2>2, CatProperties
    <2> QED
      BY <2>1, <2>3
  <1> HIDE DEF T
  <1>3. \A k \in 1..n : k \in T
    BY <1>1, <1>2, Climb
  <1> QED
    BY <1>3 DEF T

\* What is in the concatenation is in one of the files.
AllFrom(f, s, n) ==
  \A k \in 1..n : \A a \in 1..Len(f[k]) : \E i \in 1..k : \E b \in 1..Len(s[i]) : f[k][a] = s[i][b]

\* Every event of the concatenation is one of a file.
LEMMA FlatFrom ==
  ASSUME NEW n \in Nat \ {0}, NEW S, NEW s, SeqsOf(s, n, S), NEW f, Flat(f, s, n)
  PROVE  AllFrom(f, s, n)
  <1> USE DEF SeqsOf
  <1>0. /\ f[1] = s[1]
        /\ \A k \in 1..n : k < n => f[k + 1] = Cat(f[k], s[k + 1])
    BY ONLY FlatStep, n \in Nat, n > 0, Flat(f, s, n)
  <1> DEFINE P(k) == \A a \in 1..Len(f[k]) : \E i \in 1..k : \E b \in 1..Len(s[i]) : f[k][a] = s[i][b]
  <1> DEFINE T == {k \in 1..n : P(k)}
  <1>1. 1 \in T
    <2>1. f[1] = s[1]
      BY <1>0
    <2> QED
      BY <2>1
  <1>2. ASSUME NEW k \in 1..n, k \in T, k < n PROVE k + 1 \in T
    <2>1. f[k + 1] = Cat(f[k], s[k + 1]) /\ k + 1 \in 1..n
      BY <1>2, <1>0
    <2>2. f[k] \in Seq(S) /\ s[k + 1] \in Seq(S)
      BY <1>2, <2>1, FlatType
    <2>3. ASSUME NEW a \in 1..Len(f[k + 1])
          PROVE  \E i \in 1..(k + 1) : \E b \in 1..Len(s[i]) : f[k + 1][a] = s[i][b]
      <3>0. /\ Len(Cat(f[k], s[k + 1])) = Len(f[k]) + Len(s[k + 1])
            /\ \A c \in 1..(Len(f[k]) + Len(s[k + 1])) :
                 Cat(f[k], s[k + 1])[c] = IF c <= Len(f[k]) THEN f[k][c] ELSE s[k + 1][c - Len(f[k])]
            /\ Len(f[k]) \in Nat /\ Len(s[k + 1]) \in Nat
        BY ONLY <2>2, CatProperties
      <3>1. /\ Len(f[k + 1]) = Len(f[k]) + Len(s[k + 1])
            /\ f[k + 1][a] = IF a <= Len(f[k]) THEN f[k][a] ELSE s[k + 1][a - Len(f[k])]
            /\ Len(f[k]) \in Nat /\ Len(s[k + 1]) \in Nat
        BY ONLY <2>1, <3>0, a \in 1..Len(f[k + 1])
      <3>1a. a \in 1..(Len(f[k]) + Len(s[k + 1]))
        BY ONLY <3>1, a \in 1..Len(f[k + 1])
      <3>1b. (a <= Len(f[k]) => a \in 1..Len(f[k])) /\ (~ (a <= Len(f[k])) => a - Len(f[k]) \in 1..Len(s[k + 1]))
        BY ONLY <3>1, <3>1a, WhichPart
      <3>2. CASE a <= Len(f[k])
        <4>1. \E i \in 1..k : \E b \in 1..Len(s[i]) : f[k][a] = s[i][b]
          BY <1>2, <3>1b, <3>2
        <4>2. \A i \in 1..k : i \in 1..(k + 1)
          OBVIOUS
        <4> QED
          BY <3>1, <3>2, <4>1, <4>2
      <3>3. CASE ~ (a <= Len(f[k]))
        <4>1. a - Len(f[k]) \in 1..Len(s[k + 1]) /\ k + 1 \in 1..(k + 1)
          BY <3>1b, <3>3
        <4> QED
          BY <3>1, <3>3, <4>1
      <3> QED
        BY <3>2, <3>3
    <2> QED
      BY <2>1, <2>3
  <1> HIDE DEF T
  <1>3. \A k \in 1..n : k \in T
    BY <1>1, <1>2, Climb
  <1> QED
    BY <1>3 DEF T, AllFrom

\* Two sequences in order, one before the other, are in order together.
LEMMA OrderOfConcat ==
  ASSUME NEW S, NEW s \in Seq(S), NEW t \in Seq(S), InOrder(s), InOrder(t), Before(s, t)
  PROVE  InOrder(Cat(s, t))
  <1> DEFINE st == Cat(s, t)
  <1>1. /\ st \in Seq(S) /\ Len(st) = Len(s) + Len(t) /\ DOMAIN st = 1..Len(st)
        /\ \A a \in 1..Len(st) : st[a] = IF a <= Len(s) THEN s[a] ELSE t[a - Len(s)]
        /\ Len(s) \in Nat /\ Len(t) \in Nat /\ DOMAIN s = 1..Len(s) /\ DOMAIN t = 1..Len(t)
    BY CatProperties, LenProperties
  <1> HIDE DEF st
  <1>2. ASSUME NEW a \in DOMAIN st, NEW b \in DOMAIN st, a < b, st[a][1] = st[b][1]
        PROVE  st[a][2] < st[b][2]
    <2>1. CASE b <= Len(s)
      <3>1. a \in DOMAIN s /\ b \in DOMAIN s /\ st[a] = s[a] /\ st[b] = s[b]
        BY <1>1, <1>2, <2>1
      <3> QED
        BY <1>2, <3>1 DEF InOrder
    <2>2. CASE a <= Len(s) /\ ~ (b <= Len(s))
      <3>1. a \in 1..Len(s) /\ b - Len(s) \in 1..Len(t) /\ st[a] = s[a] /\ st[b] = t[b - Len(s)]
        BY <1>1, <1>2, <2>2
      <3> QED
        BY <1>2, <3>1 DEF Before
    <2>3. CASE ~ (a <= Len(s))
      <3>1. /\ a - Len(s) \in DOMAIN t /\ b - Len(s) \in DOMAIN t /\ a - Len(s) < b - Len(s)
            /\ st[a] = t[a - Len(s)] /\ st[b] = t[b - Len(s)]
        BY <1>1, <1>2, <2>3
      <3> QED
        BY <1>2, <3>1 DEF InOrder
    <2> QED
      BY <1>1, <1>2, <2>1, <2>2, <2>3
  <1> QED
    BY <1>2 DEF InOrder, st

\* Files in order, each before the later ones, are in order together.
LEMMA FlatInOrder ==
  ASSUME NEW n \in Nat \ {0}, NEW S, NEW s, SeqsOf(s, n, S), NEW f, Flat(f, s, n),
         \A i \in 1..n : InOrder(s[i]) /\ \A j \in (i + 1)..n : Before(s[i], s[j])
  PROVE  \A k \in 1..n : InOrder(f[k])
  <1> USE DEF SeqsOf
  <1>0. /\ f[1] = s[1]
        /\ \A k \in 1..n : k < n => f[k + 1] = Cat(f[k], s[k + 1])
    BY ONLY FlatStep, n \in Nat, n > 0, Flat(f, s, n)
  <1>0b. AllFrom(f, s, n)
    BY ONLY FlatFrom, n \in Nat \ {0}, \A i \in 1..n : s[i] \in Seq(S), Flat(f, s, n)
  <1> DEFINE T == {k \in 1..n : InOrder(f[k])}
  <1>1. 1 \in T
    BY <1>0
  <1>2. ASSUME NEW k \in 1..n, k \in T, k < n PROVE k + 1 \in T
    <2>1. f[k + 1] = Cat(f[k], s[k + 1]) /\ k + 1 \in 1..n
      BY <1>2, <1>0
    <2>2. f[k] \in Seq(S) /\ s[k + 1] \in Seq(S)
      BY <1>2, <2>1, FlatType
    <2>3. ASSUME NEW a \in 1..Len(f[k]), NEW b \in 1..Len(s[k + 1]), f[k][a][1] = s[k + 1][b][1]
          PROVE  f[k][a][2] < s[k + 1][b][2]
      <3>1. \E i \in 1..k : \E c \in 1..Len(s[i]) : f[k][a] = s[i][c]
        BY <1>0b DEF AllFrom
      <3>2. PICK i \in 1..k : \E c \in 1..Len(s[i]) : f[k][a] = s[i][c]
        BY <3>1
      <3>3. PICK c \in 1..Len(s[i]) : f[k][a] = s[i][c]
        BY <3>2
      <3>4. i \in 1..n /\ k + 1 \in (i + 1)..n
        BY <2>1
      <3>5. Before(s[i], s[k + 1])
        BY <3>4
      <3> QED
        BY <2>3, <3>3, <3>5 DEF Before
    <2>4. Before(f[k], s[k + 1])
      BY <2>3 DEF Before
    <2>5. InOrder(f[k]) /\ InOrder(s[k + 1])
      BY <1>2, <2>1
    <2>6. InOrder(Cat(f[k], s[k + 1]))
      BY <2>2, <2>4, <2>5, OrderOfConcat
    <2> QED
      BY <2>1, <2>6
  <1> HIDE DEF T
  <1>3. \A k \in 1..n : k \in T
    BY <1>1, <1>2, Climb
  <1> QED
    BY <1>3 DEF T

\* Where the files are the same, so is what they say.
LEMMA FlatSame ==
  ASSUME NEW n \in Nat \ {0}, NEW s, NEW t, NEW f, NEW g, Flat(f, s, n), Flat(g, t, n),
         NEW k \in 1..n, f[k] = g[k], \A i \in (k + 1)..n : s[i] = t[i]
  PROVE  f[n] = g[n]
  <1>0. /\ f[1] = s[1] /\ g[1] = t[1]
        /\ \A i \in 1..n : i < n => f[i + 1] = Cat(f[i], s[i + 1]) /\ g[i + 1] = Cat(g[i], t[i + 1])
    BY ONLY FlatStep, n \in Nat, n > 0, Flat(f, s, n), Flat(g, t, n)
  <1> DEFINE T == {i \in k..n : f[i] = g[i]}
  <1>1. k \in T
    OBVIOUS
  <1>2. ASSUME NEW i \in k..n, i \in T, i < n PROVE i + 1 \in T
    <2>1. i \in 1..n /\ i + 1 \in (k + 1)..n /\ i + 1 \in k..n
      BY <1>2
    <2>2. f[i + 1] = Cat(f[i], s[i + 1]) /\ g[i + 1] = Cat(g[i], t[i + 1])
      BY <1>2, <2>1, <1>0
    <2> QED
      BY <1>2, <2>1, <2>2
  <1> HIDE DEF T
  <1>3. \A i \in k..n : i \in T
    BY <1>1, <1>2, Climb
  <1>4. n \in T
    BY <1>3
  <1> QED
    BY <1>4 DEF T

\* The same first files say the same.
LEMMA FlatSameBelow ==
  ASSUME NEW n \in Nat \ {0}, NEW s, NEW t, NEW f, NEW g, Flat(f, s, n), Flat(g, t, n),
         NEW k \in 1..n, \A i \in 1..k : s[i] = t[i]
  PROVE  f[k] = g[k]
  <1>0. /\ f[1] = s[1] /\ g[1] = t[1]
        /\ \A i \in 1..n : i < n => f[i + 1] = Cat(f[i], s[i + 1]) /\ g[i + 1] = Cat(g[i], t[i + 1])
    BY ONLY FlatStep, n \in Nat, n > 0, Flat(f, s, n), Flat(g, t, n)
  <1> DEFINE T == {i \in 1..k : f[i] = g[i]}
  <1>1. 1 \in T
    BY <1>0
  <1>2. ASSUME NEW i \in 1..k, i \in T, i < k PROVE i + 1 \in T
    <2>1. i \in 1..n /\ i < n /\ i + 1 \in 1..k
      BY <1>2
    <2>2. f[i + 1] = Cat(f[i], s[i + 1]) /\ g[i + 1] = Cat(g[i], t[i + 1])
      BY <2>1, <1>0
    <2> QED
      BY <1>2, <2>1, <2>2
  <1> HIDE DEF T
  <1>3. \A i \in 1..k : i \in T
    BY <1>1, <1>2, Climb
  <1>4. k \in T
    BY <1>3
  <1> QED
    BY <1>4 DEF T

\* The empty sequence, associativity, and Append as a concatenation.
LEMMA CatFacts ==
  ASSUME NEW S
  PROVE  /\ \A s \in Seq(S) : Cat(s, <<>>) = s /\ Cat(<<>>, s) = s
         /\ \A s, t, u \in Seq(S) : Cat(Cat(s, t), u) = Cat(s, Cat(t, u))
         /\ \A s, t \in Seq(S) : \A e \in S : Append(Cat(s, t), e) = Cat(s, Append(t, e))
  <1>1. \A s \in Seq(S) : Cat(s, <<>>) = s /\ Cat(<<>>, s) = s
    BY ConcatEmptySeq DEF Cat
  <1>2. \A s, t, u \in Seq(S) : Cat(Cat(s, t), u) = Cat(s, Cat(t, u))
    BY ConcatAssociative DEF Cat
  <1>3. ASSUME NEW s \in Seq(S), NEW t \in Seq(S), NEW e \in S PROVE Append(Cat(s, t), e) = Cat(s, Append(t, e))
    <2>1. <<e>> \in Seq(S) /\ Cat(s, t) \in Seq(S)
      BY CatProperties
    <2>2. Append(Cat(s, t), e) = Cat(s, t) \o <<e>> /\ Append(t, e) = t \o <<e>>
      BY <2>1, AppendIsConcat
    <2>3. Append(Cat(s, t), e) = Cat(Cat(s, t), <<e>>) /\ Append(t, e) = Cat(t, <<e>>)
      BY <2>2 DEF Cat
    <2>4. Cat(Cat(s, t), <<e>>) = Cat(s, Cat(t, <<e>>))
      BY <1>2, <2>1
    <2> QED
      BY ONLY <2>3, <2>4
  <1> QED
    BY <1>1, <1>2, <1>3

\* A file that moves into an empty place next to it changes nothing.
LEMMA FlatMove ==
  ASSUME NEW n \in Nat \ {0}, NEW S, NEW s, SeqsOf(s, n, S), NEW t,
         NEW f, NEW g, Flat(f, s, n), Flat(g, t, n), NEW k \in 1..n, k < n,
         s[k] = <<>>, t[k] = s[k + 1], t[k + 1] = <<>>, \A i \in 1..n : i # k /\ i # k + 1 => t[i] = s[i]
  PROVE  f[n] = g[n]
  <1> USE DEF SeqsOf
  <1>0. /\ f[1] = s[1] /\ g[1] = t[1]
        /\ \A i \in 1..n : i < n => f[i + 1] = Cat(f[i], s[i + 1]) /\ g[i + 1] = Cat(g[i], t[i + 1])
    BY ONLY FlatStep, n \in Nat, n > 0, Flat(f, s, n), Flat(g, t, n)
  <1>1. k + 1 \in 1..n /\ s[k + 1] \in Seq(S) /\ <<>> \in Seq(S)
    OBVIOUS
  <1>2. f[k + 1] = Cat(f[k], s[k + 1]) /\ g[k + 1] = Cat(g[k], t[k + 1])
    BY <1>0
  <1>3. f[k + 1] = g[k + 1]
    <2>1. CASE k = 1
      <3>1. f[k] = <<>> /\ g[k] = s[k + 1]
        BY <1>0, <2>1
      <3>2. f[k + 1] = s[k + 1] /\ g[k + 1] = s[k + 1]
        BY <1>1, <1>2, <3>1, CatFacts
      <3> QED
        BY <3>2
    <2>2. CASE k # 1
      <3>1. k - 1 \in 1..n /\ k - 1 < n /\ k - 1 + 1 = k
        BY <2>2
      <3>2. f[k] = Cat(f[k - 1], <<>>) /\ g[k] = Cat(g[k - 1], s[k + 1])
        BY <1>0, <3>1
      <3>3. \A i \in 1..(k - 1) : s[i] = t[i]
        OBVIOUS
      <3>4. f[k - 1] = g[k - 1]
        BY ONLY <3>1, <3>3, FlatSameBelow, n \in Nat \ {0}, Flat(f, s, n), Flat(g, t, n)
      <3>5. f[k - 1] \in Seq(S)
        BY <3>1, FlatType
      <3>6. f[k] = f[k - 1] /\ Cat(g[k - 1], s[k + 1]) \in Seq(S)
        BY <1>1, <3>2, <3>4, <3>5, CatFacts, CatProperties
      <3>7. f[k + 1] = Cat(f[k - 1], s[k + 1])
        BY <1>2, <3>6
      <3>8. g[k + 1] = Cat(g[k], <<>>)
        BY <1>2
      <3>9. g[k + 1] = g[k]
        BY <3>2, <3>6, <3>8, CatFacts
      <3> QED
        BY <3>2, <3>4, <3>7, <3>9
    <2> QED
      BY <2>1, <2>2
  <1>4. \A i \in (k + 1 + 1)..n : s[i] = t[i]
    OBVIOUS
  <1> QED
    BY ONLY <1>1, <1>3, <1>4, FlatSame, n \in Nat \ {0}, Flat(f, s, n), Flat(g, t, n)

\* Without the first file its events are missing at the beginning.
LEMMA FlatDrop ==
  ASSUME NEW n \in Nat \ {0}, NEW S, NEW s, SeqsOf(s, n, S), NEW t,
         NEW f, NEW g, Flat(f, s, n), Flat(g, t, n),
         t[1] = <<>>, \A i \in 2..n : t[i] = s[i]
  PROVE  f[n] = Cat(s[1], g[n])
  <1> USE DEF SeqsOf
  <1>0. /\ f[1] = s[1] /\ g[1] = t[1]
        /\ \A i \in 1..n : i < n => f[i + 1] = Cat(f[i], s[i + 1]) /\ g[i + 1] = Cat(g[i], t[i + 1])
    BY ONLY FlatStep, n \in Nat, n > 0, Flat(f, s, n), Flat(g, t, n)
  <1>0a. /\ s[1] \in Seq(S) /\ <<>> \in Seq(S) /\ \A i \in 1..n : t[i] \in Seq(S)
    <2>1. s[1] \in Seq(S) /\ <<>> \in Seq(S)
      OBVIOUS
    <2>2. ASSUME NEW i \in 1..n PROVE t[i] \in Seq(S)
      <3>1. CASE i = 1
        BY <2>1, <3>1
      <3>2. CASE i # 1
        <4>1. i \in 2..n
          BY <3>2
        <4>2. t[i] = s[i]
          BY <4>1
        <4> QED
          BY <4>2
      <3> QED
        BY <3>1, <3>2
    <2> QED
      BY <2>1, <2>2
  <1>0b. \A i \in 1..n : g[i] \in Seq(S)
    BY ONLY <1>0a, FlatType, n \in Nat \ {0}, Flat(g, t, n)
  <1> DEFINE T == {k \in 1..n : f[k] = Cat(s[1], g[k])}
  <1>1. 1 \in T
    <2>1. f[1] = Cat(s[1], g[1])
      BY <1>0, <1>0a, CatFacts
    <2> QED
      BY <2>1
  <1>2. ASSUME NEW k \in 1..n, k \in T, k < n PROVE k + 1 \in T
    <2>1. k + 1 \in 1..n /\ t[k + 1] = s[k + 1] /\ s[k + 1] \in Seq(S) /\ g[k] \in Seq(S)
      BY <1>0b, <1>2
    <2>2. f[k + 1] = Cat(Cat(s[1], g[k]), s[k + 1]) /\ g[k + 1] = Cat(g[k], s[k + 1])
      BY <1>0, <1>2, <2>1
    <2>3. f[k + 1] = Cat(s[1], g[k + 1])
      BY <1>0a, <2>1, <2>2, CatFacts
    <2> QED
      BY <2>1, <2>3
  <1> HIDE DEF T
  <1>3. \A k \in 1..n : k \in T
    BY <1>1, <1>2, Climb
  <1>4. n \in T
    BY <1>3
  <1> QED
    BY <1>4 DEF T

\* What goes to the end of the last file goes to the end of all.
LEMMA FlatAppend ==
  ASSUME NEW n \in Nat \ {0}, NEW S, NEW s, SeqsOf(s, n, S), NEW t,
         NEW f, NEW g, Flat(f, s, n), Flat(g, t, n), NEW e \in S,
         t[n] = Append(s[n], e), \A i \in 1..(n - 1) : t[i] = s[i]
  PROVE  g[n] = Append(f[n], e)
  <1> USE DEF SeqsOf
  <1>0. /\ f[1] = s[1] /\ g[1] = t[1]
        /\ \A i \in 1..n : i < n => f[i + 1] = Cat(f[i], s[i + 1]) /\ g[i + 1] = Cat(g[i], t[i + 1])
    BY ONLY FlatStep, n \in Nat, n > 0, Flat(f, s, n), Flat(g, t, n)
  <1>1. CASE n = 1
    BY <1>0, <1>1
  <1>2. CASE n # 1
    <2>1. n - 1 \in 1..n /\ n - 1 < n /\ n - 1 + 1 = n
      BY <1>2
    <2>2. f[n] = Cat(f[n - 1], s[n]) /\ g[n] = Cat(g[n - 1], t[n])
      BY <1>0, <2>1
    <2>3. f[n - 1] = g[n - 1]
      BY ONLY <2>1, FlatSameBelow, n \in Nat \ {0}, Flat(f, s, n), Flat(g, t, n), \A i \in 1..(n - 1) : t[i] = s[i]
    <2>4. f[n - 1] \in Seq(S) /\ s[n] \in Seq(S)
      BY <2>1, FlatType
    <2>5. Append(Cat(f[n - 1], s[n]), e) = Cat(f[n - 1], Append(s[n], e))
      BY <2>4, CatFacts
    <2> QED
      BY <2>2, <2>3, <2>5
  <1> QED
    BY <1>1, <1>2

\* How long all files are together.
LEMMA FlatLength ==
  ASSUME NEW n \in Nat \ {0}, NEW S, NEW s, SeqsOf(s, n, S), NEW c \in Nat,
         NEW f, Flat(f, s, n)
  PROVE  /\ (\A i \in 1..n : Len(s[i]) <= c) => Len(f[n]) <= n * c
         /\ (\A i \in 2..n : Len(s[i]) >= c) => Len(f[n]) >= (n - 1) * c
  <1> USE DEF SeqsOf
  <1>0. /\ f[1] = s[1]
        /\ \A k \in 1..n : k < n => f[k + 1] = Cat(f[k], s[k + 1])
    BY ONLY FlatStep, n \in Nat, n > 0, Flat(f, s, n)
  <1>0a. \A k \in 1..n : f[k] \in Seq(S) /\ Len(f[k]) \in Nat /\ Len(s[k]) \in Nat
    BY FlatType, LenProperties
  <1>0b. ASSUME NEW k \in 1..n, k < n PROVE Len(f[k + 1]) = Len(f[k]) + Len(s[k + 1])
    <2>1. k + 1 \in 1..n /\ f[k] \in Seq(S) /\ s[k + 1] \in Seq(S)
      BY <1>0a, <1>0b
    <2>2. Len(Cat(f[k], s[k + 1])) = Len(f[k]) + Len(s[k + 1])
      BY ONLY <2>1, CatProperties
    <2> QED
      BY <1>0, <1>0b, <2>2
  <1>1. ASSUME \A i \in 1..n : Len(s[i]) <= c PROVE Len(f[n]) <= n * c
    <2> DEFINE T == {k \in 1..n : Len(f[k]) <= k * c}
    <2>1. 1 \in T
      BY <1>0, <1>1, <1>0a
    <2>2. ASSUME NEW k \in 1..n, k \in T, k < n PROVE k + 1 \in T
      <3>1. k + 1 \in 1..n /\ Len(f[k]) <= k * c /\ Len(s[k + 1]) <= c /\ k * c \in Nat
        BY <1>1, <2>2
      <3>2. (k + 1) * c = k * c + c
        OBVIOUS
      <3>3. /\ Len(f[k + 1]) = Len(f[k]) + Len(s[k + 1])
            /\ Len(f[k]) \in Nat /\ Len(s[k + 1]) \in Nat
        <4>1. k + 1 \in 1..n
          BY <2>2
        <4> QED
          BY <1>0a, <1>0b, <2>2, <4>1
      <3>4. Len(f[k]) + Len(s[k + 1]) <= k * c + c
        BY ONLY <3>1, <3>3, SumOfBounds, c \in Nat
      <3>5. Len(f[k + 1]) <= (k + 1) * c
        BY ONLY <3>2, <3>3, <3>4, Zenon
      <3> QED
        BY <3>1, <3>5
    <2> HIDE DEF T
    <2>3. \A k \in 1..n : k \in T
      BY <2>1, <2>2, Climb
    <2>4. n \in T
      BY <2>3
    <2> QED
      BY <2>4 DEF T
  <1>2. ASSUME \A i \in 2..n : Len(s[i]) >= c PROVE Len(f[n]) >= (n - 1) * c
    <2> DEFINE T == {k \in 1..n : Len(f[k]) >= (k - 1) * c}
    <2>1. 1 \in T
      BY <1>0, <1>2, <1>0a
    <2>2. ASSUME NEW k \in 1..n, k \in T, k < n PROVE k + 1 \in T
      <3>1. k + 1 \in 2..n /\ Len(f[k]) >= (k - 1) * c /\ Len(s[k + 1]) >= c /\ (k - 1) * c \in Nat
        BY <1>2, <2>2
      <3>2. (k + 1 - 1) * c = (k - 1) * c + c
        OBVIOUS
      <3>3. /\ Len(f[k + 1]) = Len(f[k]) + Len(s[k + 1])
            /\ Len(f[k]) \in Nat /\ Len(s[k + 1]) \in Nat
        <4>1. k + 1 \in 1..n
          BY <2>2
        <4> QED
          BY <1>0a, <1>0b, <2>2, <4>1
      <3>4. Len(f[k]) + Len(s[k + 1]) >= (k - 1) * c + c
        BY ONLY <3>1, <3>3, SumOfBounds, c \in Nat
      <3>5. Len(f[k + 1]) >= (k + 1 - 1) * c
        BY ONLY <3>2, <3>3, <3>4, Zenon
      <3> QED
        BY <3>1, <3>5
    <2> HIDE DEF T
    <2>3. \A k \in 1..n : k \in T
      BY <2>1, <2>2, Climb
    <2>4. n \in T
      BY <2>3
    <2> QED
      BY <2>4 DEF T
  <1> QED
    BY <1>1, <1>2

-----------------------------------------------------------------------------
(* Sums over a finite set *)

Sums(iter, fun, S) ==
  iter = [s \in SUBSET S |->
            IF s = {} THEN 0 ELSE LET x == CHOOSE x \in s : TRUE IN fun[x] + iter[s \ {x}]]

Chosen(s) == CHOOSE x \in s : TRUE
SumsUpTo(iter, fun, S, k) ==
  \A s \in SUBSET S : Cardinality(s) <= k =>
    iter[s] = IF s = {} THEN 0 ELSE fun[Chosen(s)] + iter[s \ {Chosen(s)}]

\* A set without its chosen element is smaller.
LEMMA RestIsSmaller ==
  ASSUME NEW S, IsFiniteSet(S), NEW s \in SUBSET S
  PROVE  /\ Cardinality(s) \in Nat
         /\ s # {} => /\ Chosen(s) \in s /\ s \ {Chosen(s)} \in SUBSET S
                      /\ Cardinality(s \ {Chosen(s)}) = Cardinality(s) - 1
  <1>1. IsFiniteSet(s) /\ Cardinality(s) \in Nat
    BY FS_Subset, FS_CardinalityType
  <1>2. ASSUME s # {} PROVE Chosen(s) \in s
    BY <1>2 DEF Chosen
  <1> QED
    BY <1>1, <1>2, FS_RemoveElement

\* There is a function as SumFunction defines one.
LEMMA SumsExist ==
  ASSUME NEW S, IsFiniteSet(S), NEW fun
  PROVE  \E iter : Sums(iter, fun, S)
  <1> DEFINE n == Cardinality(S)
  <1>0. n \in Nat
    BY FS_CardinalityType
  <1> DEFINE T == {k \in Nat : \E iter : SumsUpTo([s \in SUBSET S |-> iter[s]], fun, S, k)}
  <1>1. 0 \in T
    <2> DEFINE iter == [s \in SUBSET S |-> 0]
    <2>1. ASSUME NEW s \in SUBSET S, Cardinality(s) <= 0 PROVE s = {}
      <3>1. IsFiniteSet(s) /\ Cardinality(s) \in Nat
        BY RestIsSmaller, FS_Subset
      <3>2. Cardinality(s) = 0
        BY ONLY <2>1, <3>1
      <3> QED
        BY <3>1, <3>2, FS_EmptySet
    <2>2. SumsUpTo([s \in SUBSET S |-> iter[s]], fun, S, 0)
      BY <2>1 DEF SumsUpTo
    <2> QED
      BY <2>2
  <1>2. ASSUME NEW k \in 0..n, k \in T, k < n PROVE k + 1 \in T
    <2>1. PICK old : SumsUpTo([s \in SUBSET S |-> old[s]], fun, S, k)
      BY <1>2
    <2> DEFINE iter == [s \in SUBSET S |->
                 IF Cardinality(s) <= k THEN old[s] ELSE fun[Chosen(s)] + old[s \ {Chosen(s)}]]
    <2>2. ASSUME NEW s \in SUBSET S, Cardinality(s) <= k + 1
          PROVE  iter[s] = IF s = {} THEN 0 ELSE fun[Chosen(s)] + iter[s \ {Chosen(s)}]
      <3>1. CASE s = {}
        <4>1. Cardinality(s) <= k
          BY <3>1, FS_EmptySet
        <4>1a. [r \in SUBSET S |-> old[r]][s] = 0
          BY <2>1, <3>1, <4>1 DEF SumsUpTo
        <4>2. iter[s] = old[s] /\ old[s] = 0
          BY <4>1, <4>1a
        <4> QED
          BY <3>1, <4>2
      <3>2. CASE s # {}
        <4>1. /\ s \ {Chosen(s)} \in SUBSET S /\ Cardinality(s) \in Nat
              /\ Cardinality(s \ {Chosen(s)}) = Cardinality(s) - 1
          BY <3>2, RestIsSmaller
        <4>2. Cardinality(s \ {Chosen(s)}) <= k
          BY ONLY <2>2, <4>1, k \in 0..n, <1>0
        <4>3. iter[s \ {Chosen(s)}] = old[s \ {Chosen(s)}]
          BY <4>1, <4>2
        <4>4. iter[s] = fun[Chosen(s)] + old[s \ {Chosen(s)}]
          <5>1. CASE Cardinality(s) <= k
            <6>1. old[s] = fun[Chosen(s)] + old[s \ {Chosen(s)}]
              BY <2>1, <3>2, <4>1, <5>1 DEF SumsUpTo
            <6> QED
              BY <5>1, <6>1
          <5>2. CASE ~ (Cardinality(s) <= k)
            BY <5>2
          <5> QED
            BY <5>1, <5>2
        <4> QED
          BY <3>2, <4>3, <4>4
      <3> QED
        BY <3>1, <3>2
    <2> HIDE DEF iter
    <2>3. SumsUpTo([s \in SUBSET S |-> iter[s]], fun, S, k + 1)
      <3>1. ASSUME NEW s \in SUBSET S, Cardinality(s) <= k + 1
            PROVE  [r \in SUBSET S |-> iter[r]][s] =
                     IF s = {} THEN 0 ELSE fun[Chosen(s)] + [r \in SUBSET S |-> iter[r]][s \ {Chosen(s)}]
        <4>1. s \ {Chosen(s)} \in SUBSET S
          OBVIOUS
        <4> QED
          BY <2>2, <3>1, <4>1
      <3> QED
        BY <3>1 DEF SumsUpTo
    <2> QED
      BY <2>3
  <1> HIDE DEF T, n
  <1>3. \A k \in 0..n : k \in T
    BY <1>0, <1>1, <1>2, Climb
  <1>4. n \in T
    BY <1>0, <1>3
  <1>5. PICK old : SumsUpTo([s \in SUBSET S |-> old[s]], fun, S, n)
    BY <1>4 DEF T
  <1> DEFINE iter == [s \in SUBSET S |-> old[s]]
  <1>6. ASSUME NEW s \in SUBSET S PROVE iter[s] = IF s = {} THEN 0 ELSE fun[Chosen(s)] + iter[s \ {Chosen(s)}]
    <2>1. Cardinality(s) <= n
      BY FS_Subset DEF n
    <2> QED
      BY <1>5, <2>1 DEF SumsUpTo
  <1>7. iter = [s \in SUBSET S |-> iter[s]]
    OBVIOUS
  <1> HIDE DEF iter
  <1>8. Sums(iter, fun, S)
    BY <1>6, <1>7 DEF Sums, Chosen
  <1> QED
    BY <1>8

\* SumFunction is a value of such a function.
LEMMA SumIsSums ==
  ASSUME NEW S, NEW fun, DOMAIN fun = S, NEW it, Sums(it, fun, S)
  PROVE  \E iter : Sums(iter, fun, S) /\ SumFunction(fun) = iter[S]
  <1> DEFINE iter == CHOOSE iter : iter = [s \in SUBSET S |->
                 IF s = {} THEN 0 ELSE LET x == CHOOSE x \in s : TRUE IN fun[x] + iter[s \ {x}]]
  <1>1. Sums(iter, fun, S)
    BY ONLY Sums(it, fun, S) DEF Sums
  <1>2. SumFunction(fun) = iter[S]
    BY DEF SumFunction, SumFunctionOnSet, FoldFunctionOnSet, MapThenFoldSet
  <1> QED
    BY <1>1, <1>2

\* No number of a sum is more than the sum.
LEMMA SumIsMore ==
  ASSUME NEW S, IsFiniteSet(S), NEW fun, DOMAIN fun = S, \A x \in S : fun[x] \in Nat
  PROVE  SumFunction(fun) \in Nat /\ \A x \in S : fun[x] <= SumFunction(fun)
  <1>0. \E it : Sums(it, fun, S)
    BY SumsExist
  <1>0a. PICK it : Sums(it, fun, S)
    BY <1>0
  <1>1. \E iter : Sums(iter, fun, S) /\ SumFunction(fun) = iter[S]
    BY <1>0a, SumIsSums
  <1>2. PICK iter : Sums(iter, fun, S) /\ SumFunction(fun) = iter[S]
    BY <1>1
  <1>3. \A s \in SUBSET S : iter[s] = IF s = {} THEN 0 ELSE fun[Chosen(s)] + iter[s \ {Chosen(s)}]
    BY <1>2 DEF Sums, Chosen
  <1> DEFINE n == Cardinality(S)
  <1>4. n \in Nat
    BY FS_CardinalityType
  <1> DEFINE T == {k \in Nat : \A s \in SUBSET S : Cardinality(s) = k =>
                      iter[s] \in Nat /\ \A x \in s : fun[x] <= iter[s]}
  <1>5. 0 \in T
    <2>1. ASSUME NEW s \in SUBSET S, Cardinality(s) = 0 PROVE s = {} /\ iter[s] = 0
      <3>1. IsFiniteSet(s)
        BY FS_Subset
      <3>2. s = {}
        BY <2>1, <3>1, FS_EmptySet
      <3> QED
        BY <1>3, <3>2
    <2> QED
      BY <2>1
  <1>6. ASSUME NEW k \in 0..n, k \in T, k < n PROVE k + 1 \in T
    <2>1. ASSUME NEW s \in SUBSET S, Cardinality(s) = k + 1
          PROVE  iter[s] \in Nat /\ \A x \in s : fun[x] <= iter[s]
      <3>0. Cardinality({}) = 0 /\ k + 1 # 0
        BY FS_EmptySet
      <3>1. s # {}
        BY <2>1, <3>0
      <3>2. /\ Chosen(s) \in s /\ s \ {Chosen(s)} \in SUBSET S
            /\ Cardinality(s \ {Chosen(s)}) = k
        BY <2>1, <3>1, RestIsSmaller
      <3>3. iter[s] = fun[Chosen(s)] + iter[s \ {Chosen(s)}]
        BY <1>3, <3>1
      <3>4. iter[s \ {Chosen(s)}] \in Nat /\ \A x \in s \ {Chosen(s)} : fun[x] <= iter[s \ {Chosen(s)}]
        BY <1>6, <3>2
      <3>5. \A x \in s : fun[x] \in Nat
        OBVIOUS
      <3>6. \A x \in s : x = Chosen(s) \/ x \in s \ {Chosen(s)}
        OBVIOUS
      <3> QED
        BY ONLY <3>2, <3>3, <3>4, <3>5, <3>6
    <2>2. k + 1 \in Nat
      OBVIOUS
    <2> QED
      BY <2>1, <2>2
  <1> HIDE DEF T, n
  <1>7. \A k \in 0..n : k \in T
    BY <1>4, <1>5, <1>6, Climb
  <1>8. n \in T
    BY <1>4, <1>7
  <1> QED
    BY <1>2, <1>8 DEF T, n

Steps == {"idle", "look", "remove", "rename", "total", "append", "export"}
LogsAreSeqs ==
  /\ DOMAIN logs = Indices /\ \A i \in Indices : logs[i] \in Seq(Events)
  /\ at \in [Writers -> [step : Steps, index : Indices]]
  /\ made \in [Writers -> 0..MaxEvents]
  /\ bundle \in [paths : SUBSET Indices, events : Seq(Events)]
  /\ \A w \in Writers : at[w].step \in {"look", "remove", "rename"} => at[w].index # 0

\* Writers that have looked at the size of the newest file.
Pending == {w \in Writers : at[w].step \in {"total", "append"}}
MaxLength == LogCapacity + Cardinality(Writers) - 1

LogsAreShort ==
  /\ \A i \in Indices : Len(logs[i]) <= MaxLength
  /\ Len(logs[0]) + Cardinality(Pending) <= MaxLength

FilesInOrder ==
  \A i \in Indices : InOrder(logs[i]) /\ \A j \in 0..(i - 1) : Before(logs[i], logs[j])

\* Events that a writer has put into the log.
Recording(w) == at[w].step \in {"look", "remove", "rename", "total", "append"}
Written(w) == IF Recording(w) THEN made[w] - 1 ELSE made[w]
Counts == [w \in Writers |-> Written(w)]
Within(s, counts) == \A i \in 1..Len(s) : s[i][2] <= counts[s[i][1]]
OnlyWritten(s) == Within(s, Counts)

EventsAreWritten ==
  /\ \A i \in Indices : OnlyWritten(logs[i])
  /\ OnlyWritten(bundle.events)
  /\ \A w \in Writers : Recording(w) => made[w] > 0

BundleIsAhead ==
  /\ InOrder(bundle.events)
  /\ \A i \in bundle.paths : \A j \in 0..i : Before(bundle.events, logs[j])

\* While only one writer records.
Alone(w) == \A v \in Writers \ {w} : made[v] = 0
Hole(w) == IF at[w].step \in {"look", "remove", "rename"} THEN at[w].index ELSE 0

\* The names that are in use follow each other, but for the one that a rotation has
\* just freed, and every file but the newest is full.
FullAt(l, step, hole) ==
  /\ \A i \in Indices : Len(l[i]) <= LogCapacity
  /\ \A i \in Indices \ {0} : l[i] # <<>> => Len(l[i]) = LogCapacity
  /\ \A i \in Indices : l[i] # <<>> => \A j \in 1..(i - 1) : j # hole => l[j] # <<>>
  /\ hole # 0 => Len(l[0]) = LogCapacity
  /\ step \in {"look", "remove"} /\ hole # LogFiles - 1 => l[hole] = <<>>
  /\ step = "rename" => l[hole] = <<>>
  /\ step \in {"remove", "rename"} => l[hole - 1] # <<>>
  /\ step \in {"total", "append"} => Len(l[0]) < LogCapacity
FilesAreFull(w) == FullAt(logs, at[w].step, Hole(w))

\* The last events up to the number n of one writer, and enough of them.
Tale(w, events, n) ==
  /\ events = [i \in 1..Len(events) |-> <<w, n - Len(events) + i>>]
  /\ Len(events) = n \/ Len(events) >= (LogFiles - 1) * LogCapacity
NothingMissing(w) == Tale(w, AllEvents, Written(w))

AloneInv == \A w \in Writers : Alone(w) => FilesAreFull(w) /\ NothingMissing(w)

LogInv == LogsAreSeqs /\ LogsAreShort /\ FilesInOrder /\ EventsAreWritten /\ BundleIsAhead /\ AloneInv

-----------------------------------------------------------------------------
\* What the constants are.
LEMMA LogConstants ==
  /\ LogFiles \in Nat /\ LogFiles >= 2 /\ LogCapacity \in Nat /\ LogCapacity >= 1 /\ MaxEvents \in Nat
  /\ IsFiniteSet(Writers) /\ Cardinality(Writers) \in Nat
  /\ Indices = 0..(LogFiles - 1) /\ 0 \in Indices /\ Indices \subseteq Nat
  /\ MaxLength \in Nat
  <1>1. /\ LogFiles \in Nat /\ LogFiles >= 2 /\ LogCapacity \in Nat /\ LogCapacity >= 1 /\ MaxEvents \in Nat
        /\ IsFiniteSet(Writers)
    BY LogAssumption
  <1>2. Cardinality(Writers) \in Nat
    BY <1>1, FS_CardinalityType
  <1> QED
    BY <1>1, <1>2 DEF Indices, MaxLength

\* The oldest of some files is one of them, and none is older.
LEMMA OldestIs ==
  ASSUME NEW paths \in SUBSET Indices, paths # {}
  PROVE  Max(paths) \in paths /\ \A i \in paths : i <= Max(paths)
  <1> DEFINE T == {k \in Nat : LogFiles - k \in paths}
  <1>1. T \in SUBSET Nat
    OBVIOUS
  <1>2. T # {}
    <2>1. PICK i \in paths : TRUE
      OBVIOUS
    <2>2. i \in 0..(LogFiles - 1) /\ LogFiles \in Nat
      BY <2>1, LogConstants
    <2>3. LogFiles - i \in Nat /\ LogFiles - (LogFiles - i) = i
      BY <2>2
    <2> QED
      BY <2>1, <2>3
  <1>3. \E m \in T : \A k \in T : m <= k
    BY ONLY <1>1, <1>2, NatMin
  <1>4. PICK m \in T : \A k \in T : m <= k
    BY <1>3
  <1>5. LogFiles - m \in paths
    BY <1>4
  <1>6. ASSUME NEW i \in paths PROVE i <= LogFiles - m
    <2>1. i \in 0..(LogFiles - 1) /\ LogFiles \in Nat /\ m \in Nat
      BY <1>4, LogConstants
    <2>2. LogFiles - i \in Nat /\ LogFiles - (LogFiles - i) = i
      BY <2>1
    <2>3. LogFiles - i \in T
      BY <2>2
    <2>4. m <= LogFiles - i
      BY <1>4, <2>3
    <2> QED
      BY <2>1, <2>4
  <1>7. \E x \in paths : \A y \in paths : x >= y
    <2>1. LogFiles - m \in Int /\ \A i \in paths : i \in Int
      BY <1>5, LogConstants
    <2> QED
      BY <1>5, <1>6, <2>1
  <1>8. Max(paths) \in paths /\ \A y \in paths : Max(paths) >= y
    BY <1>7 DEF Max
  <1>9. \A i \in paths : i \in Int
    BY LogConstants
  <1> QED
    BY <1>8, <1>9

\* Every step keeps the types.
LEMMA LogTypesKept ==
  ASSUME LogsAreSeqs, EventsAreWritten, DiagnosticsNext
  PROVE  LogsAreSeqs'
  <1> USE LogConstants DEF Steps
  <1>1. PICK w \in Writers :
          \/ Record(w) \/ LookForLog(w) \/ RemoveLog(w) \/ RenameLog(w) \/ LimitTotal(w) \/ AppendEvent(w)
          \/ ExportBundle(w) \/ ReadLog(w) \/ FinishBundle(w)
    BY DEF DiagnosticsNext
  <1>2. /\ at[w] \in [step : Steps, index : Indices] /\ made[w] \in 0..MaxEvents
        /\ at \in [Writers -> [step : Steps, index : Indices]] /\ made \in [Writers -> 0..MaxEvents]
        /\ at[w].step \in {"look", "remove", "rename"} => at[w].index \in 1..(LogFiles - 1)
    BY DEF LogsAreSeqs
  <1>3. ASSUME NEW step \in Steps, NEW index \in Indices, Go(w, step, index),
               step \in {"look", "remove", "rename"} => index # 0
        PROVE  /\ at' \in [Writers -> [step : Steps, index : Indices]]
               /\ \A v \in Writers : at'[v].step \in {"look", "remove", "rename"} => at'[v].index # 0
    BY <1>2, <1>3 DEF Go, LogsAreSeqs
  <1>4. ASSUME ThenRotate(w)
        PROVE  /\ at' \in [Writers -> [step : Steps, index : Indices]]
               /\ \A v \in Writers : at'[v].step \in {"look", "remove", "rename"} => at'[v].index # 0
    BY <1>3, <1>4 DEF ThenRotate
  <1>5. ASSUME AfterFile(w, at[w].index), at[w].step \in {"look", "remove", "rename"}
        PROVE  /\ at' \in [Writers -> [step : Steps, index : Indices]]
               /\ \A v \in Writers : at'[v].step \in {"look", "remove", "rename"} => at'[v].index # 0
    BY <1>2, <1>3, <1>5 DEF AfterFile
  <1>6. ASSUME BeginRecord(w) PROVE made' \in [Writers -> 0..MaxEvents]
    <2>1. SumFunction(made) \in Nat /\ made[w] <= SumFunction(made)
      <3>1. DOMAIN made = Writers /\ \A v \in Writers : made[v] \in Nat
        BY <1>2
      <3> QED
        BY <3>1, SumIsMore
    <2>2. made[w] + 1 \in 0..MaxEvents
      BY <1>2, <1>6, <2>1 DEF BeginRecord
    <2> QED
      BY <1>2, <1>6, <2>2 DEF BeginRecord
  <1> DEFINE OK == /\ at' \in [Writers -> [step : Steps, index : Indices]]
                  /\ \A v \in Writers : at'[v].step \in {"look", "remove", "rename"} => at'[v].index # 0
  <1>7. CASE Record(w)
    BY <1>4, <1>6, <1>7 DEF Record, BeginRecord, LogsAreSeqs
  <1>8. CASE LookForLog(w)
    <2>1. OK
      BY <1>2, <1>3, <1>5, <1>8 DEF LookForLog, IsAt
    <2> QED
      BY <1>8, <2>1 DEF LookForLog, LogsAreSeqs
  <1>9. CASE RemoveLog(w)
    <2>1. OK
      BY <1>2, <1>3, <1>9 DEF RemoveLog, IsAt
    <2>2. DOMAIN logs' = Indices /\ \A i \in Indices : logs'[i] \in Seq(Events)
      BY <1>9 DEF RemoveLog, LogsAreSeqs
    <2> QED
      BY <1>9, <2>1, <2>2 DEF RemoveLog, LogsAreSeqs
  <1>10. CASE RenameLog(w)
    <2>1. OK
      BY <1>2, <1>3, <1>5, <1>10 DEF RenameLog, IsAt
    <2>2. DOMAIN logs' = Indices /\ \A i \in Indices : logs'[i] \in Seq(Events)
      <3>1. at[w].index \in Indices /\ at[w].index - 1 \in Indices
        BY <1>2, <1>10 DEF RenameLog, IsAt
      <3>2. logs[at[w].index - 1] \in Seq(Events) /\ <<>> \in Seq(Events)
        BY <3>1 DEF LogsAreSeqs
      <3>3. CASE logs' = logs
        BY <3>3 DEF LogsAreSeqs
      <3>4. CASE logs' = Renamed(at[w].index)
        <4>1. DOMAIN logs' = Indices
          BY <3>4 DEF Renamed, LogsAreSeqs
        <4>2. ASSUME NEW i \in Indices
              PROVE  logs'[i] = IF i = at[w].index - 1 THEN <<>>
                                ELSE IF i = at[w].index THEN logs[at[w].index - 1] ELSE logs[i]
          BY <3>1, <3>4 DEF Renamed, LogsAreSeqs
        <4> QED
          BY <3>2, <4>1, <4>2 DEF LogsAreSeqs
      <3> QED
        BY <1>10, <3>3, <3>4 DEF RenameLog
    <2> QED
      BY <1>10, <2>1, <2>2 DEF RenameLog, LogsAreSeqs
  <1>11. CASE LimitTotal(w)
    <2>1. OK
      BY <1>3, <1>11 DEF LimitTotal
    <2>2. DOMAIN logs' = Indices /\ \A i \in Indices : logs'[i] \in Seq(Events)
      BY <1>11 DEF LimitTotal, LogsAreSeqs
    <2> QED
      BY <1>11, <2>1, <2>2 DEF LimitTotal, LogsAreSeqs
  <1>12. CASE AppendEvent(w)
    <2>1. OK
      BY <1>3, <1>12 DEF AppendEvent
    <2>2. DOMAIN logs' = Indices /\ \A i \in Indices : logs'[i] \in Seq(Events)
      <3>1. made[w] \in 1..MaxEvents
        BY <1>2, <1>12 DEF AppendEvent, IsAt, EventsAreWritten, Recording
      <3>2. <<w, made[w]>> \in Events /\ logs[0] \in Seq(Events)
        BY <3>1 DEF Events, LogsAreSeqs
      <3>3. Append(logs[0], <<w, made[w]>>) \in Seq(Events)
        BY ONLY <3>2, AppendProperties
      <3> DEFINE longer == Append(logs[0], <<w, made[w]>>)
      <3>4. logs' = [logs EXCEPT ![0] = longer]
        BY <1>12 DEF AppendEvent
      <3> HIDE DEF longer
      <3> QED
        BY <3>3, <3>4 DEF LogsAreSeqs, longer
    <2> QED
      BY <1>12, <2>1, <2>2 DEF AppendEvent, LogsAreSeqs
  <1>13. CASE ExportBundle(w)
    <2>1. OK
      BY <1>3, <1>13 DEF ExportBundle
    <2>2. bundle' \in [paths : SUBSET Indices, events : Seq(Events)]
      BY <1>13 DEF ExportBundle, LogPaths
    <2> QED
      BY <1>13, <2>1, <2>2 DEF ExportBundle, LogsAreSeqs
  <1>14. CASE ReadLog(w)
    <2>0. bundle \in [paths : SUBSET Indices, events : Seq(Events)] /\ Max(bundle.paths) \in Indices
      BY <1>14, OldestIs DEF ReadLog, LogsAreSeqs
    <2>1. OK
      BY <1>3, <1>14 DEF ReadLog, LogsAreSeqs
    <2>2. bundle' \in [paths : SUBSET Indices, events : Seq(Events)]
      <3>1. logs[Max(bundle.paths)] \in Seq(Events)
        BY <2>0 DEF LogsAreSeqs
      <3> DEFINE more == bundle.events \o logs[Max(bundle.paths)]
      <3>2. more \in Seq(Events)
        BY <2>0, <3>1
      <3>3. \/ bundle' = [bundle EXCEPT !.paths = {}]
            \/ bundle' = [paths |-> bundle.paths \ {Max(bundle.paths)}, events |-> more]
        BY <1>14 DEF ReadLog
      <3> HIDE DEF more
      <3> QED
        BY <2>0, <3>2, <3>3
    <2> QED
      BY <1>14, <2>1, <2>2 DEF ReadLog, LogsAreSeqs
  <1>15. CASE FinishBundle(w)
    BY <1>4, <1>6, <1>15 DEF FinishBundle, BeginRecord, LogsAreSeqs
  <1> QED
    BY <1>1, <1>7, <1>8, <1>9, <1>10, <1>11, <1>12, <1>13, <1>14, <1>15

\* Where a writer goes, and that the others stay.
Goes(w, step, index) ==
  at'[w].step = step /\ at'[w].index = index /\ \A v \in Writers \ {w} : at'[v] = at[v]

GoesOn(w, again, index) == IF again THEN Goes(w, "look", index) ELSE Goes(w, "total", 0)

\* Where Go, ThenRotate and AfterFile send a writer.
LEMMA GoGoes ==
  ASSUME LogsAreSeqs, NEW w \in Writers
  PROVE  /\ \A step, index : Go(w, step, index) => Goes(w, step, index)
         /\ ThenRotate(w) => GoesOn(w, Len(logs[0]) + 1 > LogCapacity, LogFiles - 1)
         /\ \A index : AfterFile(w, index) => GoesOn(w, index # 1, index - 1)
  <1>1. ASSUME NEW step, NEW index, Go(w, step, index) PROVE Goes(w, step, index)
    BY <1>1 DEF Go, Goes, LogsAreSeqs
  <1>2. ASSUME ThenRotate(w)
        PROVE  GoesOn(w, Len(logs[0]) + 1 > LogCapacity, LogFiles - 1)
    BY <1>1, <1>2 DEF ThenRotate, GoesOn
  <1>3. ASSUME NEW index, AfterFile(w, index)
        PROVE  GoesOn(w, index # 1, index - 1)
    BY <1>1, <1>3 DEF AfterFile, GoesOn
  <1>4. \A step, index : Go(w, step, index) => Goes(w, step, index)
    BY ONLY <1>1, Zenon
  <1>5. \A index : AfterFile(w, index) => GoesOn(w, index # 1, index - 1)
    BY ONLY <1>3, Zenon
  <1> QED
    BY ONLY <1>2, <1>4, <1>5, Zenon

\* A step of a writer as far as it concerns what is written.
Begins(w) ==
  /\ ~ Recording(w) /\ Recording(w)' /\ made' = [made EXCEPT ![w] = @ + 1]
  /\ \A v \in Writers \ {w} : at'[v] = at[v]
Proceeds(w) ==
  /\ made' = made /\ (Recording(w)' => Recording(w))
  /\ \A v \in Writers \ {w} : at'[v] = at[v]

\* Two actions begin an event, the others proceed with one or none.
LEMMA BeginsOrProceeds ==
  ASSUME LogsAreSeqs, NEW w \in Writers
  PROVE  /\ Record(w) \/ FinishBundle(w) => Begins(w)
         /\ (\/ LookForLog(w) \/ RemoveLog(w) \/ RenameLog(w) \/ LimitTotal(w) \/ AppendEvent(w)
             \/ ExportBundle(w) \/ ReadLog(w))
            => Proceeds(w)
  <1>1. ASSUME Record(w) \/ FinishBundle(w) PROVE Begins(w)
    BY <1>1, GoGoes DEF Record, FinishBundle, BeginRecord, IsAt, Goes, GoesOn, Begins, Recording
  <1>2. ASSUME LookForLog(w) PROVE Proceeds(w)
    BY <1>2, GoGoes DEF LookForLog, IsAt, Goes, GoesOn, Proceeds, Recording
  <1>3. ASSUME RemoveLog(w) PROVE Proceeds(w)
    BY <1>3, GoGoes DEF RemoveLog, IsAt, Goes, GoesOn, Proceeds, Recording
  <1>4. ASSUME RenameLog(w) PROVE Proceeds(w)
    BY <1>4, GoGoes DEF RenameLog, IsAt, Goes, GoesOn, Proceeds, Recording
  <1>5. ASSUME LimitTotal(w) PROVE Proceeds(w)
    BY <1>5, GoGoes DEF LimitTotal, IsAt, Goes, GoesOn, Proceeds, Recording
  <1>6. ASSUME AppendEvent(w) PROVE Proceeds(w)
    BY <1>6, GoGoes DEF AppendEvent, IsAt, Goes, GoesOn, Proceeds, Recording
  <1>7. ASSUME ExportBundle(w) PROVE Proceeds(w)
    BY <1>7, GoGoes DEF ExportBundle, IsAt, Goes, GoesOn, Proceeds, Recording
  <1>8. ASSUME ReadLog(w) PROVE Proceeds(w)
    <2>1. made' = made /\ (at' = at \/ Go(w, "idle", 0))
      BY <1>8 DEF ReadLog
    <2>2. CASE at' = at
      BY <2>1, <2>2 DEF Proceeds, Recording
    <2>3. CASE Go(w, "idle", 0)
      BY <2>1, <2>3, GoGoes DEF Goes, Proceeds, Recording
    <2> QED
      BY <2>1, <2>2, <2>3
  <1> QED
    BY <1>1, <1>2, <1>3, <1>4, <1>5, <1>6, <1>7, <1>8

\* What a writer has written stays written.
LEMMA WrittenGrows ==
  ASSUME LogsAreSeqs, EventsAreWritten, NEW w \in Writers, Begins(w) \/ Proceeds(w)
  PROVE  /\ \A v \in Writers : /\ Written(v) \in Int /\ Written(v)' \in Int /\ Written(v) <= Written(v)'
                               /\ Recording(v)' => made'[v] > 0
         /\ Proceeds(w) /\ Recording(w) /\ ~ Recording(w)' => Written(w)' = made[w]
  <1>1. \A v \in Writers : made[v] \in Nat
    BY LogConstants DEF LogsAreSeqs
  <1>2. \A v \in Writers \ {w} : made'[v] = made[v] /\ (Recording(v)' <=> Recording(v))
    BY DEF Begins, Proceeds, Recording, LogsAreSeqs
  <1>3. CASE Begins(w)
    <2>1. made'[w] = made[w] + 1
      BY <1>3 DEF Begins, LogsAreSeqs
    <2>2. /\ Written(w) = made[w] /\ Written(w)' = made[w]
      <3>1. ~ Recording(w) /\ Recording(w)'
        BY <1>3 DEF Begins
      <3>2. Written(w) = made[w]
        BY <3>1 DEF Written
      <3>3. Written(w)' = made'[w] - 1
        BY <3>1 DEF Written
      <3>4. made'[w] - 1 = made[w]
        BY <1>1, <2>1
      <3>5. Written(w)' = made[w]
        BY ONLY <3>3, <3>4, Zenon
      <3> QED
        BY ONLY <3>2, <3>5
    <2>3. \A v \in Writers \ {w} : Written(v)' = Written(v) /\ Written(v) \in Int
      BY <1>1, <1>2 DEF Written
    <2> QED
      BY <1>1, <1>2, <1>3, <2>1, <2>2, <2>3 DEF Begins, EventsAreWritten, Proceeds
  <1>4. CASE Proceeds(w)
    <2>1. made'[w] = made[w]
      BY <1>4 DEF Proceeds
    <2>2. /\ Written(w) \in {made[w], made[w] - 1} /\ Written(w)' \in {made[w], made[w] - 1}
          /\ Written(w) <= Written(w)'
      BY <1>1, <1>4, <2>1 DEF Proceeds, Written
    <2>3. \A v \in Writers \ {w} : Written(v)' = Written(v) /\ Written(v) \in Int
      BY <1>1, <1>2 DEF Written
    <2>4. ~ Recording(w)' => Written(w)' = made[w]
      BY <2>1 DEF Written
    <2> QED
      BY <1>1, <1>2, <1>4, <2>1, <2>2, <2>3, <2>4 DEF EventsAreWritten, Proceeds
  <1> QED
    BY <1>3, <1>4

\* The four things that happen to the files.
Removes(i) == logs' = [logs EXCEPT ![i] = <<>>]
Appends(w) ==
  /\ at[w].step = "append" /\ at'[w].step = "idle" /\ made' = made
  /\ logs' = [logs EXCEPT ![0] = Append(@, <<w, made[w]>>)]
LogsChange(w) ==
  \/ logs' = logs
  \/ \E i \in Indices : Removes(i)
  \/ \E i \in Indices \ {0} : logs' = Renamed(i)
  \/ Appends(w)

\* Every step does one of these four things to the files.
LEMMA LogsDoChange ==
  ASSUME LogsAreSeqs, NEW w \in Writers,
         \/ Record(w) \/ LookForLog(w) \/ RemoveLog(w) \/ RenameLog(w) \/ LimitTotal(w) \/ AppendEvent(w)
         \/ ExportBundle(w) \/ ReadLog(w) \/ FinishBundle(w)
  PROVE  LogsChange(w)
  <1>1. CASE Record(w) \/ LookForLog(w) \/ ExportBundle(w) \/ ReadLog(w) \/ FinishBundle(w)
    BY <1>1 DEF Record, LookForLog, ExportBundle, ReadLog, FinishBundle, LogsChange
  <1>2. CASE RemoveLog(w)
    <2>1. at[w].index \in Indices
      BY DEF LogsAreSeqs
    <2> QED
      BY <1>2, <2>1 DEF RemoveLog, LogsChange, Removes
  <1>3. CASE RenameLog(w)
    <2>1. at[w].index \in Indices \ {0}
      BY <1>3 DEF RenameLog, IsAt, LogsAreSeqs
    <2> QED
      BY <1>3, <2>1 DEF RenameLog, LogsChange
  <1>4. CASE LimitTotal(w)
    <2>1. CASE logs' = logs
      BY <2>1 DEF LogsChange
    <2>2. CASE LogPaths \ {0} # {} /\ Removes(Max(LogPaths \ {0}))
      <3>1. LogPaths \ {0} \in SUBSET Indices
        BY DEF LogPaths
      <3>2. Max(LogPaths \ {0}) \in Indices
        BY <2>2, <3>1, OldestIs
      <3> QED
        BY <2>2, <3>2 DEF LogsChange
    <2> QED
      BY <1>4, <2>1, <2>2 DEF LimitTotal, Removes
  <1>5. CASE AppendEvent(w)
    <2>1. at'[w].step = "idle"
      BY <1>5, GoGoes DEF AppendEvent, Goes
    <2> QED
      BY <1>5, <2>1 DEF AppendEvent, IsAt, LogsChange, Appends
  <1> QED
    BY <1>1, <1>2, <1>3, <1>4, <1>5

\* What some files tell, from the oldest to the newest: AllEvents is Told(logs).
FilesOf(l) == [i \in 1..LogFiles |-> l[LogFiles - i]]
Told(l) == FlattenSeq(FilesOf(l))
SeqsIn(l) == \A i \in Indices : l[i] \in Seq(Events)

\* The files from the oldest to the newest are sequences of events.
LEMMA FilesAre ==
  ASSUME NEW l, SeqsIn(l)
  PROVE  /\ LogFiles \in Nat \ {0} /\ FilesOf(l) \in [1..LogFiles -> Seq(Events)]
         /\ \A i \in 1..LogFiles : /\ FilesOf(l)[i] = l[LogFiles - i] /\ FilesOf(l)[i] \in Seq(Events)
                                   /\ LogFiles - i \in Indices
  <1>1. LogFiles \in Nat \ {0} /\ Indices = 0..(LogFiles - 1)
    BY LogConstants
  <1>2. \A i \in 1..LogFiles : LogFiles - i \in Indices
    BY <1>1
  <1>3. \A i \in 1..LogFiles : l[LogFiles - i] \in Seq(Events)
    BY <1>2 DEF SeqsIn
  <1> QED
    BY <1>1, <1>2, <1>3 DEF FilesOf

Tells(l, f) == Flat(f, FilesOf(l), LogFiles) /\ Told(l) = f[LogFiles]

\* What the files tell is a sequence of events.
LEMMA ToldIsFlat ==
  ASSUME NEW l, SeqsIn(l)
  PROVE  (\E f : Tells(l, f)) /\ Told(l) \in Seq(Events)
  <1>0. LogFiles \in Nat \ {0} /\ FilesOf(l) \in [1..LogFiles -> Seq(Events)]
    BY FilesAre
  <1>1. \E f : Flat(f, FilesOf(l), LogFiles) /\ FlattenSeq(FilesOf(l)) = f[LogFiles]
    BY ONLY <1>0, FlattenIsFlat
  <1>2. PICK f : Tells(l, f)
    BY <1>1 DEF Tells, Told
  <1>3. f[LogFiles] \in Seq(Events)
    <2>1. SeqsOf(FilesOf(l), LogFiles, Events)
      BY FilesAre DEF SeqsOf
    <2>2. Flat(f, FilesOf(l), LogFiles) /\ LogFiles \in 1..LogFiles
      BY <1>0, <1>2 DEF Tells
    <2> QED
      BY ONLY <1>0, <2>1, <2>2, FlatType
  <1> QED
    BY <1>2, <1>3 DEF Tells

\* Files in order tell their events in order.
LEMMA ToldInOrder ==
  ASSUME NEW l, SeqsIn(l),
         \A i \in Indices : InOrder(l[i]) /\ \A j \in 0..(i - 1) : Before(l[i], l[j])
  PROVE  InOrder(Told(l))
  <1>1. PICK f : Tells(l, f)
    BY ToldIsFlat
  <1> DEFINE s == FilesOf(l)
  <1>2. /\ LogFiles \in Nat \ {0} /\ \A i \in 1..LogFiles : s[i] \in Seq(Events)
        /\ \A i \in 1..LogFiles : s[i] = l[LogFiles - i] /\ LogFiles - i \in Indices
    BY FilesAre
  <1> HIDE DEF s
  <1>3. \A i \in 1..LogFiles : InOrder(s[i]) /\ \A j \in (i + 1)..LogFiles : Before(s[i], s[j])
    <2>1. ASSUME NEW i \in 1..LogFiles, NEW j \in (i + 1)..LogFiles PROVE Before(s[i], s[j])
      <3>1. /\ j \in 1..LogFiles /\ LogFiles - j \in 0..(LogFiles - i - 1)
        BY <1>2
      <3> QED
        BY <1>2, <3>1
    <2> QED
      BY <1>2, <2>1
  <1>4. Flat(f, s, LogFiles)
    BY <1>1 DEF Tells, s
  <1>5. \A k \in 1..LogFiles : InOrder(f[k])
    BY ONLY <1>2, <1>3, <1>4, FlatInOrder DEF SeqsOf
  <1> QED
    BY <1>1, <1>2, <1>5 DEF Tells

\* A file that is renamed to a free name.
LEMMA ToldMove ==
  ASSUME NEW l, NEW m, SeqsIn(l), NEW k \in Indices \ {0},
         l[k] = <<>>, m[k] = l[k - 1], m[k - 1] = <<>>, \A i \in Indices : i # k /\ i # k - 1 => m[i] = l[i]
  PROVE  SeqsIn(m) /\ Told(m) = Told(l)
  <1>0. /\ LogFiles \in Nat \ {0} /\ Indices = 0..(LogFiles - 1) /\ k \in 1..(LogFiles - 1)
        /\ <<>> \in Seq(Events)
    BY LogConstants
  <1>1. SeqsIn(m)
    <2>1. k - 1 \in Indices
      BY <1>0
    <2> QED
      BY <1>0, <2>1 DEF SeqsIn
  <1>2. PICK f : Tells(l, f)
    BY ToldIsFlat
  <1>3. PICK g : Tells(m, g)
    BY <1>1, ToldIsFlat
  <1> DEFINE s == FilesOf(l)
  <1> DEFINE t == FilesOf(m)
  <1> DEFINE p == LogFiles - k
  <1>4. /\ \A i \in 1..LogFiles : s[i] \in Seq(Events)
        /\ \A i \in 1..LogFiles : s[i] = l[LogFiles - i] /\ t[i] = m[LogFiles - i] /\ LogFiles - i \in Indices
    BY <1>1, FilesAre
  <1> HIDE DEF s, t
  <1>5. /\ p \in 1..LogFiles /\ p < LogFiles /\ p + 1 \in 1..LogFiles /\ LogFiles - p = k
        /\ LogFiles - (p + 1) = k - 1
    BY <1>0
  <1>6. s[p] = <<>> /\ t[p] = s[p + 1] /\ t[p + 1] = <<>>
    BY <1>4, <1>5
  <1>7. ASSUME NEW i \in 1..LogFiles, i # p /\ i # p + 1 PROVE t[i] = s[i]
    <2>1. LogFiles - i # k /\ LogFiles - i # k - 1
      BY <1>0, <1>7
    <2> QED
      BY <1>4, <2>1
  <1>8. Flat(f, s, LogFiles) /\ Flat(g, t, LogFiles)
    BY <1>2, <1>3 DEF Tells, s, t
  <1> HIDE DEF p
  <1>9. \A i \in 1..LogFiles : i # p /\ i # p + 1 => t[i] = s[i]
    BY <1>7
  <1>9a. SeqsOf(s, LogFiles, Events)
    BY <1>4 DEF SeqsOf
  <1>10. f[LogFiles] = g[LogFiles]
    BY ONLY <1>0, <1>5, <1>6, <1>9, <1>9a, <1>8, FlatMove
  <1> QED
    BY <1>1, <1>2, <1>3, <1>10 DEF Tells

\* The oldest file that is removed.
LEMMA ToldDrop ==
  ASSUME NEW l, NEW m, SeqsIn(l), m[LogFiles - 1] = <<>>, \A i \in 0..(LogFiles - 2) : m[i] = l[i]
  PROVE  SeqsIn(m) /\ Told(l) = Cat(l[LogFiles - 1], Told(m))
  <1>0. /\ LogFiles \in Nat \ {0} /\ Indices = 0..(LogFiles - 1) /\ LogFiles >= 2
        /\ <<>> \in Seq(Events)
    BY LogConstants
  <1>1. SeqsIn(m)
    <2>1. \A i \in Indices : i = LogFiles - 1 \/ i \in 0..(LogFiles - 2)
      BY <1>0
    <2> QED
      BY <1>0, <2>1 DEF SeqsIn
  <1>2. PICK f : Tells(l, f)
    BY ToldIsFlat
  <1>3. PICK g : Tells(m, g)
    BY <1>1, ToldIsFlat
  <1> DEFINE s == FilesOf(l)
  <1> DEFINE t == FilesOf(m)
  <1>4. /\ \A i \in 1..LogFiles : s[i] \in Seq(Events)
        /\ \A i \in 1..LogFiles : s[i] = l[LogFiles - i] /\ t[i] = m[LogFiles - i] /\ LogFiles - i \in Indices
    BY <1>1, FilesAre
  <1> HIDE DEF s, t
  <1>5. t[1] = <<>> /\ s[1] = l[LogFiles - 1]
    BY <1>0, <1>4
  <1>6. \A i \in 2..LogFiles : t[i] = s[i]
    <2>1. \A i \in 2..LogFiles : i \in 1..LogFiles /\ LogFiles - i \in 0..(LogFiles - 2)
      BY <1>0
    <2> QED
      BY <1>4, <2>1
  <1>8. Flat(f, s, LogFiles) /\ Flat(g, t, LogFiles)
    BY <1>2, <1>3 DEF Tells, s, t
  <1>9. SeqsOf(s, LogFiles, Events)
    BY <1>4 DEF SeqsOf
  <1>10. f[LogFiles] = Cat(s[1], g[LogFiles])
    BY ONLY <1>0, <1>5, <1>6, <1>8, <1>9, FlatDrop
  <1> QED
    BY <1>1, <1>2, <1>3, <1>5, <1>10 DEF Tells

\* An event at the end of the newest file.
LEMMA ToldAppend ==
  ASSUME NEW l, NEW m, SeqsIn(l), NEW e \in Events, m[0] = Append(l[0], e), \A i \in Indices \ {0} : m[i] = l[i]
  PROVE  SeqsIn(m) /\ Told(m) = Append(Told(l), e)
  <1>0. /\ LogFiles \in Nat \ {0} /\ Indices = 0..(LogFiles - 1) /\ LogFiles >= 2
    BY LogConstants
  <1>1. SeqsIn(m)
    <2>1. l[0] \in Seq(Events)
      BY <1>0 DEF SeqsIn
    <2>2. Append(l[0], e) \in Seq(Events)
      BY ONLY <2>1, AppendProperties, e \in Events
    <2> QED
      BY ONLY <2>2, SeqsIn(l), m[0] = Append(l[0], e), \A i \in Indices \ {0} : m[i] = l[i] DEF SeqsIn
  <1>2. PICK f : Tells(l, f)
    BY ToldIsFlat
  <1>3. PICK g : Tells(m, g)
    BY <1>1, ToldIsFlat
  <1> DEFINE s == FilesOf(l)
  <1> DEFINE t == FilesOf(m)
  <1>4. /\ \A i \in 1..LogFiles : s[i] \in Seq(Events)
        /\ \A i \in 1..LogFiles : s[i] = l[LogFiles - i] /\ t[i] = m[LogFiles - i] /\ LogFiles - i \in Indices
    BY <1>1, FilesAre
  <1> HIDE DEF s, t
  <1>5. s[LogFiles] = l[0] /\ t[LogFiles] = m[0]
    BY <1>0, <1>4
  <1>6. \A i \in 1..(LogFiles - 1) : t[i] = s[i]
    <2>1. \A i \in 1..(LogFiles - 1) : i \in 1..LogFiles /\ LogFiles - i \in Indices \ {0}
      BY <1>0
    <2> QED
      BY <1>4, <2>1
  <1>7. t[LogFiles] = Append(s[LogFiles], e)
    BY ONLY <1>5, m[0] = Append(l[0], e)
  <1>8. Flat(f, s, LogFiles) /\ Flat(g, t, LogFiles)
    BY <1>2, <1>3 DEF Tells, s, t
  <1>9. SeqsOf(s, LogFiles, Events)
    BY <1>4 DEF SeqsOf
  <1>10. g[LogFiles] = Append(f[LogFiles], e)
    BY ONLY <1>0, <1>6, <1>7, <1>8, <1>9, FlatAppend, e \in Events
  <1>11. Told(l) = f[LogFiles] /\ Told(m) = g[LogFiles]
    BY <1>2, <1>3 DEF Tells
  <1> QED
    BY ONLY <1>1, <1>10, <1>11

\* Bounds of what files tell.
LEMMA ToldLength ==
  ASSUME NEW l, SeqsIn(l)
  PROVE  /\ Len(Told(l)) \in Nat
         /\ (\A i \in Indices : Len(l[i]) <= LogCapacity) => Len(Told(l)) <= LogFiles * LogCapacity
         /\ (\A i \in 0..(LogFiles - 2) : Len(l[i]) >= LogCapacity) => Len(Told(l)) >= (LogFiles - 1) * LogCapacity
  <1>0. /\ LogFiles \in Nat \ {0} /\ Indices = 0..(LogFiles - 1) /\ LogFiles >= 2 /\ LogCapacity \in Nat
    BY LogConstants
  <1>2. PICK f : Tells(l, f)
    BY ToldIsFlat
  <1> DEFINE s == FilesOf(l)
  <1>4. /\ \A i \in 1..LogFiles : s[i] \in Seq(Events)
        /\ \A i \in 1..LogFiles : s[i] = l[LogFiles - i] /\ LogFiles - i \in Indices
    BY FilesAre
  <1> HIDE DEF s
  <1>5. Flat(f, s, LogFiles) /\ Told(l) = f[LogFiles]
    BY <1>2 DEF Tells, s
  <1>5a. SeqsOf(s, LogFiles, Events)
    BY <1>4 DEF SeqsOf
  <1>6. /\ (\A i \in 1..LogFiles : Len(s[i]) <= LogCapacity) => Len(f[LogFiles]) <= LogFiles * LogCapacity
        /\ (\A i \in 2..LogFiles : Len(s[i]) >= LogCapacity) => Len(f[LogFiles]) >= (LogFiles - 1) * LogCapacity
    BY ONLY <1>0, <1>5, <1>5a, FlatLength
  <1>7. Len(Told(l)) \in Nat
    BY ToldIsFlat, LenProperties
  <1>8. ASSUME \A i \in Indices : Len(l[i]) <= LogCapacity
        PROVE  \A i \in 1..LogFiles : Len(s[i]) <= LogCapacity
    BY <1>4, <1>8
  <1>9. ASSUME \A i \in 0..(LogFiles - 2) : Len(l[i]) >= LogCapacity
        PROVE  \A i \in 2..LogFiles : Len(s[i]) >= LogCapacity
    <2>1. \A i \in 2..LogFiles : i \in 1..LogFiles /\ LogFiles - i \in 0..(LogFiles - 2)
      BY <1>0
    <2> QED
      BY <1>4, <1>9, <2>1
  <1> QED
    BY <1>5, <1>6, <1>7, <1>8, <1>9

StepOf(w) ==
  \/ Record(w) \/ LookForLog(w) \/ RemoveLog(w) \/ RenameLog(w) \/ LimitTotal(w) \/ AppendEvent(w)
  \/ ExportBundle(w) \/ ReadLog(w) \/ FinishBundle(w)

\* The files after a step, one by one.
LEMMA FilesAfter ==
  ASSUME LogsAreSeqs, NEW w \in Writers
  PROVE  /\ \A k \in Indices : Removes(k) => \A i \in Indices : logs'[i] = IF i = k THEN <<>> ELSE logs[i]
         /\ \A k \in Indices \ {0} : logs' = Renamed(k) =>
              \A i \in Indices : logs'[i] = IF i = k - 1 THEN <<>> ELSE IF i = k THEN logs[k - 1] ELSE logs[i]
         /\ Appends(w) => /\ logs'[0] = Append(logs[0], <<w, made[w]>>)
                          /\ \A i \in Indices \ {0} : logs'[i] = logs[i]
  <1>0. DOMAIN logs = Indices /\ 0 \in Indices /\ \A k \in Indices \ {0} : k - 1 \in Indices /\ k - 1 # k
    BY LogConstants DEF LogsAreSeqs
  <1>1. ASSUME NEW k \in Indices, Removes(k), NEW i \in Indices
        PROVE  logs'[i] = IF i = k THEN <<>> ELSE logs[i]
    BY <1>0, <1>1 DEF Removes
  <1>2. ASSUME NEW k \in Indices \ {0}, logs' = Renamed(k), NEW i \in Indices
        PROVE  logs'[i] = IF i = k - 1 THEN <<>> ELSE IF i = k THEN logs[k - 1] ELSE logs[i]
    BY <1>0, <1>2 DEF Renamed
  <1>3. ASSUME Appends(w)
        PROVE  /\ logs'[0] = Append(logs[0], <<w, made[w]>>)
               /\ \A i \in Indices \ {0} : logs'[i] = logs[i]
    <2> DEFINE longer == Append(logs[0], <<w, made[w]>>)
    <2>1. logs' = [logs EXCEPT ![0] = longer]
      BY <1>3 DEF Appends
    <2> HIDE DEF longer
    <2>2. logs'[0] = longer /\ \A i \in Indices \ {0} : logs'[i] = logs[i]
      BY <1>0, <2>1
    <2> QED
      BY <2>2 DEF longer
  <1> QED
    BY <1>1, <1>2, <1>3

\* A writer that has looked has found room.
LEMMA RoomIsFound ==
  ASSUME LogsAreSeqs, NEW w \in Writers, StepOf(w), w \notin Pending, w \in Pending'
  PROVE  Len(logs'[0]) < LogCapacity
  <1> USE LogConstants
  <1>1. ~ (at[w].step \in {"total", "append"}) /\ at'[w].step \in {"total", "append"}
    BY DEF Pending
  <1>2. logs[0] \in Seq(Events) /\ Len(logs[0]) \in Nat /\ Len(<<>>) = 0
    BY LenProperties DEF LogsAreSeqs
  <1>3. CASE Record(w) \/ FinishBundle(w)
    <2>1. GoesOn(w, Len(logs[0]) + 1 > LogCapacity, LogFiles - 1) /\ logs' = logs
      BY <1>3, GoGoes DEF Record, FinishBundle, BeginRecord
    <2>2. ~ (Len(logs[0]) + 1 > LogCapacity)
      BY <1>1, <2>1 DEF GoesOn, Goes
    <2> QED
      BY <1>2, <2>1, <2>2
  <1>4. CASE LookForLog(w)
    <2>1. CASE logs[at[w].index - 1] = <<>>
      <3>1. GoesOn(w, at[w].index # 1, at[w].index - 1) /\ logs' = logs
        BY <1>4, <2>1, GoGoes DEF LookForLog
      <3>2. at[w].index = 1
        BY <1>1, <3>1 DEF GoesOn, Goes
      <3>3. logs'[0] = <<>>
        BY <2>1, <3>1, <3>2
      <3> QED
        BY <1>2, <3>3
    <2>2. CASE logs[at[w].index - 1] # <<>>
      <3>1. Goes(w, "remove", at[w].index)
        BY <1>4, <2>2, GoGoes DEF LookForLog
      <3> QED
        BY <1>1, <3>1 DEF Goes
    <2> QED
      BY <2>1, <2>2
  <1>5. CASE RemoveLog(w)
    BY <1>1, <1>5, GoGoes DEF RemoveLog, Goes
  <1>6. CASE RenameLog(w)
    <2>1. CASE logs[at[w].index - 1] = <<>>
      BY <1>1, <1>6, <2>1, GoGoes DEF RenameLog, Goes
    <2>2. CASE logs[at[w].index - 1] # <<>>
      <3>1. GoesOn(w, at[w].index # 1, at[w].index - 1) /\ logs' = Renamed(at[w].index)
        BY <1>6, <2>2, GoGoes DEF RenameLog
      <3>2. at[w].index = 1
        BY <1>1, <3>1 DEF GoesOn, Goes
      <3>3. logs'[0] = <<>>
        <4>1. 1 \in Indices \ {0} /\ logs' = Renamed(1)
          BY <3>1, <3>2
        <4>2. logs'[0] = IF 0 = 1 - 1 THEN <<>> ELSE IF 0 = 1 THEN logs[1 - 1] ELSE logs[0]
          BY ONLY <4>1, FilesAfter, LogsAreSeqs, w \in Writers, 0 \in Indices
        <4> QED
          BY <4>2
      <3> QED
        BY <1>2, <3>3
    <2> QED
      BY <2>1, <2>2
  <1>7. CASE LimitTotal(w)
    BY <1>1, <1>7 DEF LimitTotal, IsAt
  <1>8. CASE AppendEvent(w)
    BY <1>1, <1>8 DEF AppendEvent, IsAt
  <1>9. CASE ExportBundle(w)
    BY <1>1, <1>9, GoGoes DEF ExportBundle, Goes
  <1>10. CASE ReadLog(w)
    <2>1. at' = at \/ Go(w, "idle", 0)
      BY <1>10 DEF ReadLog
    <2>2. CASE at' = at
      BY <1>1, <2>2
    <2>3. CASE Go(w, "idle", 0)
      BY <1>1, <2>3, GoGoes DEF Goes
    <2> QED
      BY <2>1, <2>2, <2>3
  <1> QED
    BY <1>3, <1>4, <1>5, <1>6, <1>7, <1>8, <1>9, <1>10 DEF StepOf

\* A step begins an event or proceeds.
LEMMA BeginOrProceed ==
  ASSUME LogsAreSeqs, NEW w \in Writers, StepOf(w)
  PROVE  Begins(w) \/ Proceeds(w)
  <1>1. CASE Record(w) \/ FinishBundle(w)
    BY <1>1, BeginsOrProceeds
  <1>2. CASE \/ LookForLog(w) \/ RemoveLog(w) \/ RenameLog(w) \/ LimitTotal(w) \/ AppendEvent(w)
            \/ ExportBundle(w) \/ ReadLog(w)
    BY <1>2, BeginsOrProceeds
  <1> QED
    BY <1>1, <1>2 DEF StepOf

\* A step leaves the other writers where they are.
LEMMA OthersStay ==
  ASSUME LogsAreSeqs, NEW w \in Writers, StepOf(w)
  PROVE  Pending' \ {w} = Pending \ {w}
  <1>1. Begins(w) \/ Proceeds(w)
    BY BeginOrProceed
  <1>2. \A v \in Writers \ {w} : at'[v] = at[v]
    BY <1>1 DEF Begins, Proceeds
  <1> QED
    BY <1>2 DEF Pending

\* How many writers have looked.
LEMMA CountOfPending ==
  ASSUME NEW w \in Writers, NEW P \in SUBSET Writers
  PROVE  /\ Cardinality(P \ {w}) \in Nat /\ Cardinality(P \ {w}) <= Cardinality(Writers) - 1
         /\ Cardinality(P) = IF w \in P THEN Cardinality(P \ {w}) + 1 ELSE Cardinality(P \ {w})
  <1>1. IsFiniteSet(Writers) /\ Cardinality(Writers) \in Nat
    BY LogConstants
  <1>2. /\ IsFiniteSet(Writers \ {w}) /\ Cardinality(Writers \ {w}) = Cardinality(Writers) - 1
    BY <1>1, FS_RemoveElement
  <1>3. /\ IsFiniteSet(P \ {w}) /\ Cardinality(P \ {w}) <= Cardinality(Writers \ {w})
    <2>1. P \ {w} \in SUBSET (Writers \ {w})
      OBVIOUS
    <2> QED
      BY <1>2, <2>1, FS_Subset
  <1>4. Cardinality(P \ {w}) \in Nat
    BY <1>3, FS_CardinalityType
  <1>5. IsFiniteSet(P) /\ Cardinality(P) \in Nat
    BY <1>1, FS_Subset, FS_CardinalityType
  <1>6. CASE w \in P
    <2>1. Cardinality(P \ {w}) = Cardinality(P) - 1
      BY <1>5, <1>6, FS_RemoveElement
    <2> QED
      BY <1>2, <1>3, <1>4, <1>5, <1>6, <2>1
  <1>7. CASE w \notin P
    <2>1. P \ {w} = P
      BY <1>7
    <2> QED
      BY <1>2, <1>3, <1>4, <1>7, <2>1
  <1> QED
    BY <1>6, <1>7

\* Arithmetic of a writer that has appended.
LEMMA OneMovesOver == \A a, c \in Nat : \A m \in Int : a + (c + 1) <= m => a + 1 + c <= m
  OBVIOUS

\* A step keeps the files within their bound: who has looked has room, and so has everyone else who looked.
LEMMA LogsStayShort ==
  ASSUME LogsAreSeqs, LogsAreSeqs', LogsAreShort, NEW w \in Writers, StepOf(w)
  PROVE  LogsAreShort'
  <1> DEFINE others == Cardinality(Pending \ {w})
  <1>1. /\ others \in Nat /\ others <= Cardinality(Writers) - 1
        /\ Cardinality(Pending) = IF w \in Pending THEN others + 1 ELSE others
        /\ Cardinality(Pending') = IF w \in Pending' THEN others + 1 ELSE others
    <2>1. Pending \in SUBSET Writers /\ Pending' \in SUBSET Writers
      BY DEF Pending
    <2>2. Pending' \ {w} = Pending \ {w}
      BY OthersStay
    <2> QED
      BY ONLY <2>1, <2>2, CountOfPending, w \in Writers
  <1> DEFINE after == Cardinality(Pending')
  <1> DEFINE newest == Len(logs'[0])
  <1>1a. after = IF w \in Pending' THEN others + 1 ELSE others
    BY <1>1
  <1>1b. newest + after <= MaxLength /\ (\A i \in Indices : Len(logs'[i]) <= MaxLength) => LogsAreShort'
    <2>1. MaxLength' = MaxLength /\ Indices' = Indices
      BY DEF MaxLength, Indices
    <2> QED
      BY <2>1 DEF LogsAreShort
  <1>1c. newest = Len(logs'[0])
    OBVIOUS
  <1> HIDE DEF others, after, newest
  <1>2. /\ \A i \in Indices : Len(logs[i]) \in Nat /\ Len(logs'[i]) \in Nat
        /\ 0 \in Indices /\ LogCapacity \in Nat /\ LogCapacity >= 1
        /\ Cardinality(Writers) \in Nat /\ MaxLength = LogCapacity + Cardinality(Writers) - 1
    BY LogConstants, LenProperties DEF LogsAreSeqs, MaxLength
  <1>3. LogsChange(w)
    BY LogsDoChange DEF StepOf
  <1>4. Len(<<>>) = 0
    BY EmptySeq
  <1>5. CASE Appends(w)
    <2>1. w \in Pending /\ w \notin Pending'
      BY <1>5 DEF Appends, Pending
    <2>2. Len(logs'[0]) = Len(logs[0]) + 1 /\ \A i \in Indices \ {0} : logs'[i] = logs[i]
      <3>1. logs[0] \in Seq(Events)
        BY <1>2 DEF LogsAreSeqs
      <3>2. /\ logs'[0] = Append(logs[0], <<w, made[w]>>) /\ \A i \in Indices \ {0} : logs'[i] = logs[i]
        BY <1>5, FilesAfter
      <3>3. Len(Append(logs[0], <<w, made[w]>>)) = Len(logs[0]) + 1
        BY <3>1
      <3> QED
        BY ONLY <3>2, <3>3
    <2>3. newest + after <= MaxLength
      <3>1. Cardinality(Pending) = others + 1 /\ after = others /\ others \in Nat
        BY <1>1, <1>1a, <2>1
      <3>2. Len(logs[0]) + Cardinality(Pending) <= MaxLength
        BY DEF LogsAreShort
      <3>3. Len(logs[0]) \in Nat /\ MaxLength \in Int
        BY <1>2
      <3>4. newest = Len(logs[0]) + 1
        BY <1>1c, <2>2
      <3>5. Len(logs[0]) + (others + 1) <= MaxLength
        BY ONLY <3>1, <3>2, Zenon
      <3>6. Len(logs[0]) + 1 + others <= MaxLength
        BY ONLY <3>1, <3>3, <3>5, OneMovesOver
      <3> QED
        BY ONLY <3>1, <3>4, <3>6, Zenon
    <2>4. \A i \in Indices : Len(logs'[i]) <= MaxLength
      <3>1. newest <= MaxLength
        <4>1. newest \in Nat /\ after \in Nat /\ MaxLength \in Int
          BY <1>1, <1>1a, <1>1c, <1>2
        <4> QED
          BY ONLY <2>3, <4>1
      <3> QED
        BY <1>1c, <2>2, <3>1 DEF LogsAreShort
    <2> QED
      BY <1>1b, <2>3, <2>4
  <1>6. CASE ~ Appends(w)
    <2>1. \A i \in Indices : \E j \in Indices : (i = 0 => j = 0) /\ (Len(logs'[i]) = Len(logs[j]) \/ logs'[i] = <<>>)
      <3>1. CASE logs' = logs
        BY <3>1
      <3>2. ASSUME NEW k \in Indices, Removes(k)
            PROVE  \A i \in Indices : logs'[i] = <<>> \/ logs'[i] = logs[i]
        BY <3>2, FilesAfter
      <3>3. ASSUME NEW k \in Indices \ {0}, logs' = Renamed(k)
            PROVE  \A i \in Indices : logs'[i] = <<>> \/ (i # 0 /\ logs'[i] = logs[k - 1]) \/ logs'[i] = logs[i]
        BY <3>3, FilesAfter
      <3>4. \A k \in Indices \ {0} : k - 1 \in Indices
        BY LogConstants
      <3> QED
        BY <1>3, <1>6, <3>1, <3>2, <3>3, <3>4 DEF LogsChange
    <2>2. \A i \in Indices : Len(logs'[i]) <= MaxLength
      BY <1>2, <1>4, <2>1 DEF LogsAreShort
    <2>3. newest = Len(logs[0]) \/ newest = 0
      BY <1>1c, <1>2, <1>4, <2>1
    <2>4. newest + after <= MaxLength
      <3>1. CASE w \in Pending' /\ w \notin Pending
        <4>1. newest < LogCapacity
          BY <1>1c, <3>1, RoomIsFound
        <4>2. after = others + 1 /\ others \in Nat /\ others <= Cardinality(Writers) - 1
          BY <1>1, <1>1a, <3>1
        <4>3. newest \in Nat /\ LogCapacity \in Nat /\ Cardinality(Writers) \in Nat
          BY <1>1c, <1>2
        <4>4. MaxLength = LogCapacity + Cardinality(Writers) - 1
          BY <1>2
        <4> QED
          BY ONLY <4>1, <4>2, <4>3, <4>4
      <3>2. CASE w \in Pending \/ w \notin Pending'
        <4>1. /\ after \in Nat /\ Cardinality(Pending) \in Nat
              /\ after <= Cardinality(Pending)
          BY <1>1, <1>1a, <3>2
        <4>2. Len(logs[0]) + Cardinality(Pending) <= MaxLength
          BY DEF LogsAreShort
        <4>3. newest \in Nat /\ Len(logs[0]) \in Nat /\ MaxLength \in Int
          BY <1>1c, <1>2
        <4> QED
          BY ONLY <2>3, <4>1, <4>2, <4>3
      <3> QED
        BY <3>1, <3>2
    <2> QED
      BY <1>1b, <2>2, <2>4
  <1> QED
    BY <1>5, <1>6

\* An event that is later than all of a sequence.
After(s, e) == \A i \in 1..Len(s) : s[i][1] = e[1] => s[i][2] < e[2]

\* A later event at the end keeps the order.
LEMMA AppendedAfter ==
  ASSUME NEW S, NEW s \in Seq(S), NEW e \in S
  PROVE  /\ InOrder(s) /\ After(s, e) => InOrder(Append(s, e))
         /\ \A t \in Seq(S) : Before(t, s) /\ After(t, e) => Before(t, Append(s, e))
  <1> DEFINE longer == Append(s, e)
  <1>1. /\ Len(longer) = Len(s) + 1 /\ longer[Len(s) + 1] = e /\ Len(s) \in Nat
        /\ \A i \in 1..Len(s) : longer[i] = s[i]
        /\ DOMAIN longer = 1..(Len(s) + 1) /\ DOMAIN s = 1..Len(s)
    <2>1. longer \in Seq(S)
      BY AppendProperties
    <2> QED
      BY <2>1, AppendProperties, LenProperties
  <1> HIDE DEF longer
  <1>2. \A i \in 1..(Len(s) + 1) : i \in 1..Len(s) \/ i = Len(s) + 1
    BY <1>1
  <1>3. ASSUME InOrder(s), After(s, e) PROVE InOrder(longer)
    <2>1. ASSUME NEW i \in DOMAIN longer, NEW j \in DOMAIN longer, i < j, longer[i][1] = longer[j][1]
          PROVE  longer[i][2] < longer[j][2]
      <3>1. i \in 1..Len(s) /\ longer[i] = s[i]
        BY <1>1, <2>1
      <3>2. CASE j = Len(s) + 1
        <4>1. longer[j] = e
          BY <1>1, <3>2
        <4> QED
          BY <1>3, <2>1, <3>1, <4>1 DEF After
      <3>3. CASE j \in 1..Len(s)
        <4>1. longer[j] = s[j]
          BY <1>1, <3>3
        <4> QED
          BY <1>1, <1>3, <2>1, <3>1, <3>3, <4>1 DEF InOrder
      <3> QED
        BY <1>1, <1>2, <3>2, <3>3
    <2> QED
      BY <2>1 DEF InOrder
  <1>4. ASSUME NEW t \in Seq(S), Before(t, s), After(t, e) PROVE Before(t, longer)
    <2>1. ASSUME NEW i \in 1..Len(t), NEW j \in 1..Len(longer), t[i][1] = longer[j][1]
          PROVE  t[i][2] < longer[j][2]
      <3>1. CASE j = Len(s) + 1
        <4>1. longer[j] = e
          BY <1>1, <3>1
        <4> QED
          BY <1>4, <2>1, <4>1 DEF After
      <3>2. CASE j \in 1..Len(s)
        <4>1. longer[j] = s[j]
          BY <1>1, <3>2
        <4> QED
          BY <1>4, <2>1, <3>2, <4>1 DEF Before
      <3> QED
        BY <1>1, <1>2, <3>1, <3>2
    <2> QED
      BY <2>1 DEF Before
  <1> QED
    BY <1>3, <1>4 DEF longer

\* The empty sequence is in order, before and after everything.
LEMMA NothingIsInOrder ==
  InOrder(<<>>) /\ (\A s : Before(<<>>, s) /\ Before(s, <<>>)) /\ \A e : After(<<>>, e)
  BY DEF InOrder, Before, After

\* The event that a writer appends is later than all of its own that are written.
LEMMA AppendedIsLater ==
  ASSUME LogsAreSeqs, EventsAreWritten, NEW w \in Writers, at[w].step = "append"
  PROVE  /\ made[w] \in 1..MaxEvents /\ <<w, made[w]>> \in Events
         /\ \A s \in Seq(Events) : OnlyWritten(s) => After(s, <<w, made[w]>>)
  <1>1. Recording(w)
    BY DEF Recording
  <1>2. made[w] \in 1..MaxEvents
    BY <1>1, LogConstants DEF LogsAreSeqs, EventsAreWritten
  <1>3. <<w, made[w]>> \in Events
    BY <1>2 DEF Events
  <1>4. Written(w) = made[w] - 1
    BY <1>1 DEF Written
  <1>5. ASSUME NEW s \in Seq(Events), OnlyWritten(s), NEW i \in 1..Len(s), s[i][1] = <<w, made[w]>>[1]
        PROVE  s[i][2] < <<w, made[w]>>[2]
    <2>1. s[i] \in Events
      BY ElementOfSeq
    <2>2. s[i][1] = w /\ s[i][2] \in Nat
      BY <1>5, <2>1, LogConstants DEF Events
    <2>3. s[i][2] <= made[w] - 1
      BY <1>4, <1>5, <2>2 DEF OnlyWritten, Within, Counts
    <2> QED
      BY <1>2, <2>2, <2>3, LogConstants
  <1>6. \A s \in Seq(Events) : OnlyWritten(s) => After(s, <<w, made[w]>>)
    BY <1>5 DEF After
  <1> QED
    BY <1>2, <1>3, <1>6

\* A step keeps the files in order, each before the newer ones.
LEMMA FilesStayInOrder ==
  ASSUME LogsAreSeqs, EventsAreWritten, FilesInOrder, NEW w \in Writers, LogsChange(w)
  PROVE  FilesInOrder'
  <1>0. /\ \A i \in Indices : InOrder(logs[i]) /\ logs[i] \in Seq(Events)
        /\ \A i \in Indices : \A j \in 0..(i - 1) : j \in Indices /\ Before(logs[i], logs[j])
        /\ Indices = 0..(LogFiles - 1) /\ LogFiles \in Nat
    BY LogConstants DEF FilesInOrder, LogsAreSeqs
  <1>1. SUFFICES \A i \in Indices : InOrder(logs'[i]) /\ \A j \in 0..(i - 1) : Before(logs'[i], logs'[j])
    <2>1. Indices' = Indices
      BY DEF Indices
    <2> QED
      BY <2>1 DEF FilesInOrder, InOrder, Before
  <1>2. CASE logs' = logs
    BY <1>0, <1>2
  <1>3. ASSUME NEW k \in Indices, Removes(k)
        PROVE  \A i \in Indices : InOrder(logs'[i]) /\ \A j \in 0..(i - 1) : Before(logs'[i], logs'[j])
    <2>1. \A i \in Indices : logs'[i] = <<>> \/ logs'[i] = logs[i]
      BY <1>3, FilesAfter
    <2> QED
      BY <1>0, <2>1, NothingIsInOrder
  <1>4. ASSUME NEW k \in Indices \ {0}, logs' = Renamed(k)
        PROVE  \A i \in Indices : InOrder(logs'[i]) /\ \A j \in 0..(i - 1) : Before(logs'[i], logs'[j])
    <2>1. \A i \in Indices : logs'[i] = IF i = k - 1 THEN <<>> ELSE IF i = k THEN logs[k - 1] ELSE logs[i]
      BY <1>4, FilesAfter
    <2>2. k - 1 \in Indices /\ k \in Indices
      BY <1>0
    <2>3. ASSUME NEW i \in Indices PROVE InOrder(logs'[i])
      BY <1>0, <2>1, <2>2, NothingIsInOrder
    <2>4. ASSUME NEW i \in Indices, NEW j \in 0..(i - 1) PROVE Before(logs'[i], logs'[j])
      <3>1. j \in Indices
        BY <1>0
      <3>2. CASE i = k - 1 \/ j = k - 1
        BY <2>1, <3>1, <3>2, NothingIsInOrder
      <3>3. CASE i = k /\ j # k - 1
        <4>1. j \in 0..(k - 1 - 1) /\ logs'[i] = logs[k - 1] /\ logs'[j] = logs[j]
          BY <1>0, <2>1, <2>2, <3>1, <3>3
        <4> QED
          BY <1>0, <2>2, <4>1
      <3>4. CASE j = k
        <4>1. k - 1 \in 0..(i - 1) /\ logs'[i] = logs[i] /\ logs'[j] = logs[k - 1]
          BY <1>0, <2>1, <2>2, <3>1, <3>4
        <4> QED
          BY <1>0, <4>1
      <3>5. CASE i # k - 1 /\ j # k - 1 /\ i # k /\ j # k
        <4>1. logs'[i] = logs[i] /\ logs'[j] = logs[j]
          BY <2>1, <3>1, <3>5
        <4> QED
          BY <1>0, <4>1
      <3> QED
        BY <3>2, <3>3, <3>4, <3>5
    <2> QED
      BY <2>3, <2>4
  <1>5. CASE Appends(w)
    <2>1. /\ logs'[0] = Append(logs[0], <<w, made[w]>>)
          /\ \A i \in Indices \ {0} : logs'[i] = logs[i]
      BY <1>5, FilesAfter
    <2> DEFINE e == <<w, made[w]>>
    <2>2. e \in Events /\ \A i \in Indices : After(logs[i], e)
      BY <1>0, <1>5, AppendedIsLater DEF Appends, EventsAreWritten
    <2>3. logs'[0] = Append(logs[0], e)
      BY <2>1
    <2> HIDE DEF e
    <2>4. 0 \in Indices /\ logs[0] \in Seq(Events) /\ InOrder(logs[0])
      BY <1>0, LogConstants
    <2>5. /\ InOrder(logs'[0])
          /\ \A t \in Seq(Events) : Before(t, logs[0]) /\ After(t, e) => Before(t, logs'[0])
      BY ONLY <2>2, <2>3, <2>4, AppendedAfter
    <2>6. ASSUME NEW i \in Indices PROVE InOrder(logs'[i])
      BY <1>0, <2>1, <2>5
    <2>7. ASSUME NEW i \in Indices, NEW j \in 0..(i - 1) PROVE Before(logs'[i], logs'[j])
      <3>1. i # 0 /\ logs'[i] = logs[i] /\ Before(logs[i], logs[j]) /\ j \in Indices
        BY <1>0, <2>1
      <3> QED
        BY <1>0, <2>1, <2>2, <2>5, <3>1
    <2> QED
      BY <2>6, <2>7
  <1> QED
    BY <1>2, <1>3, <1>4, <1>5 DEF LogsChange

\* Written events together, or with one more that is written.
LEMMA WithinTogether ==
  ASSUME NEW counts, NEW S, NEW s \in Seq(S), Within(s, counts)
  PROVE  /\ \A t \in Seq(S) : Within(t, counts) => Within(Cat(s, t), counts)
         /\ \A e \in S : e[2] <= counts[e[1]] => Within(Append(s, e), counts)
  <1>1. ASSUME NEW t \in Seq(S), Within(t, counts) PROVE Within(Cat(s, t), counts)
    <2>1. /\ Len(Cat(s, t)) = Len(s) + Len(t) /\ Len(s) \in Nat /\ Len(t) \in Nat
          /\ \A i \in 1..(Len(s) + Len(t)) : Cat(s, t)[i] = IF i <= Len(s) THEN s[i] ELSE t[i - Len(s)]
      BY CatProperties
    <2>2. \A i \in 1..(Len(s) + Len(t)) : /\ i <= Len(s) => i \in 1..Len(s)
                                         /\ ~ (i <= Len(s)) => i - Len(s) \in 1..Len(t)
      BY ONLY <2>1, WhichPart
    <2> DEFINE both == Cat(s, t)
    <2>3. /\ Len(both) = Len(s) + Len(t)
          /\ \A i \in 1..(Len(s) + Len(t)) : both[i] = IF i <= Len(s) THEN s[i] ELSE t[i - Len(s)]
      BY <2>1
    <2> HIDE DEF both
    <2>4. ASSUME NEW i \in 1..Len(both) PROVE both[i][2] <= counts[both[i][1]]
      <3>1. CASE i <= Len(s)
        <4>1. i \in 1..Len(s) /\ both[i] = s[i]
          BY <2>2, <2>3, <3>1
        <4> QED
          BY <4>1 DEF Within
      <3>2. CASE ~ (i <= Len(s))
        <4>1. i - Len(s) \in 1..Len(t) /\ both[i] = t[i - Len(s)]
          BY <2>2, <2>3, <3>2
        <4> QED
          BY <1>1, <4>1 DEF Within
      <3> QED
        BY <3>1, <3>2
    <2> QED
      BY <2>4 DEF both, Within
  <1>2. ASSUME NEW e \in S, e[2] <= counts[e[1]] PROVE Within(Append(s, e), counts)
    <2>1. /\ Len(Append(s, e)) = Len(s) + 1 /\ Append(s, e)[Len(s) + 1] = e /\ Len(s) \in Nat
          /\ \A i \in 1..Len(s) : Append(s, e)[i] = s[i]
      BY AppendProperties, LenProperties
    <2>2. \A i \in 1..(Len(s) + 1) : i \in 1..Len(s) \/ i = Len(s) + 1
      BY <2>1
    <2>3. Within(s, counts)
      OBVIOUS
    <2> DEFINE longer == Append(s, e)
    <2>4. /\ Len(longer) = Len(s) + 1 /\ longer[Len(s) + 1] = e
          /\ \A i \in 1..Len(s) : longer[i] = s[i]
      BY <2>1
    <2> HIDE DEF longer
    <2>5. Within(longer, counts)
      BY ONLY <1>2, <2>2, <2>3, <2>4 DEF Within
    <2> QED
      BY <2>5 DEF longer
  <1> QED
    BY <1>1, <1>2

\* A file that is read goes to the end of the bundle.
LEMMA WhatIsRead ==
  ASSUME LogsAreSeqs, NEW w \in Writers, ReadLog(w)
  PROVE  /\ bundle'.events = bundle.events \/ bundle'.events = Cat(bundle.events, logs[Max(bundle.paths)])
         /\ bundle'.events # bundle.events => bundle'.paths = bundle.paths \ {Max(bundle.paths)}
         /\ bundle'.paths = {} \/ bundle'.paths = bundle.paths \ {Max(bundle.paths)}
  <1> DEFINE oldest == Max(bundle.paths)
  <1> DEFINE longer == Cat(bundle.events, logs[oldest])
  <1>1. bundle = [paths |-> bundle.paths, events |-> bundle.events]
    BY DEF LogsAreSeqs
  <1>2. \/ bundle' = [bundle EXCEPT !.paths = {}]
        \/ bundle' = [paths |-> bundle.paths \ {oldest}, events |-> longer]
    BY DEF ReadLog, Cat
  <1> HIDE DEF oldest, longer
  <1>3. /\ bundle'.events = bundle.events \/ bundle'.events = longer
        /\ bundle'.events # bundle.events => bundle'.paths = bundle.paths \ {oldest}
        /\ bundle'.paths = {} \/ bundle'.paths = bundle.paths \ {oldest}
    BY <1>1, <1>2
  <1> QED
    BY <1>3 DEF oldest, longer

\* A step leaves only written events in files and bundle.
LEMMA EventsStayWritten ==
  ASSUME LogsAreSeqs, LogsAreSeqs', EventsAreWritten, NEW w \in Writers, StepOf(w)
  PROVE  EventsAreWritten'
  <1>0. Begins(w) \/ Proceeds(w)
    BY BeginOrProceed
  <1>1. \A v \in Writers : /\ Written(v) \in Int /\ Written(v)' \in Int /\ Written(v) <= Written(v)'
                           /\ Recording(v)' => made'[v] > 0
    BY <1>0, WrittenGrows
  <1> DEFINE later == Counts'
  <1>1a. \A v \in Writers : Counts[v] \in Int /\ later[v] \in Int /\ Counts[v] <= later[v]
    BY <1>1 DEF Counts
  <1>3. SUFFICES (\A i \in Indices : Within(logs'[i], later)) /\ Within(bundle'.events, later)
    <2>1. Indices' = Indices
      BY DEF Indices
    <2>2. (\A i \in Indices : OnlyWritten(logs[i]))'
      BY <1>3, <2>1 DEF Within, OnlyWritten
    <2>3. OnlyWritten(bundle.events)'
      BY <1>3 DEF Within, OnlyWritten
    <2> QED
      BY <1>1, <2>2, <2>3 DEF EventsAreWritten
  <1>3a. \A v \in Writers : later[v] = Written(v)'
    BY DEF Counts
  <1> HIDE DEF later
  <1>2. ASSUME NEW s \in Seq(Events), Within(s, Counts) PROVE Within(s, later)
    <2>1. ASSUME NEW i \in 1..Len(s) PROVE s[i][2] <= later[s[i][1]]
      <3>1. s[i] \in Events
        BY ElementOfSeq
      <3>2. s[i][1] \in Writers /\ s[i][2] \in Int
        BY <3>1, LogConstants DEF Events
      <3>3. s[i][2] <= Counts[s[i][1]]
        BY <1>2 DEF Within
      <3> DEFINE v == s[i][1]
      <3>4. Counts[v] \in Int /\ later[v] \in Int /\ Counts[v] <= later[v]
        BY <1>1a, <3>2
      <3> QED
        BY <3>2, <3>3, <3>4
    <2> QED
      BY <2>1 DEF Within
  <1>4. \A i \in Indices : Within(logs[i], later)
    BY <1>2 DEF EventsAreWritten, LogsAreSeqs, OnlyWritten
  <1>5. Within(<<>>, later)
    BY DEF Within
  <1>6. \A i \in Indices : Within(logs'[i], later)
    <2>0. LogsChange(w)
      BY LogsDoChange DEF StepOf
    <2>1. CASE logs' = logs
      BY <1>4, <2>1
    <2>2. ASSUME NEW k \in Indices, Removes(k) PROVE \A i \in Indices : Within(logs'[i], later)
      BY <1>4, <1>5, <2>2, FilesAfter
    <2>3. ASSUME NEW k \in Indices \ {0}, logs' = Renamed(k) PROVE \A i \in Indices : Within(logs'[i], later)
      <3>1. k - 1 \in Indices
        BY LogConstants
      <3> QED
        BY <1>4, <1>5, <2>3, <3>1, FilesAfter
    <2>4. CASE Appends(w)
      <3>1. /\ logs'[0] = Append(logs[0], <<w, made[w]>>) /\ \A i \in Indices \ {0} : logs'[i] = logs[i]
        BY <2>4, FilesAfter
      <3> DEFINE e == <<w, made[w]>>
      <3>2. e \in Events /\ e[2] <= later[e[1]]
        <4>1. e \in Events /\ made[w] \in 1..MaxEvents
          BY <2>4, AppendedIsLater DEF Appends
        <4>2. ~ Recording(w)' /\ made' = made
          BY <2>4 DEF Appends, Recording
        <4>3. Written(w)' = made[w]
          BY <4>2 DEF Written
        <4>4. later[w] = made[w]
          BY <1>3a, <4>3
        <4> QED
          BY <4>1, <4>4, LogConstants
      <3>3. logs[0] \in Seq(Events) /\ Within(logs[0], later)
        BY <1>4, LogConstants DEF LogsAreSeqs
      <3>6. logs'[0] = Append(logs[0], e)
        BY <3>1
      <3> HIDE DEF e
      <3>7. Within(logs'[0], later)
        BY ONLY <3>2, <3>3, <3>6, WithinTogether
      <3> QED
        BY <1>4, <3>1, <3>7
    <2> QED
      BY <2>0, <2>1, <2>2, <2>3, <2>4 DEF LogsChange
  <1>7. Within(bundle'.events, later)
    <2>0. bundle.events \in Seq(Events) /\ Within(bundle.events, later)
      BY <1>2 DEF EventsAreWritten, LogsAreSeqs, OnlyWritten
    <2>1. CASE bundle' = bundle
      BY <2>0, <2>1
    <2>2. CASE ExportBundle(w)
      BY <1>5, <2>2 DEF ExportBundle
    <2>3. CASE ReadLog(w)
      <3> DEFINE oldest == Max(bundle.paths)
      <3>1. oldest \in Indices
        BY <2>3, OldestIs DEF ReadLog, LogsAreSeqs
      <3>2. \/ bundle'.events = bundle.events
            \/ bundle'.events = Cat(bundle.events, logs[oldest])
        BY <2>3, WhatIsRead
      <3>3. logs[oldest] \in Seq(Events) /\ Within(logs[oldest], later)
        BY <1>4, <3>1 DEF LogsAreSeqs
      <3> HIDE DEF oldest
      <3>4. Within(Cat(bundle.events, logs[oldest]), later)
        BY ONLY <2>0, <3>3, WithinTogether
      <3> QED
        BY <2>0, <3>2, <3>4
    <2>4. CASE ~ ExportBundle(w) /\ ~ ReadLog(w)
      <3>1. bundle' = bundle
        BY <2>4 DEF StepOf, Record, LookForLog, RemoveLog, RenameLog, LimitTotal, AppendEvent, FinishBundle
      <3> QED
        BY <2>1, <3>1
    <2> QED
      BY <2>2, <2>3, <2>4
  <1> QED
    BY <1>6, <1>7

\* What is before two sequences is before both together, and both are before
\* what each is before.
LEMMA BothBefore ==
  ASSUME NEW S, NEW s \in Seq(S), NEW t \in Seq(S)
  PROVE  \A u \in Seq(S) : Before(s, u) /\ Before(t, u) => Before(Cat(s, t), u)
  <1>1. /\ Len(Cat(s, t)) = Len(s) + Len(t) /\ Len(s) \in Nat /\ Len(t) \in Nat
        /\ \A i \in 1..(Len(s) + Len(t)) : Cat(s, t)[i] = IF i <= Len(s) THEN s[i] ELSE t[i - Len(s)]
    BY CatProperties
  <1>2. \A i \in 1..(Len(s) + Len(t)) : /\ i <= Len(s) => i \in 1..Len(s)
                                       /\ ~ (i <= Len(s)) => i - Len(s) \in 1..Len(t)
    BY ONLY <1>1, WhichPart
  <1> DEFINE both == Cat(s, t)
  <1>3. /\ Len(both) = Len(s) + Len(t)
        /\ \A i \in 1..(Len(s) + Len(t)) : both[i] = IF i <= Len(s) THEN s[i] ELSE t[i - Len(s)]
    BY <1>1
  <1> HIDE DEF both
  <1>4. ASSUME NEW u \in Seq(S), Before(s, u), Before(t, u) PROVE Before(both, u)
    <2>1. ASSUME NEW i \in 1..Len(both), NEW j \in 1..Len(u), both[i][1] = u[j][1]
          PROVE  both[i][2] < u[j][2]
      <3>1. CASE i <= Len(s)
        <4>1. i \in 1..Len(s) /\ both[i] = s[i]
          BY <1>2, <1>3, <3>1
        <4> QED
          BY <1>4, <2>1, <4>1 DEF Before
      <3>2. CASE ~ (i <= Len(s))
        <4>1. i - Len(s) \in 1..Len(t) /\ both[i] = t[i - Len(s)]
          BY <1>2, <1>3, <3>2
        <4> QED
          BY <1>4, <2>1, <4>1 DEF Before
      <3> QED
        BY <3>1, <3>2
    <2> QED
      BY <2>1 DEF Before
  <1> QED
    BY <1>4 DEF both

\* A step keeps the bundle in order and before the files that it has not read.
LEMMA BundleStaysAhead ==
  ASSUME LogsAreSeqs, EventsAreWritten, FilesInOrder, BundleIsAhead, NEW w \in Writers, StepOf(w)
  PROVE  BundleIsAhead'
  <1>0. /\ bundle.events \in Seq(Events) /\ bundle.paths \in SUBSET Indices
        /\ InOrder(bundle.events) /\ \A i \in bundle.paths : \A j \in 0..i : Before(bundle.events, logs[j])
        /\ Indices = 0..(LogFiles - 1) /\ LogFiles \in Nat
        /\ \A i \in Indices : logs[i] \in Seq(Events)
    BY LogConstants DEF BundleIsAhead, LogsAreSeqs
  <1>1. CASE bundle' = bundle
    <2>1. SUFFICES \A i \in bundle.paths : \A j \in 0..i : Before(bundle.events, logs'[j])
      BY <1>0, <1>1, <2>1 DEF BundleIsAhead, InOrder, Before
    <2>2. LogsChange(w)
      BY LogsDoChange DEF StepOf
    <2>3. \A i \in bundle.paths : \A j \in 0..i : j \in Indices
      BY <1>0
    <2>4. CASE logs' = logs
      BY <1>0, <2>4
    <2>5. ASSUME NEW k \in Indices, Removes(k)
          PROVE  \A i \in bundle.paths : \A j \in 0..i : Before(bundle.events, logs'[j])
      BY <1>0, <2>3, <2>5, FilesAfter, NothingIsInOrder
    <2>6. ASSUME NEW k \in Indices \ {0}, logs' = Renamed(k), NEW i \in bundle.paths, NEW j \in 0..i
          PROVE  Before(bundle.events, logs'[j])
      <3>1. logs'[j] = IF j = k - 1 THEN <<>> ELSE IF j = k THEN logs[k - 1] ELSE logs[j]
        BY <2>3, <2>6, FilesAfter
      <3>2. k \in 0..i => k - 1 \in 0..i
        BY <1>0
      <3> QED
        BY <1>0, <3>1, <3>2, NothingIsInOrder
    <2>7. CASE Appends(w)
      <3>1. /\ logs'[0] = Append(logs[0], <<w, made[w]>>) /\ \A i \in Indices \ {0} : logs'[i] = logs[i]
        BY <2>7, FilesAfter
      <3> DEFINE e == <<w, made[w]>>
      <3>2. e \in Events /\ After(bundle.events, e)
        BY <1>0, <2>7, AppendedIsLater DEF Appends, EventsAreWritten
      <3>3. logs[0] \in Seq(Events) /\ logs'[0] = Append(logs[0], e)
        BY <1>0, <3>1, LogConstants
      <3> HIDE DEF e
      <3>4. Before(bundle.events, logs[0]) => Before(bundle.events, logs'[0])
        BY ONLY <1>0, <3>2, <3>3, AppendedAfter
      <3> QED
        BY <1>0, <2>3, <3>1, <3>4
    <2> QED
      BY <2>2, <2>4, <2>5, <2>6, <2>7 DEF LogsChange
  <1>2. CASE ExportBundle(w)
    <2>1. bundle'.events = <<>> /\ logs' = logs
      BY <1>2 DEF ExportBundle
    <2>2. InOrder(bundle'.events) /\ \A i \in bundle'.paths : \A j \in 0..i : Before(bundle'.events, logs'[j])
      BY <2>1, NothingIsInOrder
    <2> QED
      BY <2>2 DEF BundleIsAhead, InOrder, Before
  <1>3. CASE ReadLog(w)
    <2> DEFINE oldest == Max(bundle.paths)
    <2>1. oldest \in bundle.paths /\ oldest \in Indices /\ \A i \in bundle.paths : i <= oldest
      BY <1>0, <1>3, OldestIs DEF ReadLog
    <2>2. /\ bundle'.events = bundle.events \/ bundle'.events = Cat(bundle.events, logs[oldest])
          /\ bundle'.paths = {} \/ bundle'.paths = bundle.paths \ {oldest}
          /\ logs' = logs
      BY <1>3, WhatIsRead DEF ReadLog
    <2> HIDE DEF oldest
    <2>3. /\ InOrder(logs[oldest]) /\ logs[oldest] \in Seq(Events)
          /\ \A j \in 0..(oldest - 1) : Before(logs[oldest], logs[j]) /\ j \in Indices
      BY <1>0, <2>1 DEF FilesInOrder
    <2>4. Before(bundle.events, logs[oldest])
      BY <1>0, <2>1
    <2>5. InOrder(Cat(bundle.events, logs[oldest]))
      BY <1>0, <2>3, <2>4, OrderOfConcat
    <2>6. ASSUME NEW i \in bundle'.paths, NEW j \in 0..i PROVE Before(bundle'.events, logs[j])
      <3>1. i \in bundle.paths /\ i # oldest /\ i \in Nat /\ oldest \in Nat /\ i <= oldest
        BY <1>0, <2>1, <2>2
      <3>2. j \in 0..(oldest - 1)
        BY <3>1
      <3>3. Before(bundle.events, logs[j]) /\ Before(logs[oldest], logs[j]) /\ logs[j] \in Seq(Events)
        BY <1>0, <2>3, <3>1, <3>2
      <3>4. Before(Cat(bundle.events, logs[oldest]), logs[j])
        BY <1>0, <2>3, <3>3, BothBefore
      <3> QED
        BY <2>2, <3>3, <3>4
    <2>7. InOrder(bundle'.events) /\ \A i \in bundle'.paths : \A j \in 0..i : Before(bundle'.events, logs'[j])
      BY <1>0, <2>2, <2>5, <2>6
    <2> QED
      BY <2>7 DEF BundleIsAhead, InOrder, Before
  <1>4. CASE ~ ExportBundle(w) /\ ~ ReadLog(w)
    <2>1. bundle' = bundle
      BY <1>4 DEF StepOf, Record, LookForLog, RemoveLog, RenameLog, LimitTotal, AppendEvent, FinishBundle
    <2> QED
      BY <1>1, <2>1
  <1> QED
    BY <1>2, <1>3, <1>4

\* Lengths of files.
LEMMA LengthsAre ==
  ASSUME NEW l, SeqsIn(l)
  PROVE  /\ \A i \in Indices : Len(l[i]) \in Nat /\ (l[i] = <<>> <=> Len(l[i]) = 0)
         /\ LogCapacity \in Nat /\ LogCapacity >= 1 /\ LogFiles \in Nat /\ LogFiles >= 2
         /\ Indices = 0..(LogFiles - 1) /\ Len(<<>>) = 0
  <1>1. \A i \in Indices : Len(l[i]) \in Nat /\ (l[i] = <<>> <=> Len(l[i]) = 0)
    BY EmptySeq, LenProperties DEF SeqsIn
  <1> QED
    BY <1>1, LogConstants, EmptySeq

\* What the steps of a rotation do to files that are full.
LEMMA FullAtRest ==
  ASSUME NEW l, SeqsIn(l), NEW step \in {"idle", "export"}, FullAt(l, step, 0)
  PROVE  /\ Len(l[0]) + 1 > LogCapacity => FullAt(l, "look", LogFiles - 1)
         /\ ~ (Len(l[0]) + 1 > LogCapacity) => FullAt(l, "total", 0)
         /\ FullAt(l, "idle", 0) /\ FullAt(l, "export", 0)
  <1> USE LengthsAre
  <1>1. /\ 0 \in Indices /\ Len(l[0]) \in Nat /\ Len(l[0]) <= LogCapacity
        /\ \A i \in Indices : Len(l[i]) <= LogCapacity
        /\ \A i \in Indices \ {0} : l[i] # <<>> => Len(l[i]) = LogCapacity
        /\ \A i \in Indices : l[i] # <<>> => \A j \in 1..(i - 1) : l[j] # <<>>
    BY DEF FullAt
  <1>2. ASSUME Len(l[0]) + 1 > LogCapacity PROVE FullAt(l, "look", LogFiles - 1)
    <2>1. Len(l[0]) = LogCapacity
      BY <1>1, <1>2
    <2> QED
      BY <1>1, <2>1 DEF FullAt
  <1>3. ASSUME ~ (Len(l[0]) + 1 > LogCapacity) PROVE FullAt(l, "total", 0)
    <2>1. Len(l[0]) < LogCapacity
      BY <1>1, <1>3
    <2> QED
      BY <1>1, <2>1 DEF FullAt
  <1>4. FullAt(l, "idle", 0) /\ FullAt(l, "export", 0)
    BY <1>1 DEF FullAt
  <1> QED
    BY <1>2, <1>3, <1>4

\* A rotation that looks for a file to rename.
LEMMA FullAtLook ==
  ASSUME NEW l, SeqsIn(l), NEW k \in Indices \ {0}, FullAt(l, "look", k)
  PROVE  /\ l[k - 1] = <<>> => k # 1 /\ FullAt(l, "look", k - 1)
         /\ l[k - 1] # <<>> => FullAt(l, "remove", k)
  <1> USE LengthsAre
  <1>1. /\ \A i \in Indices : Len(l[i]) <= LogCapacity
        /\ \A i \in Indices \ {0} : l[i] # <<>> => Len(l[i]) = LogCapacity
        /\ \A i \in Indices : l[i] # <<>> => \A j \in 1..(i - 1) : j # k => l[j] # <<>>
        /\ Len(l[0]) = LogCapacity
        /\ k # LogFiles - 1 => l[k] = <<>>
    BY DEF FullAt
  <1>2. k \in 1..(LogFiles - 1) /\ k - 1 \in Indices /\ k \in Indices /\ 0 \in Indices
    OBVIOUS
  <1>3. ASSUME l[k - 1] = <<>> PROVE k # 1 /\ FullAt(l, "look", k - 1)
    <2>1. k # 1
      <3>1. l[0] # <<>>
        BY <1>1, <1>2
      <3> QED
        BY <1>3, <3>1
    <2>2. ASSUME NEW i \in Indices, l[i] # <<>>, NEW j \in 1..(i - 1), j # k - 1 PROVE l[j] # <<>>
      <3>1. CASE j # k
        BY <1>1, <2>2, <3>1
      <3>2. CASE j = k
        <4>1. k - 1 \in 1..(i - 1) /\ k - 1 # k
          BY <1>2, <2>1, <3>2
        <4>2. l[k - 1] # <<>>
          BY <1>1, <2>2, <4>1
        <4> QED
          BY <1>3, <4>2
      <3> QED
        BY <3>1, <3>2
    <2> QED
      BY <1>1, <1>3, <2>1, <2>2 DEF FullAt
  <1>4. ASSUME l[k - 1] # <<>> PROVE FullAt(l, "remove", k)
    BY <1>1, <1>4 DEF FullAt
  <1> QED
    BY <1>3, <1>4

\* It removes what the name is used for, an event only from the oldest file.
LEMMA FullAtRemove ==
  ASSUME NEW l, SeqsIn(l), NEW k \in Indices \ {0}, FullAt(l, "remove", k), NEW m,
         \A i \in Indices : m[i] = IF i = k THEN <<>> ELSE l[i]
  PROVE  /\ FullAt(m, "rename", k)
         /\ k # LogFiles - 1 => \A i \in Indices : m[i] = l[i]
         /\ k = LogFiles - 1 /\ l[k] # <<>> => \A i \in 0..(LogFiles - 2) : Len(m[i]) >= LogCapacity
  <1> USE LengthsAre
  <1>1. /\ \A i \in Indices : Len(l[i]) <= LogCapacity
        /\ \A i \in Indices \ {0} : l[i] # <<>> => Len(l[i]) = LogCapacity
        /\ \A i \in Indices : l[i] # <<>> => \A j \in 1..(i - 1) : j # k => l[j] # <<>>
        /\ Len(l[0]) = LogCapacity
        /\ k # LogFiles - 1 => l[k] = <<>>
        /\ l[k - 1] # <<>>
    BY DEF FullAt
  <1>2. k \in 1..(LogFiles - 1) /\ k - 1 \in Indices /\ k - 1 # k /\ k \in Indices /\ 0 \in Indices /\ 0 # k
    OBVIOUS
  <1>3. m[0] = l[0] /\ m[k] = <<>> /\ m[k - 1] = l[k - 1]
    BY <1>2
  <1>4. \A i \in Indices : Len(m[i]) <= LogCapacity
    BY <1>1
  <1>5. \A i \in Indices \ {0} : m[i] # <<>> => Len(m[i]) = LogCapacity
    BY <1>1
  <1>6. ASSUME NEW i \in Indices, m[i] # <<>>, NEW j \in 1..(i - 1), j # k PROVE m[j] # <<>>
    <2>1. j \in Indices /\ m[j] = l[j] /\ m[i] = l[i]
      BY <1>6
    <2> QED
      BY <1>1, <1>6, <2>1
  <1>7. FullAt(m, "rename", k)
    BY <1>1, <1>2, <1>3, <1>4, <1>5, <1>6 DEF FullAt
  <1>8. k # LogFiles - 1 => \A i \in Indices : m[i] = l[i]
    BY <1>1
  <1>9. ASSUME k = LogFiles - 1, l[k] # <<>>, NEW i \in 0..(LogFiles - 2) PROVE Len(m[i]) >= LogCapacity
    <2>1. i \in Indices /\ i # k /\ m[i] = l[i]
      BY <1>2, <1>9
    <2>2. CASE i = 0
      BY <1>1, <2>1, <2>2
    <2>3. CASE i # 0
      <3>1. i \in 1..(k - 1)
        BY <1>9, <2>3
      <3>2. l[i] # <<>>
        BY <1>1, <1>2, <1>9, <2>1, <3>1
      <3> QED
        BY <1>1, <2>1, <2>3, <3>2
    <2> QED
      BY <2>2, <2>3
  <1> QED
    BY <1>7, <1>8, <1>9

\* It renames the file, and the name of that is free.
LEMMA FullAtRename ==
  ASSUME NEW l, SeqsIn(l), NEW k \in Indices \ {0}, FullAt(l, "rename", k), NEW m,
         \A i \in Indices : m[i] = IF i = k - 1 THEN <<>> ELSE IF i = k THEN l[k - 1] ELSE l[i]
  PROVE  /\ l[k] = <<>> /\ l[k - 1] # <<>>
         /\ k = 1 => FullAt(m, "total", 0)
         /\ k # 1 => FullAt(m, "look", k - 1)
  <1> USE LengthsAre
  <1>1. /\ \A i \in Indices : Len(l[i]) <= LogCapacity
        /\ \A i \in Indices \ {0} : l[i] # <<>> => Len(l[i]) = LogCapacity
        /\ \A i \in Indices : l[i] # <<>> => \A j \in 1..(i - 1) : j # k => l[j] # <<>>
        /\ Len(l[0]) = LogCapacity
        /\ l[k] = <<>> /\ l[k - 1] # <<>>
    BY DEF FullAt
  <1>2. k \in 1..(LogFiles - 1) /\ k - 1 \in Indices /\ k - 1 # k /\ k \in Indices /\ 0 \in Indices /\ 0 # k
    OBVIOUS
  <1>3. m[k - 1] = <<>> /\ m[k] = l[k - 1]
    BY <1>2
  <1>4. \A i \in Indices : Len(m[i]) <= LogCapacity
    BY <1>1, <1>2
  <1>5. ASSUME NEW i \in Indices \ {0}, m[i] # <<>> PROVE Len(m[i]) = LogCapacity
    <2>1. CASE i = k
      <3>1. m[i] = l[k - 1]
        BY <1>3, <2>1
      <3> QED
        BY <1>1, <1>2, <1>5, <3>1
    <2>2. CASE i # k
      <3>1. m[i] = l[i]
        BY <1>5, <2>2
      <3> QED
        BY <1>1, <1>5, <3>1
    <2> QED
      BY <2>1, <2>2
  <1>6. ASSUME NEW i \in Indices, m[i] # <<>>, NEW j \in 1..(i - 1), j # k - 1 PROVE m[j] # <<>>
    <2>1. j \in Indices /\ i # k - 1 /\ i \in Nat /\ j \in Nat /\ j < i
      BY <1>3, <1>6
    <2>2. CASE j = k
      BY <1>1, <1>3, <2>2
    <2>3. CASE j # k /\ i # k
      <3>1. m[i] = l[i] /\ m[j] = l[j]
        BY <1>6, <2>1, <2>3
      <3> QED
        BY <1>1, <1>6, <2>3, <3>1
    <2>4. CASE j # k /\ i = k
      <3>1. j \in 1..(k - 1 - 1) /\ m[j] = l[j]
        BY <1>2, <1>6, <2>1, <2>4
      <3> QED
        BY <1>1, <1>2, <2>4, <3>1
    <2> QED
      BY <2>2, <2>3, <2>4
  <1>7. ASSUME k = 1 PROVE FullAt(m, "total", 0)
    <2>1. Len(m[0]) = 0
      BY <1>3, <1>7
    <2>2. \A i \in Indices : m[i] # <<>> => \A j \in 1..(i - 1) : j # 0 => m[j] # <<>>
      BY <1>6, <1>7
    <2> QED
      BY <1>4, <1>5, <2>1, <2>2 DEF FullAt
  <1>8. ASSUME k # 1 PROVE FullAt(m, "look", k - 1)
    <2>1. m[0] = l[0] /\ k - 1 # 0
      BY <1>2, <1>8
    <2> QED
      BY <1>1, <1>3, <1>4, <1>5, <1>6, <2>1 DEF FullAt
  <1> QED
    BY <1>1, <1>7, <1>8

\* The total is not exceeded, and the event is appended.
LEMMA FullAtAppend ==
  ASSUME NEW l, SeqsIn(l), NEW m, NEW e \in Events,
         m[0] = Append(l[0], e), \A i \in Indices \ {0} : m[i] = l[i]
  PROVE  /\ FullAt(l, "total", 0) => FullAt(l, "append", 0)
         /\ FullAt(l, "append", 0) => FullAt(m, "idle", 0)
  <1> USE LengthsAre
  <1>1. FullAt(l, "total", 0) => FullAt(l, "append", 0)
    BY DEF FullAt
  <1>2. Len(m[0]) = Len(l[0]) + 1 /\ Len(l[0]) \in Nat
    <2>1. l[0] \in Seq(Events)
      BY DEF SeqsIn
    <2>2. Len(Append(l[0], e)) = Len(l[0]) + 1 /\ Len(l[0]) \in Nat
      BY ONLY <2>1, e \in Events, AppendProperties, LenProperties
    <2> QED
      BY ONLY <2>2, m[0] = Append(l[0], e)
  <1>3. ASSUME FullAt(l, "append", 0) PROVE FullAt(m, "idle", 0)
    <2>1. /\ \A i \in Indices : Len(l[i]) <= LogCapacity
          /\ \A i \in Indices \ {0} : l[i] # <<>> => Len(l[i]) = LogCapacity
          /\ \A i \in Indices : l[i] # <<>> => \A j \in 1..(i - 1) : j # 0 => l[j] # <<>>
          /\ Len(l[0]) < LogCapacity
      BY <1>3 DEF FullAt
    <2>2. Len(m[0]) <= LogCapacity
      BY <1>2, <2>1
    <2>3. \A i \in Indices \ {0} : m[i] = l[i]
      OBVIOUS
    <2>4. \A i \in Indices : \A j \in 1..(i - 1) : j \in Indices \ {0} /\ i \in Indices \ {0}
      OBVIOUS
    <2>5. \A i \in Indices : m[i] # <<>> => \A j \in 1..(i - 1) : j # 0 => m[j] # <<>>
      BY ONLY <2>1, <2>3, <2>4
    <2>6. \A i \in Indices : Len(m[i]) <= LogCapacity
      BY ONLY <2>1, <2>2, <2>3
    <2>7. \A i \in Indices \ {0} : m[i] # <<>> => Len(m[i]) = LogCapacity
      BY ONLY <2>1, <2>3
    <2> QED
      BY ONLY <2>5, <2>6, <2>7 DEF FullAt
  <1> QED
    BY <1>1, <1>3

-----------------------------------------------------------------------------
\* Without its oldest events it is still the last ones.
LEMMA TaleWithoutOldest ==
  ASSUME NEW s \in Seq(Events), NEW t \in Seq(Events), NEW w, NEW n \in Int,
         Tale(w, Cat(s, t), n), Len(t) >= (LogFiles - 1) * LogCapacity
  PROVE  Tale(w, t, n)
  <1> DEFINE st == Cat(s, t)
  <1>1. /\ Len(st) = Len(s) + Len(t) /\ Len(s) \in Nat /\ Len(t) \in Nat /\ DOMAIN t = 1..Len(t)
        /\ \A i \in 1..(Len(s) + Len(t)) : st[i] = IF i <= Len(s) THEN s[i] ELSE t[i - Len(s)]
    BY CatProperties, LenProperties
  <1>2. st = [i \in 1..Len(st) |-> <<w, n - Len(st) + i>>]
    BY DEF Tale
  <1> HIDE DEF st
  <1>3. ASSUME NEW i \in 1..Len(t) PROVE t[i] = <<w, n - Len(t) + i>>
    <2>1. /\ i + Len(s) \in 1..(Len(s) + Len(t)) /\ ~ (i + Len(s) <= Len(s)) /\ i + Len(s) - Len(s) = i
          /\ n - (Len(s) + Len(t)) + (i + Len(s)) = n - Len(t) + i
      BY <1>1
    <2>2. st[i + Len(s)] = t[i]
      BY <1>1, <2>1
    <2>3. st[i + Len(s)] = <<w, n - (Len(s) + Len(t)) + (i + Len(s))>>
      BY <1>1, <1>2, <2>1
    <2> QED
      BY <2>1, <2>2, <2>3
  <1>4. t = [i \in 1..Len(t) |-> t[i]]
    BY <1>1
  <1>5. t = [i \in 1..Len(t) |-> <<w, n - Len(t) + i>>]
    BY <1>3, <1>4
  <1> QED
    BY <1>5 DEF Tale

\* The next event at the end.
LEMMA TaleGoesOn ==
  ASSUME NEW s \in Seq(Events), NEW w, NEW n \in Nat, Tale(w, s, n), <<w, n + 1>> \in Events
  PROVE  Tale(w, Append(s, <<w, n + 1>>), n + 1)
  <1> DEFINE e == <<w, n + 1>>
  <1> DEFINE t == Append(s, e)
  <1>1. /\ Len(t) = Len(s) + 1 /\ t[Len(s) + 1] = e /\ Len(s) \in Nat /\ DOMAIN t = 1..(Len(s) + 1)
        /\ \A i \in 1..Len(s) : t[i] = s[i]
    <2>1. t \in Seq(Events)
      BY AppendProperties
    <2> QED
      BY <2>1, AppendProperties, LenProperties
  <1>1a. t = [i \in 1..(Len(s) + 1) |-> t[i]]
    <2>1. t \in Seq(Events)
      BY AppendProperties
    <2> QED
      BY <1>1, <2>1
  <1> HIDE DEF t
  <1>2. s = [i \in 1..Len(s) |-> <<w, n - Len(s) + i>>]
    BY DEF Tale
  <1> DEFINE m == n + 1
  <1>0. m = n + 1 /\ m \in Nat
    OBVIOUS
  <1> HIDE DEF m
  <1>3. ASSUME NEW i \in 1..(Len(s) + 1) PROVE t[i] = <<w, m - (Len(s) + 1) + i>>
    <2>1. CASE i = Len(s) + 1
      <3>1. m - (Len(s) + 1) + i = n + 1
        BY <1>0, <1>1, <2>1
      <3> QED
        BY <1>1, <2>1, <3>1
    <2>2. CASE i \in 1..Len(s)
      <3>1. m - (Len(s) + 1) + i = n - Len(s) + i
        BY <1>0, <1>1, <2>2
      <3>2. s[i] = <<w, n - Len(s) + i>>
        BY <1>2, <2>2
      <3> QED
        BY <1>1, <2>2, <3>1, <3>2
    <2> QED
      BY <1>1, <2>1, <2>2
  <1>4. t = [i \in 1..Len(t) |-> <<w, m - Len(t) + i>>]
    BY <1>1, <1>1a, <1>3
  <1>5. Len(t) = m \/ Len(t) >= (LogFiles - 1) * LogCapacity
    <2>1. (LogFiles - 1) * LogCapacity \in Int
      BY LogConstants
    <2>2. Len(s) = n \/ Len(s) >= (LogFiles - 1) * LogCapacity
      BY DEF Tale
    <2> DEFINE most == (LogFiles - 1) * LogCapacity
    <2>3. most \in Int /\ (Len(s) = n \/ Len(s) >= most)
      BY <2>1, <2>2
    <2> HIDE DEF most
    <2>4. Len(t) = m \/ Len(t) >= most
      BY <1>0, <1>1, <2>3
    <2> QED
      BY <2>4 DEF most
  <1>6. Tale(w, t, m)
    BY ONLY <1>4, <1>5 DEF Tale
  <1> QED
    BY ONLY <1>0, <1>6 DEF t, e

\* While one writer records, the others do nothing but write bundles.
LEMMA OthersOnlyExport ==
  ASSUME LogsAreSeqs, LogsAreSeqs', EventsAreWritten, EventsAreWritten', NEW w \in Writers, StepOf(w),
         NEW u \in Writers, u # w, Alone(u)'
  PROVE  logs' = logs /\ made' = made /\ at'[u] = at[u]
  <1>1. made'[w] = 0
    BY DEF Alone
  <1>2. ~ Recording(w)'
    BY <1>1 DEF EventsAreWritten
  <1>3. Proceeds(w)
    BY <1>2, BeginOrProceed DEF Begins
  <1>4. ~ Recording(w)
    BY <1>1, <1>3 DEF Proceeds, EventsAreWritten
  <1>5. made' = made /\ at'[u] = at[u]
    BY <1>3 DEF Proceeds
  <1>6. ExportBundle(w) \/ ReadLog(w)
    <2>1. ~ Record(w) /\ ~ FinishBundle(w)
      BY <1>2, BeginsOrProceeds DEF Begins
    <2>2. ~ LookForLog(w) /\ ~ RemoveLog(w) /\ ~ RenameLog(w) /\ ~ LimitTotal(w) /\ ~ AppendEvent(w)
      BY <1>4 DEF Recording, LookForLog, RemoveLog, RenameLog, LimitTotal, AppendEvent, IsAt
    <2> QED
      BY <2>1, <2>2 DEF StepOf
  <1> QED
    BY <1>5, <1>6 DEF ExportBundle, ReadLog

\* AllEvents is what the files tell.
LEMMA ToldByLogs == AllEvents = Told(logs) /\ AllEvents' = Told(logs')
  BY DEF AllEvents, Told, FilesOf

\* The same files tell the same.
LEMMA ToldSame ==
  ASSUME NEW l, SeqsIn(l), NEW m, \A i \in Indices : m[i] = l[i]
  PROVE  Told(m) = Told(l)
  <1>1. \A i \in 1..LogFiles : m[LogFiles - i] = l[LogFiles - i]
    BY FilesAre
  <1>2. FilesOf(m) = FilesOf(l)
    BY <1>1 DEF FilesOf
  <1> QED
    BY <1>2 DEF Told

\* The files are sequences of events.
LEMMA SeqsInLogs == LogsAreSeqs => SeqsIn(logs)
  BY DEF LogsAreSeqs, SeqsIn

\* The state of the only writer after its step.
OnItsWay(w, step, hole) == at'[w].step = step /\ Hole(w)' = hole

\* The name that is free after a step.
LEMMA WhereItGoes ==
  ASSUME NEW w \in Writers
  PROVE  /\ \A index : Goes(w, "look", index) => OnItsWay(w, "look", index)
         /\ \A index : Goes(w, "remove", index) => OnItsWay(w, "remove", index)
         /\ \A index : Goes(w, "rename", index) => OnItsWay(w, "rename", index)
         /\ \A step \in {"idle", "export", "total", "append"} : \A index :
              Goes(w, step, index) => OnItsWay(w, step, 0)
  BY DEF Goes, OnItsWay, Hole

\* FullAt after a step is FilesAreFull after it.
LEMMA FullThen ==
  ASSUME NEW w \in Writers, NEW step, NEW hole, OnItsWay(w, step, hole), FullAt(logs', step, hole)
  PROVE  FilesAreFull(w)'
  <1>1. at'[w].step = step /\ Hole(w)' = hole
    BY DEF OnItsWay
  <1>2. FullAt(logs', at'[w].step, Hole(w)')
    BY ONLY <1>1, FullAt(logs', step, hole), Zenon
  <1> QED
    BY <1>2 DEF FilesAreFull, FullAt, Indices

\* The only writer takes a step: its files stay full, and nothing is missing.
LEMMA AloneStays ==
  ASSUME LogsAreSeqs, LogsAreSeqs', EventsAreWritten, EventsAreWritten', NEW w \in Writers, StepOf(w),
         FilesAreFull(w), NothingMissing(w)
  PROVE  FilesAreFull(w)' /\ NothingMissing(w)'
  <1> DEFINE k == at[w].index
  <1>0. /\ FullAt(logs, at[w].step, Hole(w)) /\ SeqsIn(logs)
        /\ Tale(w, Told(logs), Written(w)) /\ made[w] \in Nat
        /\ k \in Indices /\ (at[w].step \in {"look", "remove", "rename"} => k \in Indices \ {0} /\ Hole(w) = k)
        /\ (~ (at[w].step \in {"look", "remove", "rename"}) => Hole(w) = 0)
    <2>1. FullAt(logs, at[w].step, Hole(w)) /\ SeqsIn(logs)
      BY SeqsInLogs DEF FilesAreFull
    <2>2. Tale(w, Told(logs), Written(w))
      BY ToldByLogs DEF NothingMissing
    <2>3. made[w] \in Nat /\ k \in Indices /\ (at[w].step \in {"look", "remove", "rename"} => k # 0)
      BY LogConstants DEF LogsAreSeqs
    <2>4. /\ at[w].step \in {"look", "remove", "rename"} => Hole(w) = k
          /\ ~ (at[w].step \in {"look", "remove", "rename"}) => Hole(w) = 0
      BY DEF Hole
    <2> QED
      BY <2>1, <2>2, <2>3, <2>4
  <1>1. /\ Written(w) \in Int /\ Written(w)' \in Int
        /\ Begins(w) => Written(w)' = Written(w)
        /\ Proceeds(w) /\ (Recording(w)' <=> Recording(w)) => Written(w)' = Written(w)
        /\ Proceeds(w) /\ Recording(w) /\ ~ Recording(w)' => Written(w)' = made[w] /\ Written(w) = made[w] - 1
    <2>1. Written(w) \in Int /\ Written(w)' \in Int
      BY BeginOrProceed, WrittenGrows
    <2>2. ASSUME Begins(w) PROVE Written(w)' = Written(w)
      <3>1. ~ Recording(w) /\ Recording(w)' /\ made'[w] = made[w] + 1
        BY <2>2 DEF Begins, LogsAreSeqs
      <3>2. Written(w) = made[w] /\ Written(w)' = made'[w] - 1
        BY <3>1 DEF Written
      <3>3. made'[w] - 1 = made[w]
        BY <1>0, <3>1
      <3> QED
        BY ONLY <3>2, <3>3, Zenon
    <2>3. ASSUME Proceeds(w), Recording(w)' <=> Recording(w) PROVE Written(w)' = Written(w)
      BY <2>3 DEF Proceeds, Written
    <2>4. ASSUME Proceeds(w), Recording(w), ~ Recording(w)' PROVE Written(w)' = made[w] /\ Written(w) = made[w] - 1
      BY <2>4 DEF Proceeds, Written
    <2> QED
      BY <2>1, <2>2, <2>3, <2>4
  <1>2. ASSUME logs' = logs, Written(w)' = Written(w) PROVE NothingMissing(w)'
    <2>1. Tale(w, AllEvents', Written(w)')
      BY <1>0, <1>2, ToldByLogs
    <2> QED
      BY <2>1 DEF NothingMissing, Tale
  <1>3. ASSUME Tale(w, Told(logs'), Written(w)) , Written(w)' = Written(w) PROVE NothingMissing(w)'
    <2>1. Tale(w, AllEvents', Written(w)')
      BY <1>3, ToldByLogs
    <2> QED
      BY <2>1 DEF NothingMissing, Tale
  <1> HIDE DEF k
  <1>4. CASE Record(w) \/ FinishBundle(w)
    <2>1. /\ at[w].step \in {"idle", "export"} /\ logs' = logs
          /\ GoesOn(w, Len(logs[0]) + 1 > LogCapacity, LogFiles - 1)
      BY <1>4, GoGoes DEF Record, FinishBundle, BeginRecord, IsAt
    <2>2. Begins(w)
      BY <1>4, BeginsOrProceeds
    <2>3. /\ Len(logs[0]) + 1 > LogCapacity => FullAt(logs, "look", LogFiles - 1)
          /\ ~ (Len(logs[0]) + 1 > LogCapacity) => FullAt(logs, "total", 0)
      BY <1>0, <2>1, FullAtRest
    <2>4. CASE Len(logs[0]) + 1 > LogCapacity
      <3>1. OnItsWay(w, "look", LogFiles - 1)
        BY <2>1, <2>4, WhereItGoes DEF GoesOn
      <3> QED
        BY <1>1, <1>2, <2>1, <2>2, <2>3, <2>4, <3>1, FullThen
    <2>5. CASE ~ (Len(logs[0]) + 1 > LogCapacity)
      <3>1. OnItsWay(w, "total", 0)
        BY <2>1, <2>5, WhereItGoes DEF GoesOn
      <3> QED
        BY <1>1, <1>2, <2>1, <2>2, <2>3, <2>5, <3>1, FullThen
    <2> QED
      BY <2>4, <2>5
  <1>5. CASE LookForLog(w)
    <2>1. at[w].step = "look" /\ logs' = logs /\ FullAt(logs, "look", k) /\ k \in Indices \ {0}
      BY <1>0, <1>5 DEF LookForLog, IsAt
    <2>2. Proceeds(w)
      BY <1>5, BeginsOrProceeds
    <2>3. /\ logs[k - 1] = <<>> => k # 1 /\ FullAt(logs, "look", k - 1)
          /\ logs[k - 1] # <<>> => FullAt(logs, "remove", k)
      BY <1>0, <2>1, FullAtLook
    <2>4. CASE logs[k - 1] = <<>>
      <3>1. Goes(w, "look", k - 1)
        BY <1>5, <2>3, <2>4, GoGoes DEF LookForLog, GoesOn, k
      <3>2. OnItsWay(w, "look", k - 1)
        BY <3>1, WhereItGoes
      <3>3. Recording(w) /\ Recording(w)'
        BY <2>1, <3>1 DEF Recording, Goes
      <3> QED
        BY <1>1, <1>2, <2>1, <2>2, <2>3, <2>4, <3>2, <3>3, FullThen
    <2>5. CASE logs[k - 1] # <<>>
      <3>1. Goes(w, "remove", k)
        BY <1>5, <2>5, GoGoes DEF LookForLog, k
      <3>2. OnItsWay(w, "remove", k)
        BY <3>1, WhereItGoes
      <3>3. Recording(w) /\ Recording(w)'
        BY <2>1, <3>1 DEF Recording, Goes
      <3> QED
        BY <1>1, <1>2, <2>1, <2>2, <2>3, <2>5, <3>2, <3>3, FullThen
    <2> QED
      BY <2>4, <2>5
  <1>6. CASE RemoveLog(w)
    <2>1. at[w].step = "remove" /\ Removes(k) /\ FullAt(logs, "remove", k) /\ k \in Indices \ {0} /\ Goes(w, "rename", k)
      BY <1>0, <1>6, GoGoes DEF RemoveLog, IsAt, Removes, k
    <2>2. Proceeds(w) /\ Recording(w) /\ Recording(w)' /\ OnItsWay(w, "rename", k)
      BY <1>6, <2>1, BeginsOrProceeds, WhereItGoes DEF Recording, Goes
    <2>3. \A i \in Indices : logs'[i] = IF i = k THEN <<>> ELSE logs[i]
      BY <2>1, FilesAfter
    <2>4. /\ FullAt(logs', "rename", k)
          /\ k # LogFiles - 1 => \A i \in Indices : logs'[i] = logs[i]
          /\ k = LogFiles - 1 /\ logs[k] # <<>> => \A i \in 0..(LogFiles - 2) : Len(logs'[i]) >= LogCapacity
      BY <1>0, <2>1, <2>3, FullAtRemove
    <2>5. FilesAreFull(w)'
      BY <2>2, <2>4, FullThen
    <2>6. Written(w)' = Written(w)
      BY <1>1, <2>2
    <2>7. CASE k # LogFiles - 1 \/ logs[k] = <<>>
      <3>1. \A i \in Indices : logs'[i] = logs[i]
        BY <2>3, <2>4, <2>7
      <3>2. Told(logs') = Told(logs)
        BY <3>1, <1>0, ToldSame
      <3> QED
        BY <1>0, <1>3, <2>5, <2>6, <3>2
    <2>8. CASE k = LogFiles - 1 /\ logs[k] # <<>>
      <3>1. logs'[LogFiles - 1] = <<>> /\ \A i \in 0..(LogFiles - 2) : logs'[i] = logs[i]
        BY <2>1, <2>3, <2>8, LogConstants
      <3>2. SeqsIn(logs') /\ Told(logs) = Cat(logs[LogFiles - 1], Told(logs'))
        BY ONLY <1>0, <3>1, ToldDrop
      <3>3. Told(logs') \in Seq(Events) /\ Len(Told(logs')) >= (LogFiles - 1) * LogCapacity
        BY <2>4, <2>8, <3>2, ToldIsFlat, ToldLength
      <3>4. logs[LogFiles - 1] \in Seq(Events) /\ Tale(w, Cat(logs[LogFiles - 1], Told(logs')), Written(w))
        BY <1>0, <2>8, <3>2 DEF SeqsIn
      <3>5. Tale(w, Told(logs'), Written(w))
        BY <1>1, <3>3, <3>4, TaleWithoutOldest
      <3> QED
        BY <1>3, <2>5, <2>6, <3>5
    <2> QED
      BY <2>7, <2>8
  <1>7. CASE RenameLog(w)
    <2>1. at[w].step = "rename" /\ FullAt(logs, "rename", k) /\ k \in Indices \ {0}
      BY <1>0, <1>7 DEF RenameLog, IsAt
    <2>2. logs[k - 1] # <<>>
      BY <2>1 DEF FullAt
    <2>3. logs' = Renamed(k) /\ GoesOn(w, k # 1, k - 1)
      BY <1>7, <2>2, GoGoes DEF RenameLog, k
    <2>4. \A i \in Indices : logs'[i] = IF i = k - 1 THEN <<>> ELSE IF i = k THEN logs[k - 1] ELSE logs[i]
      BY <2>1, <2>3, FilesAfter
    <2>5. /\ logs[k] = <<>> /\ logs[k - 1] # <<>>
          /\ k = 1 => FullAt(logs', "total", 0)
          /\ k # 1 => FullAt(logs', "look", k - 1)
      BY ONLY <1>0, <2>1, <2>4, FullAtRename
    <2>6. FilesAreFull(w)' /\ Recording(w) /\ Recording(w)'
      <3>1. CASE k = 1
        BY <2>1, <2>3, <2>5, <3>1, WhereItGoes, FullThen DEF GoesOn, Goes, Recording
      <3>2. CASE k # 1
        BY <2>1, <2>3, <2>5, <3>2, WhereItGoes, FullThen DEF GoesOn, Goes, Recording
      <3> QED
        BY <3>1, <3>2
    <2>7. Proceeds(w)
      BY <1>7, BeginsOrProceeds
    <2>8. Written(w)' = Written(w)
      BY <1>1, <2>6, <2>7
    <2>9. k \in Indices /\ k - 1 \in Indices /\ k # k - 1
      BY <2>1, LogConstants
    <2>10. logs'[k] = logs[k - 1] /\ logs'[k - 1] = <<>> /\ \A i \in Indices : i # k /\ i # k - 1 => logs'[i] = logs[i]
      BY <2>4, <2>9
    <2>11. Told(logs') = Told(logs)
      BY ONLY <1>0, <2>1, <2>5, <2>10, ToldMove
    <2> QED
      BY <1>0, <1>3, <2>6, <2>8, <2>11
  <1>8. CASE LimitTotal(w)
    <2>1. at[w].step = "total" /\ FullAt(logs, "total", 0) /\ Goes(w, "append", 0)
      BY <1>0, <1>8, GoGoes DEF LimitTotal, IsAt
    <2>2. logs' = logs
      <3>1. \A i \in Indices : Len(logs[i]) <= LogCapacity
        BY <2>1 DEF FullAt
      <3>2. Len(Told(logs)) <= LogFiles * LogCapacity /\ Len(Told(logs)) \in Nat
        BY <1>0, <3>1, ToldLength
      <3>3. TotalBytes = Len(Told(logs))
        BY ToldByLogs DEF TotalBytes
      <3>4. LogFiles * LogCapacity \in Int
        BY LogConstants
      <3>5. ~ (TotalBytes > LogFiles * LogCapacity)
        <4> DEFINE most == LogFiles * LogCapacity
        <4>1. TotalBytes \in Nat /\ most \in Int /\ TotalBytes <= most
          BY <3>2, <3>3, <3>4
        <4> HIDE DEF most
        <4>2. ~ (TotalBytes > most)
          BY ONLY <4>1
        <4> QED
          BY <4>2 DEF most
      <3> QED
        BY <1>8, <3>5 DEF LimitTotal
    <2>3. FullAt(logs, "append", 0)
      BY <2>1 DEF FullAt
    <2>4. OnItsWay(w, "append", 0) /\ Recording(w) /\ Recording(w)' /\ Proceeds(w)
      BY <1>8, <2>1, WhereItGoes, BeginsOrProceeds DEF Recording, Goes
    <2> QED
      BY <1>1, <1>2, <2>2, <2>3, <2>4, FullThen
  <1>9. CASE AppendEvent(w)
    <2>1. at[w].step = "append" /\ FullAt(logs, "append", 0) /\ Goes(w, "idle", 0) /\ Appends(w)
      BY <1>0, <1>9, GoGoes DEF AppendEvent, IsAt, Appends, Goes
    <2> DEFINE e == <<w, made[w]>>
    <2>2. e \in Events /\ logs'[0] = Append(logs[0], e) /\ \A i \in Indices \ {0} : logs'[i] = logs[i]
      BY <2>1, AppendedIsLater, FilesAfter
    <2>3. OnItsWay(w, "idle", 0) /\ Recording(w) /\ ~ Recording(w)' /\ Proceeds(w)
      BY <1>9, <2>1, WhereItGoes, BeginsOrProceeds DEF Recording, Goes
    <2>4. Written(w)' = made[w] /\ Written(w) = made[w] - 1 /\ made[w] \in 1..MaxEvents
      BY <1>1, <2>1, <2>3, AppendedIsLater
    <2> HIDE DEF e
    <2>5. FullAt(logs', "idle", 0)
      BY ONLY <1>0, <2>1, <2>2, FullAtAppend
    <2>6. Told(logs') = Append(Told(logs), e)
      BY ONLY <1>0, <2>2, ToldAppend
    <2>7. Tale(w, Append(Told(logs), e), made[w])
      <3> DEFINE n == made[w] - 1
      <3>1. n \in Nat /\ n + 1 = made[w]
        BY <2>4, LogConstants
      <3>2. Tale(w, Told(logs), n) /\ Told(logs) \in Seq(Events)
        BY <1>0, <2>4, ToldIsFlat
      <3>3. e = <<w, n + 1>> /\ e \in Events
        BY <2>2, <3>1 DEF e
      <3> HIDE DEF n
      <3>4. Tale(w, Append(Told(logs), <<w, n + 1>>), n + 1)
        BY ONLY <3>1, <3>2, <3>3, TaleGoesOn
      <3> QED
        BY ONLY <3>1, <3>3, <3>4
    <2>8. Tale(w, AllEvents', Written(w)')
      BY <2>4, <2>6, <2>7, ToldByLogs
    <2>9. NothingMissing(w)'
      BY <2>8 DEF NothingMissing, Tale
    <2> QED
      BY <2>3, <2>5, <2>9, FullThen
  <1>10. CASE ExportBundle(w) \/ ReadLog(w)
    <2>1. at[w].step \in {"idle", "export"} /\ logs' = logs /\ FullAt(logs, "idle", 0) /\ FullAt(logs, "export", 0)
      <3>1. at[w].step \in {"idle", "export"} /\ logs' = logs
        BY <1>10 DEF ExportBundle, ReadLog, IsAt
      <3>2. FullAt(logs, at[w].step, 0)
        BY <1>0, <3>1
      <3> QED
        BY <1>0, <3>1, <3>2, FullAtRest
    <2>2. \E step \in {"idle", "export"} : OnItsWay(w, step, 0)
      <3>1. CASE ExportBundle(w)
        BY <3>1, GoGoes, WhereItGoes DEF ExportBundle
      <3>2. CASE ReadLog(w)
        <4>1. at' = at \/ Go(w, "idle", 0)
          BY <3>2 DEF ReadLog
        <4>2. CASE at' = at
          BY <2>1, <4>2 DEF OnItsWay, Hole
        <4>3. CASE Go(w, "idle", 0)
          BY <4>3, GoGoes, WhereItGoes
        <4> QED
          BY <4>1, <4>2, <4>3
      <3> QED
        BY <1>10, <3>1, <3>2
    <2>3. PICK step \in {"idle", "export"} : OnItsWay(w, step, 0)
      BY <2>2
    <2>4. ~ Recording(w) /\ ~ Recording(w)' /\ Proceeds(w)
      BY <1>10, <2>1, <2>3, BeginsOrProceeds DEF Recording, OnItsWay
    <2>5. FullAt(logs', step, 0)
      BY <2>1
    <2> QED
      BY <1>1, <1>2, <2>1, <2>3, <2>4, <2>5, FullThen
  <1> QED
    BY <1>4, <1>5, <1>6, <1>7, <1>8, <1>9, <1>10 DEF StepOf

\* A step keeps what holds while only one writer records.
LEMMA AloneKept ==
  ASSUME LogsAreSeqs, LogsAreSeqs', EventsAreWritten, EventsAreWritten', AloneInv, NEW w \in Writers, StepOf(w)
  PROVE  AloneInv'
  <1>1. ASSUME NEW u \in Writers, Alone(u)' PROVE FilesAreFull(u)' /\ NothingMissing(u)'
    <2>1. Alone(u)
      <3>1. \A v \in Writers : made[v] \in Nat /\ (made'[v] = 0 => made[v] = 0)
        <4>0. made \in [Writers -> Nat]
          BY LogConstants DEF LogsAreSeqs
        <4>1. CASE Begins(w)
          <5>1. made' = [made EXCEPT ![w] = made[w] + 1]
            BY <4>1 DEF Begins
          <5>2. made[w] + 1 # 0
            BY <4>0
          <5> QED
            BY ONLY <4>0, <5>1, <5>2
        <4>2. CASE Proceeds(w)
          BY <4>0, <4>2 DEF Proceeds
        <4> QED
          BY <4>1, <4>2, BeginOrProceed
      <3> QED
        BY <1>1, <3>1 DEF Alone
    <2>2. FilesAreFull(u) /\ NothingMissing(u)
      BY <2>1 DEF AloneInv
    <2>3. CASE u = w
      BY <2>2, <2>3, AloneStays
    <2>4. CASE u # w
      <3>1. logs' = logs /\ made' = made /\ at'[u] = at[u]
        BY <1>1, <2>4, OthersOnlyExport
      <3>2. Hole(u)' = Hole(u) /\ Written(u)' = Written(u)
        BY <3>1 DEF Hole, Written, Recording
      <3>3. FilesAreFull(u)'
        <4>1. FullAt(logs', at'[u].step, Hole(u)')
          BY <2>2, <3>1, <3>2 DEF FilesAreFull
        <4> QED
          BY <4>1 DEF FilesAreFull, FullAt, Indices
      <3>4. NothingMissing(u)'
        <4>1. Tale(u, AllEvents', Written(u)')
          BY <2>2, <3>1, <3>2, ToldByLogs DEF NothingMissing
        <4> QED
          BY <4>1 DEF NothingMissing, Tale
      <3> QED
        BY <3>3, <3>4
    <2> QED
      BY <2>3, <2>4
  <1> QED
    BY <1>1 DEF AloneInv

\* Every step keeps the invariant.
LEMMA LogInvKept ==
  ASSUME LogInv, DiagnosticsNext
  PROVE  LogInv'
  <1>1. PICK w \in Writers : StepOf(w)
    BY DEF DiagnosticsNext, StepOf
  <1>2. /\ LogsAreSeqs /\ LogsAreShort /\ FilesInOrder /\ EventsAreWritten /\ BundleIsAhead /\ AloneInv
    BY DEF LogInv
  <1>3. LogsAreSeqs'
    BY <1>2, LogTypesKept
  <1>4. LogsAreShort'
    BY <1>1, <1>2, <1>3, LogsStayShort
  <1>5. FilesInOrder'
    BY <1>1, <1>2, LogsDoChange, FilesStayInOrder DEF StepOf
  <1>6. EventsAreWritten'
    BY <1>1, <1>2, <1>3, EventsStayWritten
  <1>7. BundleIsAhead'
    BY <1>1, <1>2, BundleStaysAhead
  <1>8. AloneInv'
    BY <1>1, <1>2, <1>3, <1>6, AloneKept
  <1> QED
    BY <1>3, <1>4, <1>5, <1>6, <1>7, <1>8 DEF LogInv

\* So does a stutter.
LEMMA LogInvStutters ==
  ASSUME LogInv, UNCHANGED logVars
  PROVE  LogInv'
  <1>1. logs' = logs /\ at' = at /\ made' = made /\ bundle' = bundle
    BY DEF logVars
  <1>2. LogsAreSeqs' /\ FilesInOrder' /\ BundleIsAhead'
    BY <1>1 DEF LogInv, LogsAreSeqs, FilesInOrder, BundleIsAhead, InOrder, Before, Indices, Steps, Events
  <1>3. LogsAreShort'
    <2>1. Pending' = Pending /\ MaxLength' = MaxLength
      BY <1>1 DEF Pending, MaxLength
    <2> QED
      BY <1>1, <2>1 DEF LogInv, LogsAreShort, Indices
  <1>4. \A w \in Writers : (Recording(w)' <=> Recording(w)) /\ Written(w)' = Written(w) /\ Hole(w)' = Hole(w)
    BY <1>1 DEF Recording, Written, Hole
  <1>5. EventsAreWritten'
    <2>1. Counts' = Counts
      BY <1>4 DEF Counts
    <2> QED
      BY <1>1, <1>4, <2>1 DEF LogInv, EventsAreWritten, OnlyWritten, Within, Indices
  <1>6. AloneInv'
    <2>1. AllEvents' = AllEvents
      BY <1>1, ToldByLogs
    <2>2. ASSUME NEW w \in Writers, Alone(w)' PROVE FilesAreFull(w)' /\ NothingMissing(w)'
      <3>1. FilesAreFull(w) /\ NothingMissing(w)
        BY <1>1, <2>2 DEF LogInv, AloneInv, Alone
      <3>2. FullAt(logs', at'[w].step, Hole(w)') /\ Tale(w, AllEvents', Written(w)')
        BY <1>1, <1>4, <2>1, <3>1 DEF FilesAreFull, NothingMissing
      <3> QED
        BY <3>2 DEF FilesAreFull, FullAt, NothingMissing, Tale, Indices
    <2> QED
      BY <2>2 DEF AloneInv
  <1> QED
    BY <1>2, <1>3, <1>5, <1>6 DEF LogInv

\* Empty files tell nothing.
LEMMA ToldOfNothing ==
  ASSUME NEW l, \A i \in Indices : l[i] = <<>>
  PROVE  Told(l) = <<>>
  <1>0. <<>> \in Seq(Events)
    BY EmptySeq
  <1>1. SeqsIn(l)
    BY <1>0 DEF SeqsIn
  <1>2. PICK f : Tells(l, f)
    BY <1>1, ToldIsFlat
  <1> DEFINE s == FilesOf(l)
  <1>3. /\ LogFiles \in Nat \ {0} /\ \A i \in 1..LogFiles : s[i] \in Seq(Events) /\ s[i] = <<>>
    BY <1>1, FilesAre
  <1>4. Flat(f, s, LogFiles) /\ SeqsOf(s, LogFiles, Events)
    BY <1>2, <1>3 DEF Tells, SeqsOf
  <1> HIDE DEF s
  <1>5. \A i \in 1..LogFiles : Len(s[i]) <= 0
    BY <1>3, EmptySeq
  <1>6. Len(f[LogFiles]) <= LogFiles * 0
    BY ONLY <1>3, <1>4, <1>5, FlatLength, 0 \in Nat
  <1>7. Told(l) = f[LogFiles] /\ Told(l) \in Seq(Events) /\ LogFiles * 0 = 0
    BY <1>1, <1>2, <1>3, ToldIsFlat DEF Tells
  <1>8. Len(Told(l)) = 0
    BY <1>6, <1>7, LenProperties
  <1> QED
    BY <1>7, <1>8, EmptySeq

\* The invariant holds at first.
LEMMA LogInvInit ==
  ASSUME DiagnosticsInit
  PROVE  LogInv
  <1> USE LogConstants
  <1>1. /\ logs = [i \in Indices |-> <<>>] /\ at = [w \in Writers |-> Idle] /\ made = [w \in Writers |-> 0]
        /\ bundle = [paths |-> {}, events |-> <<>>]
    BY DEF DiagnosticsInit
  <1>2. \A i \in Indices : logs[i] = <<>>
    BY <1>1
  <1>3. \A w \in Writers : at[w].step = "idle" /\ at[w].index = 0 /\ made[w] = 0 /\ ~ Recording(w) /\ Hole(w) = 0 /\ Written(w) = 0
    BY <1>1 DEF Idle, Recording, Hole, Written
  <1>4. LogsAreSeqs
    BY <1>1, <1>3 DEF LogsAreSeqs, Steps, Idle
  <1>5. LogsAreShort
    <2>1. Pending = {}
      BY <1>3 DEF Pending
    <2>2. Cardinality(Pending) = 0
      BY <2>1, FS_EmptySet
    <2>3. Len(<<>>) = 0
      BY EmptySeq
    <2>4. \A i \in Indices : Len(logs[i]) = 0
      BY <1>2, <2>3
    <2> QED
      BY <2>2, <2>4 DEF LogsAreShort
  <1>6. FilesInOrder
    BY <1>2, NothingIsInOrder DEF FilesInOrder
  <1>7. EventsAreWritten
    <2>1. Within(<<>>, Counts)
      BY DEF Within
    <2> QED
      BY <1>1, <1>2, <1>3, <2>1 DEF EventsAreWritten, OnlyWritten
  <1>8. BundleIsAhead
    BY <1>1, NothingIsInOrder DEF BundleIsAhead
  <1>9. AloneInv
    <2>1. AllEvents = <<>>
      BY <1>2, ToldOfNothing, ToldByLogs
    <2>2. ASSUME NEW w \in Writers PROVE FilesAreFull(w)
      <3>1. FullAt(logs, "idle", 0)
        BY <1>2, EmptySeq DEF FullAt
      <3> QED
        BY <1>3, <3>1 DEF FilesAreFull
    <2>3. ASSUME NEW w \in Writers PROVE NothingMissing(w)
      <3>1. Len(<<>>) = 0
        BY EmptySeq
      <3>2. Tale(w, <<>>, 0)
        BY <3>1 DEF Tale
      <3> QED
        BY <1>3, <2>1, <3>2 DEF NothingMissing
    <2> QED
      BY <2>2, <2>3 DEF AloneInv
  <1> QED
    BY <1>4, <1>5, <1>6, <1>7, <1>8, <1>9 DEF LogInv

\* A short sequence is a bounded one.
LEMMA ShortIsBounded ==
  ASSUME NEW S, NEW s \in Seq(S), NEW n \in Nat, Len(s) <= n
  PROVE  s \in BoundedSeq(S, n)
  <1>1. Len(s) \in 0..n /\ s \in [1..Len(s) -> S]
    BY LenProperties
  <1> QED
    BY <1>1 DEF BoundedSeq, SeqOf

\* The invariant implies what the log promises.
LEMMA LogInvCorrect ==
  ASSUME LogInv
  PROVE  DiagnosticsCorrect
  <1>0. LogsAreSeqs /\ LogsAreShort /\ FilesInOrder /\ EventsAreWritten /\ BundleIsAhead /\ AloneInv
    BY DEF LogInv
  <1>1. LogsTypeOK
    <2>1. ASSUME NEW i \in Indices PROVE logs[i] \in BoundedSeq(Events, LogCapacity + Cardinality(Writers) - 1)
      <3>1. logs[i] \in Seq(Events) /\ Len(logs[i]) <= MaxLength /\ MaxLength \in Nat
        BY <1>0, LogConstants DEF LogsAreSeqs, LogsAreShort
      <3>2. logs[i] \in BoundedSeq(Events, MaxLength)
        BY ONLY <3>1, ShortIsBounded
      <3> QED
        BY <3>2 DEF MaxLength
    <2>2. ASSUME NEW w \in Writers
          PROVE  /\ at[w].step \in {"idle", "look", "remove", "rename", "total", "append", "export"}
                 /\ at[w].index \in Indices
                 /\ made[w] \in 0..MaxEvents
      BY <1>0 DEF LogsAreSeqs, Steps
    <2> QED
      BY <2>1, <2>2 DEF LogsTypeOK
  <1>2. LogsAreInOrder
    <2>1. InOrder(Told(logs))
      BY <1>0, SeqsInLogs, ToldInOrder DEF FilesInOrder
    <2> QED
      BY <2>1, ToldByLogs DEF LogsAreInOrder
  <1>3. BundlesAreInOrder
    BY <1>0 DEF BundleIsAhead, BundlesAreInOrder
  <1>4. OldestGoFirst
    <2>1. ASSUME NEW w \in Writers, \A v \in Writers \ {w} : made[v] = 0
          PROVE  LET written == IF at[w].step \in {"idle", "export"} THEN made[w] ELSE made[w] - 1
                     kept == Len(AllEvents)
                 IN  /\ AllEvents = [i \in 1..kept |-> <<w, written - kept + i>>]
                     /\ kept >= Smaller(written, (LogFiles - 1) * LogCapacity)
      <3> DEFINE written == IF at[w].step \in {"idle", "export"} THEN made[w] ELSE made[w] - 1
      <3> DEFINE kept == Len(AllEvents)
      <3> DEFINE most == (LogFiles - 1) * LogCapacity
      <3>1. Tale(w, AllEvents, Written(w))
        BY <1>0, <2>1 DEF AloneInv, Alone, NothingMissing
      <3>2. Written(w) = written /\ written \in Int
        <4>1. at[w].step \in Steps /\ made[w] \in Nat
          BY <1>0, LogConstants DEF LogsAreSeqs
        <4> QED
          BY <4>1 DEF Steps, Written, Recording
      <3>3. kept \in Nat /\ most \in Int
        <4>1. Told(logs) \in Seq(Events)
          BY <1>0, SeqsInLogs, ToldIsFlat
        <4> QED
          BY <4>1, ToldByLogs, LenProperties, LogConstants
      <3>4. AllEvents = [i \in 1..kept |-> <<w, Written(w) - kept + i>>] /\ (kept = Written(w) \/ kept >= most)
        BY <3>1 DEF Tale
      <3> HIDE DEF written, most, kept
      <3>5. kept >= Smaller(written, most)
        BY <3>2, <3>3, <3>4 DEF Smaller
      <3>6. AllEvents = [i \in 1..kept |-> <<w, written - kept + i>>]
        BY ONLY <3>2, <3>4, Zenon
      <3> QED
        BY <3>5, <3>6 DEF written, most, kept
    <2> QED
      BY <2>1 DEF OldestGoFirst
  <1> QED
    BY <1>1, <1>2, <1>3, <1>4 DEF DiagnosticsCorrect

\* Whatever writers record, rotate and export at the same time, for any number of
\* them, any limits and any number of events (record, rotate_for_append, rotate_logs
\* and export_bundle of diagnostics/mod.rs): no file grows beyond its limit by more
\* than the other writers, the files from the oldest to the newest tell what each
\* writer did in its order and nothing twice, so does every bundle, and a writer
\* that is alone loses its oldest events only, when the other files are full.
THEOREM LogKeepsItsPromise == DiagnosticsSpec => []DiagnosticsCorrect
  <1>1. DiagnosticsInit => LogInv
    BY LogInvInit
  <1>2. LogInv /\ [DiagnosticsNext]_logVars => LogInv'
    BY LogInvKept, LogInvStutters
  <1>3. LogInv => DiagnosticsCorrect
    BY LogInvCorrect
  <1> QED
    BY <1>1, <1>2, <1>3, PTL DEF DiagnosticsSpec

-----------------------------------------------------------------------------
(* Words of a command line                                                  *)

\* A sequence, as a function from its positions.
LEMMA ListIs ==
  ASSUME NEW s
  PROVE  /\ IsList(s) => Len(s) \in Nat /\ DOMAIN s = 1..Len(s) /\ s = [i \in 1..Len(s) |-> s[i]]
         /\ \A n \in Nat : s = [i \in 1..n |-> s[i]] => IsList(s) /\ Len(s) = n
  <1>1. ASSUME IsList(s) PROVE Len(s) \in Nat /\ DOMAIN s = 1..Len(s) /\ s = [i \in 1..Len(s) |-> s[i]]
    BY <1>1 DEF IsList
  <1>2. ASSUME NEW n \in Nat, s = [i \in 1..n |-> s[i]] PROVE IsList(s) /\ Len(s) = n
    <2>1. s \in [1..n -> ToSet(s)]
      BY <1>2 DEF ToSet
    <2> QED
      BY <2>1 DEF IsList
  <1> QED
    BY <1>1, <1>2

\* A sequence in sets of its own.
LEMMA ListsTogether ==
  ASSUME NEW s, NEW t, IsList(s), IsList(t)
  PROVE  s \in Seq(ToSet(s) \union ToSet(t)) /\ t \in Seq(ToSet(s) \union ToSet(t))
  <1>1. \A A, B : Seq(A) \subseteq Seq(A \union B) /\ Seq(B) \subseteq Seq(A \union B)
    OBVIOUS
  <1> QED
    BY <1>1 DEF IsList

\* Length and elements of two sequences in a row.
LEMMA CatOfLists ==
  ASSUME NEW s, NEW t, IsList(s), IsList(t)
  PROVE  /\ IsList(Cat(s, t))
         /\ Len(Cat(s, t)) = Len(s) + Len(t) /\ Len(s) \in Nat /\ Len(t) \in Nat
         /\ \A i \in 1..Len(s) : Cat(s, t)[i] = s[i]
         /\ \A i \in 1..Len(t) : Cat(s, t)[Len(s) + i] = t[i]
  <1> DEFINE S == ToSet(s) \union ToSet(t)
  <1>1. s \in Seq(S) /\ t \in Seq(S)
    BY ListsTogether
  <1> HIDE DEF S
  <1>2. /\ Cat(s, t) \in Seq(S) /\ Len(Cat(s, t)) = Len(s) + Len(t)
        /\ \A i \in 1..(Len(s) + Len(t)) : Cat(s, t)[i] = IF i <= Len(s) THEN s[i] ELSE t[i - Len(s)]
        /\ Len(s) \in Nat /\ Len(t) \in Nat
    BY ONLY <1>1, CatProperties
  <1>3. Cat(s, t) = [i \in 1..(Len(s) + Len(t)) |-> Cat(s, t)[i]]
    BY <1>2
  <1>4. IsList(Cat(s, t))
    BY <1>2, <1>3, ListIs
  <1>5. \A i \in 1..Len(s) : Cat(s, t)[i] = s[i]
    BY <1>2
  <1>6. ASSUME NEW i \in 1..Len(t) PROVE Cat(s, t)[Len(s) + i] = t[i]
    <2>1. Len(s) + i \in 1..(Len(s) + Len(t)) /\ ~ (Len(s) + i <= Len(s)) /\ Len(s) + i - Len(s) = i
      BY <1>2
    <2> QED
      BY ONLY <1>2, <2>1
  <1> QED
    BY <1>2, <1>4, <1>5, <1>6

\* Sequences of no, one and two elements.
LEMMA ShortLists ==
  /\ IsList(<<>>) /\ Len(<<>>) = 0
  /\ \A a : IsList(<<a>>) /\ Len(<<a>>) = 1
  /\ \A a, b : IsList(<<a, b>>) /\ Len(<<a, b>>) = 2
  <1>1. IsList(<<>>)
    BY DEF IsList, ToSet
  <1>2. ASSUME NEW a PROVE IsList(<<a>>)
    <2>1. <<a>> \in Seq({a}) /\ ToSet(<<a>>) = {a}
      BY DEF ToSet
    <2> QED
      BY <2>1 DEF IsList
  <1>3. ASSUME NEW a, NEW b PROVE IsList(<<a, b>>)
    <2>1. <<a, b>> \in Seq({a, b}) /\ ToSet(<<a, b>>) = {a, b}
      BY DEF ToSet
    <2> QED
      BY <2>1 DEF IsList
  <1> QED
    BY <1>1, <1>2, <1>3

\* The first k of a sequence.
Upto(s, k) == [i \in 1..k |-> s[i]]

\* The first k and one more.
LEMMA UptoIs ==
  ASSUME NEW s
  PROVE  /\ Upto(s, 0) = <<>>
         /\ IsList(s) => Upto(s, Len(s)) = s
         /\ \A k \in Nat : IsList(Upto(s, k)) /\ Append(Upto(s, k), s[k + 1]) = Upto(s, k + 1)
  <1>1. Upto(s, 0) = <<>>
    BY DEF Upto
  <1>2. IsList(s) => Upto(s, Len(s)) = s
    BY ListIs DEF Upto
  <1>3. ASSUME NEW k \in Nat PROVE IsList(Upto(s, k)) /\ Append(Upto(s, k), s[k + 1]) = Upto(s, k + 1)
    <2>1. IsList(Upto(s, k)) /\ Len(Upto(s, k)) = k
      BY ListIs DEF Upto
    <2> DEFINE S == {s[i] : i \in 1..(k + 1)}
    <2>2. Upto(s, k) \in Seq(S) /\ s[k + 1] \in S /\ Upto(s, k + 1) \in Seq(S)
      BY DEF Upto
    <2>3. Append(Upto(s, k), s[k + 1]) = Upto(s, k + 1)
      BY <2>1, <2>2 DEF Upto
    <2> QED
      BY <2>1, <2>3
  <1> QED
    BY <1>1, <1>2, <1>3

\* Sequences that Append makes of short ones.
LEMMA AppendIs ==
  /\ \A a : Append(<<>>, a) = <<a>>
  /\ \A a, b : Append(<<a>>, b) = <<a, b>>
  /\ \A a, b, c : Append(<<a, b>>, c) = <<a, b, c>>
  <1>1. ASSUME NEW a PROVE Append(<<>>, a) = <<a>>
    <2>1. <<>> \in Seq({a}) /\ a \in {a}
      OBVIOUS
    <2> QED
      BY <2>1
  <1>2. ASSUME NEW a, NEW b PROVE Append(<<a>>, b) = <<a, b>>
    <2>1. Upto(<<a, b>>, 1) = <<a>> /\ Upto(<<a, b>>, 1 + 1) = <<a, b>> /\ <<a, b>>[1 + 1] = b
      BY DEF Upto
    <2>2. Append(Upto(<<a, b>>, 1), <<a, b>>[1 + 1]) = Upto(<<a, b>>, 1 + 1)
      BY UptoIs
    <2> QED
      BY ONLY <2>1, <2>2
  <1>3. ASSUME NEW a, NEW b, NEW c PROVE Append(<<a, b>>, c) = <<a, b, c>>
    <2>1. Upto(<<a, b, c>>, 2) = <<a, b>> /\ Upto(<<a, b, c>>, 2 + 1) = <<a, b, c>> /\ <<a, b, c>>[2 + 1] = c
      BY DEF Upto
    <2>2. Append(Upto(<<a, b, c>>, 2), <<a, b, c>>[2 + 1]) = Upto(<<a, b, c>>, 2 + 1)
      BY UptoIs
    <2> QED
      BY ONLY <2>1, <2>2
  <1> QED
    BY <1>1, <1>2, <1>3

\* What the lexer has after a part of a line, when nothing was refused: within
\* a word, and between two.
LexState(words, current, open, quote) ==
  [words |-> words, current |-> current, open |-> open, quote |-> quote, skip |-> FALSE, refused |-> FALSE]
InWord(words, current, quote) == LexState(words, current, TRUE, quote)
Between(words) == LexState(words, <<>>, FALSE, NotQuoted)

\* Outside quotes, within a word or before it.
Outside(state, words, current) == \E open : state = LexState(words, current, open, NotQuoted)

\* Operators of which only what the lemmas say is known.
CharOf(line, i) == line[i]
NextOf(line, i) == IF i < Len(line) THEN line[i + 1] ELSE Unset
Add(s, c) == Append(s, c)
Refuses(state) == state.refused = TRUE

\* Between two words and within one without quotes.
LEMMA OutsideIs ==
  \A words, current : /\ Outside(Between(words), words, <<>>)
                      /\ Outside(InWord(words, current, NotQuoted), words, current)
  BY DEF Outside, Between, InWord

\* A character outside quotes that means nothing.
LEMMA LexPlain ==
  ASSUME NEW line, NEW i, NEW words, NEW current, NEW state, Outside(state, words, current),
         CharOf(line, i) \in Unquoted, ~ (CharOf(line, i) = "&" /\ NextOf(line, i) = "&")
  PROVE  LexStep(line, state, i) = InWord(words, Add(current, CharOf(line, i)), NotQuoted)
  <1>1. PICK open : state = LexState(words, current, open, NotQuoted)
    BY DEF Outside
  <1> QED
    BY <1>1 DEF LexStep, LexState, InWord, Refused, Unquoted, NotQuoted, NextOf, CharOf, Add

\* Two ampersands in a row.
LEMMA LexAnds ==
  ASSUME NEW line, NEW i, NEW words, NEW current, NEW state, Outside(state, words, current),
         CharOf(line, i) = "&", NextOf(line, i) = "&"
  PROVE  Refuses(LexStep(line, state, i))
  <1>1. PICK open : state = LexState(words, current, open, NotQuoted)
    BY DEF Outside
  <1> QED
    BY <1>1 DEF LexStep, LexState, Refused, NotQuoted, NextOf, CharOf, Refuses

\* A line that was refused stays refused.
LEMMA LexRefused ==
  ASSUME NEW line, NEW i, NEW state, Refuses(state)
  PROVE  Refuses(LexStep(line, state, i))
  BY DEF LexStep, Refuses

\* A blank after a word.
LEMMA LexBlank ==
  ASSUME NEW line, NEW i, NEW words, NEW current, CharOf(line, i) = "blank"
  PROVE  LexStep(line, InWord(words, current, NotQuoted), i) = Between(Add(words, current))
  BY DEF LexStep, LexState, Refused, NotQuoted, CharOf, Add, InWord, Between

\* A single quote outside quotes.
LEMMA LexOpens ==
  ASSUME NEW line, NEW i, NEW words, NEW current, NEW state, Outside(state, words, current),
         CharOf(line, i) = "single"
  PROVE  LexStep(line, state, i) = InWord(words, current, "single")
  <1>1. PICK open : state = LexState(words, current, open, NotQuoted)
    BY DEF Outside
  <1> QED
    BY <1>1 DEF LexStep, LexState, InWord, Refused, NotQuoted, CharOf

\* A character inside single quotes.
LEMMA LexInside ==
  ASSUME NEW line, NEW i, NEW words, NEW current, CharOf(line, i) # "single"
  PROVE  LexStep(line, InWord(words, current, "single"), i)
           = InWord(words, Add(current, CharOf(line, i)), "single")
  BY DEF LexStep, LexState, Refused, NotQuoted, CharOf, Add, InWord

\* The quote that ends a quotation.
LEMMA LexCloses ==
  ASSUME NEW line, NEW i, NEW words, NEW current, CharOf(line, i) = "single"
  PROVE  LexStep(line, InWord(words, current, "single"), i) = InWord(words, current, NotQuoted)
  BY DEF LexStep, LexState, Refused, NotQuoted, CharOf, InWord

\* A backslash outside quotes, and the single quote after it.
LEMMA LexEscapes ==
  ASSUME NEW line, NEW i \in Nat, NEW words, NEW current, CharOf(line, i) = "backslash", NextOf(line, i) = "single"
  PROVE  LexStep(line, LexStep(line, InWord(words, current, NotQuoted), i), i + 1)
           = InWord(words, Add(current, "single"), NotQuoted)
  <1> DEFINE skips == [words |-> words, current |-> Append(current, "single"), open |-> TRUE,
                       quote |-> NotQuoted, skip |-> TRUE, refused |-> FALSE]
  <1>1. i < Len(line)
    BY DEF NextOf, Unset
  <1>2. LexStep(line, InWord(words, current, NotQuoted), i) = skips
    BY <1>1 DEF LexStep, LexState, InWord, Refused, NotQuoted, CharOf, NextOf
  <1>3. LexStep(line, skips, i + 1) = InWord(words, Add(current, "single"), NotQuoted)
    BY DEF LexStep, LexState, InWord, Add
  <1> HIDE DEF skips
  <1> QED
    BY <1>2, <1>3

\* What the lexer has after each character of a line.
Lexes(f, line, n) ==
  f = [i \in 0..n |-> IF i = 0 THEN LexStart ELSE LexStep(line, f[i - 1], i)]

\* There is a function as LexShellWords defines one.
LEMMA LexExists ==
  ASSUME NEW line, NEW n \in Nat
  PROVE  \E f : Lexes(f, line, n)
  <1> DEFINE T == {k \in Nat : \E f : Lexes(f, line, k)}
  <1>1. 0 \in T
    <2>1. Lexes([i \in 0..0 |-> LexStart], line, 0)
      BY DEF Lexes
    <2> QED
      BY <2>1
  <1>2. ASSUME NEW k \in 0..n, k \in T, k < n PROVE k + 1 \in T
    <2>1. PICK f : Lexes(f, line, k)
      BY <1>2
    <2> DEFINE g == [i \in 0..(k + 1) |-> IF i = k + 1 THEN LexStep(line, f[k], i) ELSE f[i]]
    <2>2. ASSUME NEW i \in 0..(k + 1) PROVE g[i] = IF i = 0 THEN LexStart ELSE LexStep(line, g[i - 1], i)
      <3>1. CASE i = k + 1
        <4>1. i - 1 = k /\ k \in 0..(k + 1) /\ k # k + 1 /\ i # 0
          BY <3>1
        <4>2. g[i] = LexStep(line, f[k], i) /\ g[k] = f[k]
          BY <3>1, <4>1
        <4> HIDE DEF g
        <4> QED
          BY <4>1, <4>2
      <3>2. CASE i # k + 1
        <4>1. i \in 0..k /\ (i # 0 => i - 1 \in 0..(k + 1) /\ i - 1 # k + 1)
          BY <3>2
        <4>2. g[i] = f[i] /\ (i # 0 => g[i - 1] = f[i - 1])
          BY <3>2, <4>1
        <4>3. f[i] = IF i = 0 THEN LexStart ELSE LexStep(line, f[i - 1], i)
          BY <2>1, <4>1 DEF Lexes
        <4> HIDE DEF g
        <4> QED
          BY <4>2, <4>3
      <3> QED
        BY <3>1, <3>2
    <2>3. g = [i \in 0..(k + 1) |-> g[i]]
      OBVIOUS
    <2> HIDE DEF g
    <2>4. Lexes(g, line, k + 1)
      BY <2>2, <2>3 DEF Lexes
    <2> QED
      BY <2>4
  <1> HIDE DEF T
  <1>3. \A k \in 0..n : k \in T
    BY <1>1, <1>2, Climb
  <1> QED
    BY <1>3 DEF T

\* The words of a line, from what the lexer has at its end.
WordsAtEnd(end) ==
  IF end.refused \/ end.quote # NotQuoted THEN [refused |-> TRUE, words |-> <<>>]
  ELSE [refused |-> FALSE,
        words |-> IF end.open THEN Append(end.words, end.current) ELSE end.words]

\* LexShellWords is what the lexer has at the end.
LEMMA LexIs ==
  ASSUME NEW line, IsList(line)
  PROVE  \E f : /\ LexShellWords(line) = WordsAtEnd(f[Len(line)])
                /\ f[0] = LexStart
                /\ \A i \in 1..Len(line) : f[i] = LexStep(line, f[i - 1], i)
  <1> DEFINE n == Len(line)
             f == CHOOSE f : f = [i \in 0..n |-> IF i = 0 THEN LexStart ELSE LexStep(line, f[i - 1], i)]
  <1>1. n \in Nat
    BY ListIs
  <1>2. Lexes(f, line, n)
    BY <1>1, LexExists DEF Lexes
  <1>3. LexShellWords(line) = WordsAtEnd(f[n])
    BY DEF LexShellWords, WordsAtEnd
  <1> HIDE DEF f, n
  <1>4. f[0] = LexStart /\ \A i \in 1..n : f[i] = LexStep(line, f[i - 1], i)
    BY <1>1, <1>2 DEF Lexes
  <1> QED
    BY <1>3, <1>4 DEF n

\* A word between two others.
LineOf(q) == Cat(Cat(<<"a", "blank">>, q), <<"blank", "a">>)

\* The characters of the line with the word in it.
LEMMA LineIs ==
  ASSUME NEW q, IsList(q)
  PROVE  /\ IsList(LineOf(q)) /\ Len(LineOf(q)) = Len(q) + 4 /\ Len(q) \in Nat
         /\ CharOf(LineOf(q), 1) = "a" /\ CharOf(LineOf(q), 2) = "blank"
         /\ \A i \in 1..Len(q) : CharOf(LineOf(q), 2 + i) = q[i]
         /\ CharOf(LineOf(q), Len(q) + 3) = "blank" /\ CharOf(LineOf(q), Len(q) + 4) = "a"
  <1> DEFINE a == <<"a", "blank">>
             b == <<"blank", "a">>
             aq == Cat(a, q)
  <1>1. /\ IsList(a) /\ Len(a) = 2 /\ a[1] = "a" /\ a[2] = "blank"
        /\ IsList(b) /\ Len(b) = 2 /\ b[1] = "blank" /\ b[2] = "a"
    BY ShortLists
  <1> HIDE DEF a, b
  <1>0a. IsList(a) /\ IsList(q)
    BY <1>1
  <1>2a. /\ IsList(aq) /\ Len(aq) = Len(a) + Len(q) /\ Len(q) \in Nat
         /\ \A i \in 1..Len(a) : aq[i] = a[i]
         /\ \A i \in 1..Len(q) : aq[Len(a) + i] = q[i]
    BY ONLY <1>0a, CatOfLists
  <1> HIDE DEF aq
  <1>2. /\ IsList(aq) /\ Len(aq) = 2 + Len(q) /\ Len(q) \in Nat
        /\ \A i \in 1..2 : aq[i] = a[i]
        /\ \A i \in 1..Len(q) : aq[2 + i] = q[i]
    BY <1>1, <1>2a
  <1>0b. IsList(aq) /\ IsList(b)
    BY <1>1, <1>2
  <1>3a. /\ IsList(Cat(aq, b)) /\ Len(Cat(aq, b)) = Len(aq) + Len(b)
         /\ \A i \in 1..Len(aq) : Cat(aq, b)[i] = aq[i]
         /\ \A i \in 1..Len(b) : Cat(aq, b)[Len(aq) + i] = b[i]
    BY ONLY <1>0b, CatOfLists
  <1>3. /\ IsList(Cat(aq, b)) /\ Len(Cat(aq, b)) = Len(aq) + 2
        /\ \A i \in 1..Len(aq) : Cat(aq, b)[i] = aq[i]
        /\ \A i \in 1..2 : Cat(aq, b)[Len(aq) + i] = b[i]
    BY <1>1, <1>2, <1>3a
  <1>4. LineOf(q) = Cat(aq, b)
    BY DEF LineOf, aq, a, b
  <1>5. CharOf(LineOf(q), 1) = "a" /\ CharOf(LineOf(q), 2) = "blank"
    BY <1>1, <1>2, <1>3, <1>4 DEF CharOf
  <1>6. ASSUME NEW i \in 1..Len(q) PROVE CharOf(LineOf(q), 2 + i) = q[i]
    <2>1. 2 + i \in 1..Len(aq)
      BY <1>2
    <2> QED
      BY <1>2, <1>3, <1>4, <2>1 DEF CharOf
  <1>7. Len(aq) + 1 = Len(q) + 3 /\ Len(aq) + 2 = Len(q) + 4
    BY <1>2
  <1>8. CharOf(LineOf(q), Len(q) + 3) = "blank" /\ CharOf(LineOf(q), Len(q) + 4) = "a"
    BY <1>1, <1>3, <1>4, <1>7 DEF CharOf
  <1> QED
    BY <1>2, <1>3, <1>4, <1>5, <1>6, <1>7, <1>8

\* f is what the lexer has after each character of the line.
Follow(f, line) ==
  /\ f[0] = LexStart
  /\ \A i \in 1..Len(line) : f[i] = LexStep(line, f[i - 1], i)

First == <<<<"a">>>>

\* The lexer before the word.
LEMMA LexBefore ==
  ASSUME NEW q, IsList(q), NEW f, Follow(f, LineOf(q))
  PROVE  f[2] = Between(First)
  <1> DEFINE line == LineOf(q)
  <1>1. CharOf(line, 1) = "a" /\ CharOf(line, 2) = "blank" /\ 1 \in 1..Len(line) /\ 2 \in 1..Len(line)
    BY LineIs
  <1>2. /\ f[0] = Between(<<>>)
        /\ f[1] = LexStep(line, f[0], 1) /\ f[2] = LexStep(line, f[1], 2)
    BY <1>1 DEF Follow, LexStart, LexState, Between
  <1> HIDE DEF line
  <1>3. Outside(f[0], <<>>, <<>>)
    BY <1>2, OutsideIs
  <1>4. CharOf(line, 1) \in Unquoted /\ ~ (CharOf(line, 1) = "&" /\ NextOf(line, 1) = "&")
    BY <1>1 DEF Unquoted
  <1>5. f[1] = InWord(<<>>, Add(<<>>, "a"), NotQuoted)
    BY ONLY <1>1, <1>2, <1>3, <1>4, LexPlain
  <1>6. f[2] = Between(Add(<<>>, Add(<<>>, "a")))
    BY ONLY <1>1, <1>2, <1>5, LexBlank
  <1>7. Add(<<>>, Add(<<>>, "a")) = First
    BY AppendIs DEF First, Add
  <1> QED
    BY <1>6, <1>7

\* And after it.
LEMMA LexAfter ==
  ASSUME NEW q, IsList(q), NEW f, Follow(f, LineOf(q)), NEW w,
         f[2 + Len(q)] = InWord(First, w, NotQuoted)
  PROVE  WordsAtEnd(f[Len(LineOf(q))]) = [refused |-> FALSE, words |-> <<<<"a">>, w, <<"a">>>>]
  <1> DEFINE line == LineOf(q)
             m == Len(q)
  <1>1. /\ CharOf(line, m + 3) = "blank" /\ CharOf(line, m + 4) = "a" /\ Len(line) = m + 4
        /\ m + 3 \in 1..Len(line) /\ m + 4 \in 1..Len(line)
        /\ m + 3 - 1 = 2 + m /\ m + 4 - 1 = m + 3
    BY LineIs
  <1>2. f[m + 3] = LexStep(line, f[m + 3 - 1], m + 3) /\ f[m + 4] = LexStep(line, f[m + 4 - 1], m + 4)
    BY <1>1 DEF Follow
  <1>3. f[m + 3] = LexStep(line, f[2 + m], m + 3) /\ f[m + 4] = LexStep(line, f[m + 3], m + 4)
    BY ONLY <1>1, <1>2
  <1>4. LexStep(line, InWord(First, w, NotQuoted), m + 3) = Between(Add(First, w))
    BY ONLY <1>1, LexBlank
  <1>5. f[m + 3] = Between(Add(First, w))
    BY <1>3, <1>4
  <1> HIDE DEF line
  <1>6. Outside(f[m + 3], Add(First, w), <<>>)
    BY <1>5, OutsideIs
  <1>7. CharOf(line, m + 4) \in Unquoted /\ ~ (CharOf(line, m + 4) = "&" /\ NextOf(line, m + 4) = "&")
    BY <1>1 DEF Unquoted
  <1>8. LexStep(line, f[m + 3], m + 4) = InWord(Add(First, w), Add(<<>>, CharOf(line, m + 4)), NotQuoted)
    BY ONLY <1>6, <1>7, LexPlain
  <1>9. f[m + 4] = InWord(Add(First, w), Add(<<>>, "a"), NotQuoted)
    BY ONLY <1>1, <1>3, <1>8
  <1>10. Add(Add(First, w), Add(<<>>, "a")) = <<<<"a">>, w, <<"a">>>>
    <2>1. Append(<<>>, "a") = <<"a">> /\ Append(<<<<"a">>>>, w) = <<<<"a">>, w>>
      BY AppendIs
    <2>2. Append(<<<<"a">>, w>>, <<"a">>) = <<<<"a">>, w, <<"a">>>>
      BY AppendIs
    <2> QED
      BY ONLY <2>1, <2>2 DEF First, Add
  <1>11. WordsAtEnd(f[m + 4]) = [refused |-> FALSE, words |-> Add(Add(First, w), Add(<<>>, "a"))]
    BY <1>9 DEF WordsAtEnd, InWord, LexState, Add
  <1> QED
    BY <1>1, <1>10, <1>11 DEF line

\* Once a line is refused, it is.
LEMMA StaysRefused ==
  ASSUME NEW line, NEW n \in Nat, n = Len(line), NEW f, Follow(f, line), NEW k \in 0..n, Refuses(f[k])
  PROVE  Refuses(f[n])
  <1> DEFINE T == {j \in k..n : Refuses(f[j])}
  <1>1. ASSUME NEW j \in k..n, j \in T, j < n PROVE j + 1 \in T
    <2>1. j + 1 \in 1..n /\ j + 1 - 1 = j /\ j + 1 \in k..n
      BY <1>1
    <2>2. f[j + 1] = LexStep(line, f[j], j + 1)
      BY <2>1 DEF Follow
    <2>3. Refuses(f[j])
      BY <1>1
    <2>4. Refuses(LexStep(line, f[j], j + 1))
      BY ONLY <2>3, LexRefused
    <2> QED
      BY <2>1, <2>2, <2>4
  <1>2. k \in T
    OBVIOUS
  <1>2a. k \in Nat /\ n \in Nat
    OBVIOUS
  <1> HIDE DEF T
  <1>3. \A j \in k..n : j \in T
    BY ONLY <1>1, <1>2, <1>2a, Climb
  <1> QED
    BY <1>3 DEF T

\* Two ampersands in a row among the first k of a word and the one after them.
AndsBefore(w, k) == \E i \in 1..k : i < Len(w) /\ w[i] = "&" /\ w[i + 1] = "&"

\* A word that needs no quotes.
LEMMA BareWord ==
  ASSUME NEW w, IsList(w), w # <<>>, ToSet(w) \subseteq Unquoted
  PROVE  LexShellWords(LineOf(w)) =
           IF HasTwoAnds(w) THEN [refused |-> TRUE, words |-> <<>>]
           ELSE [refused |-> FALSE, words |-> <<<<"a">>, w, <<"a">>>>]
  <1> DEFINE line == LineOf(w)
             n == Len(w)
  <1>1. /\ IsList(line) /\ Len(line) = n + 4 /\ n \in Nat
        /\ \A i \in 1..n : CharOf(line, 2 + i) = w[i]
        /\ CharOf(line, n + 3) = "blank"
    BY LineIs
  <1>2. PICK f : LexShellWords(line) = WordsAtEnd(f[Len(line)]) /\ Follow(f, line)
    BY <1>1, LexIs DEF Follow
  <1>3. \A i \in 1..n : w[i] \in Unquoted
    BY ListIs DEF ToSet
  <1>4. n # 0
    BY ListIs
  <1> DEFINE S(k) == InWord(First, Upto(w, k), NotQuoted)
             Fits(k) == IF AndsBefore(w, k) THEN Refuses(f[2 + k]) ELSE f[2 + k] = S(k)
             T == {k \in 1..n : Fits(k)}
  <1>5. ASSUME NEW k \in 1..n PROVE (w[k] = "&" /\ NextOf(line, 2 + k) = "&") <=> (k < n /\ w[k] = "&" /\ w[k + 1] = "&")
    <2>0. 2 + k < Len(line) /\ 2 + k + 1 = 2 + (k + 1) /\ (k < n => k + 1 \in 1..n)
      BY <1>1
    <2>1. NextOf(line, 2 + k) = CharOf(line, 2 + k + 1) /\ 2 + k + 1 = 2 + (k + 1)
      BY ONLY <2>0 DEF NextOf, CharOf
    <2>2. k < n => NextOf(line, 2 + k) = w[k + 1]
      BY ONLY <1>1, <2>0, <2>1
    <2>3. ~ (k < n) => NextOf(line, 2 + k) = "blank"
      <3>1. ~ (k < n) => 2 + k + 1 = n + 3
        BY <1>1
      <3> QED
        BY ONLY <1>1, <2>1, <3>1
    <2> QED
      BY <2>2, <2>3
  <1>6. ASSUME NEW k \in 1..n, ~AndsBefore(w, k - 1), Outside(f[2 + (k - 1)], First, Upto(w, k - 1))
        PROVE  Fits(k)
    <2>1. 2 + k \in 1..Len(line) /\ 2 + k - 1 = 2 + (k - 1) /\ k - 1 \in Nat /\ k - 1 + 1 = k
      BY <1>1
    <2>2. f[2 + k] = LexStep(line, f[2 + (k - 1)], 2 + k)
      BY <1>2, <2>1 DEF Follow
    <2>3. CharOf(line, 2 + k) = w[k] /\ w[k] \in Unquoted
      BY <1>1, <1>3
    <2>4. CASE k < n /\ w[k] = "&" /\ w[k + 1] = "&"
      <3>1. NextOf(line, 2 + k) = "&" /\ CharOf(line, 2 + k) = "&"
        BY <1>5, <2>3, <2>4
      <3>2. Refuses(LexStep(line, f[2 + (k - 1)], 2 + k))
        BY ONLY <1>6, <3>1, LexAnds
      <3>3. AndsBefore(w, k)
        BY <2>4 DEF AndsBefore
      <3> QED
        BY <2>2, <3>2, <3>3
    <2>5. CASE ~ (k < n /\ w[k] = "&" /\ w[k + 1] = "&")
      <3>1. CharOf(line, 2 + k) \in Unquoted /\ ~ (CharOf(line, 2 + k) = "&" /\ NextOf(line, 2 + k) = "&")
        BY <1>5, <2>3, <2>5
      <3>2. LexStep(line, f[2 + (k - 1)], 2 + k)
              = InWord(First, Add(Upto(w, k - 1), CharOf(line, 2 + k)), NotQuoted)
        BY ONLY <1>6, <3>1, LexPlain
      <3>3. Append(Upto(w, k - 1), w[k - 1 + 1]) = Upto(w, k - 1 + 1)
        BY ONLY <2>1, UptoIs
      <3>4. Add(Upto(w, k - 1), w[k]) = Upto(w, k)
        BY ONLY <2>1, <3>3 DEF Add
      <3>5. f[2 + k] = S(k)
        BY ONLY <2>2, <2>3, <3>2, <3>4
      <3>6. ~AndsBefore(w, k)
        BY <1>6, <2>5 DEF AndsBefore
      <3> QED
        BY <3>5, <3>6
    <2> QED
      BY <2>4, <2>5
  <1>7. 1 \in T
    <2>1. f[2] = Between(First) /\ Upto(w, 0) = <<>>
      BY <1>2, LexBefore, UptoIs
    <2>2. ~AndsBefore(w, 0)
      BY DEF AndsBefore
    <2>3. 1 \in 1..n /\ 1 - 1 = 0 /\ 2 + (1 - 1) = 2
      BY <1>1, <1>4
    <2>4. Outside(f[2], First, Upto(w, 0))
      BY <2>1, OutsideIs
    <2> HIDE DEF Fits
    <2>5. Fits(1)
      BY <1>6, <2>2, <2>3, <2>4
    <2> QED
      BY <2>3, <2>5
  <1>8. ASSUME NEW k \in 1..n, k \in T, k < n PROVE k + 1 \in T
    <2>0. k + 1 \in 1..n /\ k + 1 - 1 = k
      BY <1>8
    <2> HIDE DEF Fits
    <2>1. Fits(k)
      BY <1>8
    <2>2. CASE AndsBefore(w, k)
      <3>1. AndsBefore(w, k + 1)
        BY <2>0, <2>2 DEF AndsBefore
      <3>2. Refuses(f[2 + k])
        BY <2>1, <2>2 DEF Fits
      <3>3. 2 + (k + 1) \in 1..Len(line) /\ 2 + (k + 1) - 1 = 2 + k
        BY <1>1, <2>0
      <3>4. f[2 + (k + 1)] = LexStep(line, f[2 + k], 2 + (k + 1))
        BY <1>2, <3>3 DEF Follow
      <3>5. Refuses(f[2 + (k + 1)])
        BY ONLY <3>2, <3>4, LexRefused
      <3>6. Fits(k + 1)
        BY ONLY <3>1, <3>5 DEF Fits
      <3> QED
        BY <2>0, <3>6
    <2>3. CASE ~AndsBefore(w, k)
      <3>1. f[2 + k] = InWord(First, Upto(w, k), NotQuoted)
        BY ONLY <2>1, <2>3 DEF Fits
      <3>2. Outside(f[2 + k], First, Upto(w, k))
        BY <3>1, OutsideIs
      <3>3. k + 1 \in 1..n /\ ~AndsBefore(w, k + 1 - 1) /\ Outside(f[2 + (k + 1 - 1)], First, Upto(w, k + 1 - 1))
        BY ONLY <2>0, <2>3, <3>2
      <3>4. Fits(k + 1)
        BY ONLY <1>6, <3>3
      <3> QED
        BY <2>0, <3>4
    <2> QED
      BY <2>2, <2>3
  <1> HIDE DEF T
  <1>9. \A k \in 1..n : k \in T
    BY <1>1, <1>7, <1>8, Climb
  <1>10. Fits(n)
    <2>1. n \in 1..n
      BY <1>1, <1>4
    <2> HIDE DEF Fits
    <2> QED
      BY <1>9, <2>1 DEF T
  <1>11. AndsBefore(w, n) <=> HasTwoAnds(w)
    BY <1>1 DEF AndsBefore, HasTwoAnds
  <1>12. CASE HasTwoAnds(w)
    <2>1. Refuses(f[2 + n]) /\ 2 + n \in 0..Len(line) /\ Len(line) \in Nat
      BY <1>1, <1>10, <1>11, <1>12
    <2>2. Refuses(f[Len(line)])
      BY ONLY <1>2, <2>1, StaysRefused
    <2>3. WordsAtEnd(f[Len(line)]) = [refused |-> TRUE, words |-> <<>>]
      BY <2>2 DEF WordsAtEnd, Refuses
    <2> QED
      BY <1>2, <1>12, <2>3
  <1>13. CASE ~HasTwoAnds(w)
    <2>1. f[2 + n] = InWord(First, w, NotQuoted)
      BY <1>10, <1>11, <1>13, UptoIs
    <2>2. WordsAtEnd(f[Len(line)]) = [refused |-> FALSE, words |-> <<<<"a">>, w, <<"a">>>>]
      BY <1>2, <2>1, LexAfter
    <2> QED
      BY <1>2, <1>13, <2>2
  <1> QED
    BY <1>12, <1>13

-----------------------------------------------------------------------------
(* Words in quotes                                                          *)

\* g[k] is the concatenation of the first k sequences.
Nth(s, i) == s[i]
Joins(g, s, n) ==
  /\ Nth(g, 0) = <<>> /\ IsList(Nth(g, 0))
  /\ \A k \in 1..n : IsList(Nth(g, k)) /\ Nth(g, k) = Cat(Nth(g, k - 1), Nth(s, k))

\* Nothing before or after a sequence.
LEMMA CatWithNothing ==
  ASSUME NEW s, IsList(s)
  PROVE  Cat(<<>>, s) = s /\ Cat(s, <<>>) = s
  BY CatFacts DEF IsList

\* A sequence of any set is one.
LEMMA SeqIsList ==
  ASSUME NEW S, NEW s \in Seq(S)
  PROVE  IsList(s)
  <1>1. Len(s) \in Nat /\ s = [i \in 1..Len(s) |-> s[i]]
    OBVIOUS
  <1> QED
    BY ONLY <1>1, ListIs

\* FlattenSeq is the last concatenation.
LEMMA FlattenJoins ==
  ASSUME NEW n \in Nat, NEW s, s = [i \in 1..n |-> s[i]], \A i \in 1..n : IsList(s[i])
  PROVE  \E g : Joins(g, s, n) /\ FlattenSeq(s) = g[n]
  <1>1. IsList(<<>>) /\ Len(s) = n
    BY ShortLists, ListIs
  <1>2. CASE n = 0
    <2>1. s = <<>> /\ FlattenSeq(s) = s
      BY <1>1, <1>2 DEF FlattenSeq
    <2>2. Joins([k \in 0..0 |-> <<>>], s, n)
      BY <1>1, <1>2 DEF Joins, Nth
    <2> QED
      BY <1>2, <2>1, <2>2
  <1>3. CASE n # 0
    <2> DEFINE S == UNION {ToSet(s[i]) : i \in 1..n}
    <2>1. \A A, B : A \subseteq B => Seq(A) \subseteq Seq(B)
      OBVIOUS
    <2>2. ASSUME NEW i \in 1..n PROVE s[i] \in Seq(S)
      <3>1. ToSet(s[i]) \subseteq S /\ s[i] \in Seq(ToSet(s[i]))
        BY DEF IsList
      <3> HIDE DEF S
      <3> QED
        BY <2>1, <3>1
    <2> HIDE DEF S
    <2>3. s \in [1..n -> Seq(S)] /\ SeqsOf(s, n, S) /\ n \in Nat \ {0}
      BY <1>3, <2>2 DEF SeqsOf
    <2>4. PICK f : Flat(f, s, n) /\ FlattenSeq(s) = f[n]
      BY <2>3, FlattenIsFlat
    <2>5. \A k \in 1..n : f[k] \in Seq(S)
      BY <2>3, <2>4, FlatType
    <2>6. \A k \in 1..n : IsList(f[k])
      BY ONLY <2>5, SeqIsList
    <2>7. f[1] = s[1] /\ \A k \in 1..n : k < n => f[k + 1] = Cat(f[k], s[k + 1])
      BY <1>3, <2>4, FlatStep
    <2> DEFINE g == [k \in 0..n |-> IF k = 0 THEN <<>> ELSE f[k]]
    <2>8. ASSUME NEW k \in 1..n PROVE IsList(g[k]) /\ g[k] = Cat(g[k - 1], s[k])
      <3>1. g[k] = f[k] /\ IsList(f[k])
        BY <2>6
      <3>2. CASE k = 1
        <4>1. g[k - 1] = <<>> /\ IsList(s[k]) /\ f[k] = s[k]
          BY <2>7, <3>2
        <4>2. Cat(<<>>, s[k]) = s[k]
          BY <4>1, CatWithNothing
        <4> QED
          BY <3>1, <4>1, <4>2
      <3>3. CASE k # 1
        <4>1. k - 1 \in 1..n /\ k - 1 < n /\ k - 1 + 1 = k /\ g[k - 1] = f[k - 1]
          BY <3>3
        <4>2. f[k - 1 + 1] = Cat(f[k - 1], s[k - 1 + 1])
          BY ONLY <2>7, <4>1
        <4> QED
          BY ONLY <3>1, <4>1, <4>2
      <3> QED
        BY <3>2, <3>3
    <2>9. g[0] = <<>> /\ g[n] = f[n]
      BY <1>3
    <2> HIDE DEF g
    <2>10. Joins(g, s, n)
      BY <1>1, <2>8, <2>9 DEF Joins, Nth
    <2> QED
      BY <2>4, <2>9, <2>10
  <1> QED
    BY <1>2, <1>3

\* The first sequences are at the beginning of the concatenation.
LEMMA JoinsPrefix ==
  ASSUME NEW n \in Nat, NEW s, NEW g, Joins(g, s, n), \A i \in 1..n : IsList(Nth(s, i))
  PROVE  \A k \in 0..n : /\ IsList(Nth(g, k)) /\ Len(Nth(g, k)) \in Nat /\ Len(Nth(g, k)) <= Len(Nth(g, n))
                         /\ \A a \in 1..Len(Nth(g, k)) : Nth(g, n)[a] = Nth(g, k)[a]
  <1>1. ASSUME NEW k \in 0..n PROVE IsList(Nth(g, k)) /\ Len(Nth(g, k)) \in Nat
    <2>1. IsList(Nth(g, k))
      BY DEF Joins
    <2> QED
      BY <2>1, ListIs
  <1>2. ASSUME NEW k \in 0..n PROVE Len(Nth(g, k)) <= Len(Nth(g, n)) /\ \A a \in 1..Len(Nth(g, k)) : Nth(g, n)[a] = Nth(g, k)[a]
    <2> DEFINE IsPrefixOf(j) == Len(Nth(g, k)) <= Len(Nth(g, j)) /\ \A a \in 1..Len(Nth(g, k)) : Nth(g, j)[a] = Nth(g, k)[a]
               T == {j \in k..n : IsPrefixOf(j)}
    <2>1. k \in T /\ k \in Nat
      BY <1>1
    <2>2. ASSUME NEW j \in k..n, j \in T, j < n PROVE j + 1 \in T
      <3>1. j + 1 \in 1..n /\ j + 1 - 1 = j /\ j \in 0..n /\ j + 1 \in k..n
        BY <2>2
      <3>2. Nth(g, j + 1) = Cat(Nth(g, j), Nth(s, j + 1)) /\ IsList(Nth(g, j)) /\ IsList(Nth(s, j + 1))
        BY <1>1, <3>1 DEF Joins
      <3>3. /\ Len(Cat(Nth(g, j), Nth(s, j + 1))) = Len(Nth(g, j)) + Len(Nth(s, j + 1)) /\ Len(Nth(s, j + 1)) \in Nat
            /\ \A a \in 1..Len(Nth(g, j)) : Cat(Nth(g, j), Nth(s, j + 1))[a] = Nth(g, j)[a]
        <4>1. IsList(Nth(g, j)) /\ IsList(Nth(s, j + 1))
          BY <3>2
        <4> QED
          BY ONLY <4>1, CatOfLists
      <3>4. IsPrefixOf(j) /\ Len(Nth(g, j)) \in Nat /\ Len(Nth(g, k)) \in Nat
        BY <1>1, <2>2, <3>1
      <3>5. Len(Nth(g, j + 1)) = Len(Nth(g, j)) + Len(Nth(s, j + 1))
        BY ONLY <3>2, <3>3
      <3>6. Len(Nth(g, k)) <= Len(Nth(g, j + 1))
        <4>1. Len(Nth(g, k)) <= Len(Nth(g, j)) /\ Len(Nth(g, j)) \in Nat /\ Len(Nth(g, k)) \in Nat /\ Len(Nth(s, j + 1)) \in Nat
          BY <3>3, <3>4
        <4> QED
          BY ONLY <3>5, <4>1
      <3>7. \A a \in 1..Len(Nth(g, k)) : a \in 1..Len(Nth(g, j))
        BY ONLY <3>4
      <3>8. \A a \in 1..Len(Nth(g, k)) : Nth(g, j + 1)[a] = Nth(g, k)[a]
        BY ONLY <3>2, <3>3, <3>4, <3>7
      <3> QED
        BY <3>1, <3>6, <3>8
    <2> HIDE DEF T
    <2>3. \A j \in k..n : j \in T
      BY <2>1, <2>2, Climb
    <2> QED
      BY <2>3 DEF T
  <1> QED
    BY <1>1, <1>2

\* The next sequence comes after them.
LEMMA JoinsNext ==
  ASSUME NEW n \in Nat, NEW s, NEW g, Joins(g, s, n), \A i \in 1..n : IsList(Nth(s, i)),
         NEW k \in 1..n
  PROVE  /\ Len(Nth(g, k)) = Len(Nth(g, k - 1)) + Len(Nth(s, k))
         /\ Len(Nth(g, k - 1)) \in Nat /\ Len(Nth(s, k)) \in Nat /\ Len(Nth(g, k)) <= Len(Nth(g, n))
         /\ \A b \in 1..Len(Nth(s, k)) : Nth(g, n)[Len(Nth(g, k - 1)) + b] = Nth(s, k)[b]
  <1>1. k - 1 \in 0..n /\ k \in 0..n
    OBVIOUS
  <1>2. IsList(Nth(g, k - 1)) /\ Len(Nth(g, k - 1)) \in Nat /\ Len(Nth(g, k)) \in Nat /\ Len(Nth(g, k)) <= Len(Nth(g, n))
    BY <1>1, JoinsPrefix
  <1>3. \A a \in 1..Len(Nth(g, k)) : Nth(g, n)[a] = Nth(g, k)[a]
    BY <1>1, JoinsPrefix
  <1>4. Nth(g, k) = Cat(Nth(g, k - 1), Nth(s, k)) /\ IsList(Nth(s, k))
    BY DEF Joins
  <1>5. /\ Len(Cat(Nth(g, k - 1), Nth(s, k))) = Len(Nth(g, k - 1)) + Len(Nth(s, k)) /\ Len(Nth(s, k)) \in Nat
        /\ \A b \in 1..Len(Nth(s, k)) : Cat(Nth(g, k - 1), Nth(s, k))[Len(Nth(g, k - 1)) + b] = Nth(s, k)[b]
    <2>1. IsList(Nth(g, k - 1)) /\ IsList(Nth(s, k))
      BY <1>2, <1>4
    <2> QED
      BY ONLY <2>1, CatOfLists
  <1>6. Len(Nth(g, k)) = Len(Nth(g, k - 1)) + Len(Nth(s, k))
    BY ONLY <1>4, <1>5
  <1>7. ASSUME NEW b \in 1..Len(Nth(s, k)) PROVE Nth(g, n)[Len(Nth(g, k - 1)) + b] = Nth(s, k)[b]
    <2>1. Len(Nth(g, k - 1)) + b \in 1..Len(Nth(g, k))
      <3>1. b \in 1..Len(Nth(s, k)) /\ Len(Nth(s, k)) \in Nat /\ Len(Nth(g, k - 1)) \in Nat
        BY <1>2, <1>5
      <3> QED
        BY ONLY <1>6, <3>1
    <2> QED
      BY <1>3, <1>4, <1>5, <2>1
  <1> QED
    BY <1>2, <1>5, <1>6, <1>7

\* What stands for a character between single quotes.
Piece(c) == IF c = "single" THEN <<"single", "backslash", "single", "single">> ELSE <<c>>
Quotes(s) == Cat(Cat(<<"single">>, s), <<"single">>)

\* The characters of a piece.
LEMMA PieceIs ==
  ASSUME NEW c
  PROVE  /\ IsList(Piece(c))
         /\ c # "single" => Len(Piece(c)) = 1 /\ Piece(c)[1] = c
         /\ c = "single" => /\ Len(Piece(c)) = 4 /\ Piece(c)[1] = "single" /\ Piece(c)[2] = "backslash"
                            /\ Piece(c)[3] = "single" /\ Piece(c)[4] = "single"
  <1>1. CASE c = "single"
    <2>1. Piece(c) \in Seq({"single", "backslash"}) /\ Len(Piece(c)) = 4
      BY <1>1 DEF Piece
    <2>2. IsList(Piece(c))
      BY <2>1, ListIs
    <2> QED
      BY <1>1, <2>1, <2>2 DEF Piece
  <1>2. CASE c # "single"
    BY <1>2, ShortLists DEF Piece
  <1> QED
    BY <1>1, <1>2

\* The characters between two quotes.
LEMMA QuotesAre ==
  ASSUME NEW s, IsList(s)
  PROVE  /\ IsList(Quotes(s)) /\ Len(Quotes(s)) = Len(s) + 2 /\ Len(s) \in Nat
         /\ Quotes(s)[1] = "single" /\ Quotes(s)[Len(s) + 2] = "single"
         /\ \A i \in 1..Len(s) : Quotes(s)[i + 1] = s[i]
  <1> DEFINE a == <<"single">>
             b == Cat(a, s)
  <1>1. IsList(a) /\ Len(a) = 1 /\ a[1] = "single"
    BY ShortLists
  <1> HIDE DEF a
  <1>2. IsList(a) /\ IsList(s)
    BY <1>1
  <1>3. /\ IsList(b) /\ Len(b) = Len(a) + Len(s) /\ Len(s) \in Nat
        /\ \A i \in 1..Len(a) : b[i] = a[i]
        /\ \A i \in 1..Len(s) : b[Len(a) + i] = s[i]
    BY ONLY <1>2, CatOfLists
  <1> HIDE DEF b
  <1>4. IsList(b) /\ IsList(a)
    BY <1>2, <1>3
  <1>5. /\ IsList(Cat(b, a)) /\ Len(Cat(b, a)) = Len(b) + Len(a)
        /\ \A i \in 1..Len(b) : Cat(b, a)[i] = b[i]
        /\ \A i \in 1..Len(a) : Cat(b, a)[Len(b) + i] = a[i]
    BY ONLY <1>4, CatOfLists
  <1>6. Quotes(s) = Cat(b, a)
    BY DEF Quotes, b, a
  <1>7. Len(b) = Len(s) + 1 /\ b[1] = "single" /\ \A i \in 1..Len(s) : b[i + 1] = s[i]
    <2>1. \A i \in 1..Len(s) : Len(a) + i = i + 1
      BY ONLY <1>1, <1>3
    <2> QED
      BY <1>1, <1>3, <2>1
  <1>8. Len(Cat(b, a)) = Len(s) + 2 /\ Cat(b, a)[1] = "single"
    BY <1>1, <1>3, <1>5, <1>7
  <1>9. Cat(b, a)[Len(s) + 2] = "single"
    <2>1. Len(b) + 1 = Len(s) + 2 /\ 1 \in 1..Len(a)
      BY <1>1, <1>3, <1>7
    <2> QED
      BY <1>1, <1>5, <2>1
  <1>10. ASSUME NEW i \in 1..Len(s) PROVE Cat(b, a)[i + 1] = s[i]
    <2>1. i + 1 \in 1..Len(b)
      BY <1>3, <1>7
    <2> QED
      BY <1>5, <1>7, <2>1
  <1> QED
    BY <1>3, <1>5, <1>6, <1>8, <1>9, <1>10

\* A word in quotes.
LEMMA QuotedWord ==
  ASSUME NEW w, IsList(w), NEW s, s = FlattenSeq([i \in DOMAIN w |-> Piece(w[i])])
  PROVE  /\ LexShellWords(LineOf(Quotes(s))) = [refused |-> FALSE, words |-> <<<<"a">>, w, <<"a">>>>]
         /\ IsList(s)
  <1> DEFINE n == Len(w)
             p == [i \in 1..n |-> Piece(w[i])]
  <1>1. n \in Nat /\ DOMAIN w = 1..n
    BY ListIs
  <1>2. p = [i \in 1..n |-> p[i]] /\ \A i \in 1..n : p[i] = Piece(w[i]) /\ IsList(p[i])
    BY PieceIs
  <1>3. s = FlattenSeq(p)
    BY <1>1
  <1> HIDE DEF p
  <1>4. PICK g : Joins(g, p, n) /\ FlattenSeq(p) = g[n]
    BY <1>1, <1>2, FlattenJoins
  <1> DEFINE L(k) == Len(Nth(g, k))
             q == Quotes(s)
             line == LineOf(q)
  <1>5. s = Nth(g, n) /\ \A i \in 1..n : Nth(p, i) = Piece(w[i]) /\ IsList(Nth(p, i))
    BY <1>2, <1>3, <1>4 DEF Nth
  <1>6. /\ L(0) = 0
        /\ \A k \in 0..n : L(k) \in Nat /\ L(k) <= L(n) /\ IsList(Nth(g, k))
    <2>1. \A k \in 0..n : L(k) \in Nat /\ L(k) <= L(n) /\ IsList(Nth(g, k))
      BY ONLY <1>1, <1>4, <1>5, JoinsPrefix
    <2>2. L(0) = 0
      BY <1>4 DEF Joins
    <2> QED
      BY <2>1, <2>2
  <1>7. ASSUME NEW k \in 1..n
        PROVE  /\ L(k) = L(k - 1) + Len(Piece(w[k])) /\ L(k - 1) \in Nat /\ L(k) <= L(n)
               /\ \A b \in 1..Len(Piece(w[k])) : s[L(k - 1) + b] = Piece(w[k])[b]
    <2>1. /\ L(k) = L(k - 1) + Len(Nth(p, k)) /\ L(k - 1) \in Nat /\ L(k) <= L(n)
          /\ \A b \in 1..Len(Nth(p, k)) : Nth(g, n)[L(k - 1) + b] = Nth(p, k)[b]
      <3>1. n \in Nat /\ Joins(g, p, n) /\ (\A i \in 1..n : IsList(Nth(p, i))) /\ k \in 1..n
        BY <1>1, <1>4, <1>5
      <3> HIDE DEF n
      <3> QED
        BY ONLY <3>1, JoinsNext
    <2>2. Nth(p, k) = Piece(w[k])
      BY <1>5
    <2>3. s = Nth(g, n)
      BY <1>5
    <2> QED
      BY ONLY <2>1, <2>2, <2>3
  <1>8. IsList(s) /\ Len(s) = L(n) /\ L(n) \in Nat
    BY <1>1, <1>5, <1>6
  <1>9. /\ IsList(q) /\ Len(q) = L(n) + 2
        /\ q[1] = "single" /\ q[L(n) + 2] = "single"
        /\ \A i \in 1..L(n) : q[i + 1] = s[i]
    BY <1>8, QuotesAre
  <1> HIDE DEF q
  <1>10. /\ IsList(line) /\ Len(line) = L(n) + 6
         /\ \A i \in 1..Len(q) : CharOf(line, 2 + i) = q[i]
    <2>1. IsList(q)
      BY <1>9
    <2>2. /\ IsList(line) /\ Len(line) = Len(q) + 4
          /\ \A i \in 1..Len(q) : CharOf(line, 2 + i) = q[i]
      BY ONLY <2>1, LineIs
    <2> HIDE DEF line
    <2> QED
      BY <1>8, <1>9, <2>2
  <1>11. /\ CharOf(line, 3) = "single" /\ CharOf(line, L(n) + 4) = "single"
         /\ \A i \in 1..L(n) : CharOf(line, 3 + i) = s[i]
    <2>1. 2 + 1 = 3 /\ 1 \in 1..Len(q) /\ 2 + (L(n) + 2) = L(n) + 4 /\ L(n) + 2 \in 1..Len(q)
      BY <1>8, <1>9
    <2>2. CharOf(line, 3) = "single" /\ CharOf(line, L(n) + 4) = "single"
      BY <1>9, <1>10, <2>1
    <2>3. ASSUME NEW i \in 1..L(n) PROVE CharOf(line, 3 + i) = s[i]
      <3>1. 2 + (i + 1) = 3 + i /\ i + 1 \in 1..Len(q)
        BY <1>8, <1>9
      <3> QED
        BY <1>9, <1>10, <3>1
    <2> QED
      BY <2>2, <2>3
  <1>12. PICK f : LexShellWords(line) = WordsAtEnd(f[Len(line)]) /\ Follow(f, line)
    BY <1>10, LexIs DEF Follow
  <1> HIDE DEF line
  <1>13. \A i \in 1..(L(n) + 6) : Nth(f, i) = LexStep(line, Nth(f, i - 1), i)
    BY <1>10, <1>12 DEF Follow, Nth
  <1>14. Nth(f, 3) = InWord(First, <<>>, "single")
    <2>1. Nth(f, 2) = Between(First)
      BY <1>9, <1>12, LexBefore DEF line, Nth
    <2>2. Outside(Nth(f, 2), First, <<>>)
      BY <2>1, OutsideIs
    <2>3. 3 \in 1..(L(n) + 6) /\ 3 - 1 = 2
      BY <1>8
    <2>4. Nth(f, 3) = LexStep(line, Nth(f, 2), 3)
      BY <1>13, <2>3
    <2>5. CharOf(line, 3) = "single"
      BY <1>11
    <2>6. LexStep(line, Nth(f, 2), 3) = InWord(First, <<>>, "single")
      BY ONLY <2>2, <2>5, LexOpens
    <2> QED
      BY ONLY <2>4, <2>6
  <1> DEFINE T == {k \in 0..n : Nth(f, 3 + L(k)) = InWord(First, Upto(w, k), "single")}
  <1>15. 0 \in T
    <2>1. 3 + L(0) = 3 /\ Upto(w, 0) = <<>>
      BY <1>6, UptoIs
    <2> QED
      BY <1>1, <1>14, <2>1
  <1>16. ASSUME NEW k \in 0..n, k \in T, k < n PROVE k + 1 \in T
    <2> DEFINE j == k + 1
               c == w[j]
               i == 3 + L(k)
    <2>1. j \in 1..n /\ j - 1 = k /\ k \in Nat
      BY <1>1, <1>16
    <2>2. Nth(f, i) = InWord(First, Upto(w, k), "single")
      BY <1>16
    <2>3. /\ L(j) = L(k) + Len(Piece(c)) /\ L(k) \in Nat /\ L(j) <= L(n)
          /\ \A b \in 1..Len(Piece(c)) : s[L(k) + b] = Piece(c)[b]
      BY <1>7, <2>1
    <2>4. Add(Upto(w, k), c) = Upto(w, j)
      BY <2>1, UptoIs DEF Add
    <2> HIDE DEF j, c
    <2>5. ASSUME NEW b \in 1..Len(Piece(c)), Len(Piece(c)) \in Nat
          PROVE  /\ CharOf(line, i + b) = Piece(c)[b] /\ i + b \in 1..(L(n) + 6)
                 /\ i + b - 1 = i + (b - 1) /\ i + b \in Nat
      <3>1. L(k) + b \in 1..L(n) /\ i + b = 3 + (L(k) + b)
        BY <1>8, <2>3, <2>5
      <3>2. CharOf(line, 3 + (L(k) + b)) = s[L(k) + b]
        BY <1>11, <3>1
      <3>3. s[L(k) + b] = Piece(c)[b]
        BY <2>3
      <3>4. CharOf(line, i + b) = Piece(c)[b]
        BY ONLY <3>1, <3>2, <3>3
      <3>5. i + b \in 1..(L(n) + 6) /\ i + b - 1 = i + (b - 1) /\ i + b \in Nat
        BY <1>8, <2>3, <3>1
      <3> QED
        BY <3>4, <3>5
    <2>6. Nth(f, 3 + L(j)) = InWord(First, Add(Upto(w, k), c), "single")
      <3>1. CASE c # "single"
        <4>1. Len(Piece(c)) = 1 /\ Piece(c)[1] = c
          BY <3>1, PieceIs
        <4>2. CharOf(line, i + 1) = c /\ i + 1 \in 1..(L(n) + 6) /\ i + 1 - 1 = i
          BY <2>3, <2>5, <4>1
        <4>3. Nth(f, i + 1) = LexStep(line, Nth(f, i), i + 1)
          BY <1>13, <4>2
        <4>4. CharOf(line, i + 1) # "single"
          BY <3>1, <4>2
        <4> HIDE DEF i
        <4>5. LexStep(line, InWord(First, Upto(w, k), "single"), i + 1)
                = InWord(First, Add(Upto(w, k), CharOf(line, i + 1)), "single")
          BY ONLY <4>4, LexInside
        <4>6. Nth(f, i + 1) = InWord(First, Add(Upto(w, k), c), "single")
          BY ONLY <2>2, <4>2, <4>3, <4>5
        <4>7. 3 + L(j) = i + 1
          BY <2>3, <4>1 DEF i
        <4> QED
          BY ONLY <4>6, <4>7
      <3>2. CASE c = "single"
        <4>1. /\ Len(Piece(c)) = 4 /\ Piece(c)[1] = "single" /\ Piece(c)[2] = "backslash"
              /\ Piece(c)[3] = "single" /\ Piece(c)[4] = "single"
          BY <3>2, PieceIs
        <4>2. \A b \in 1..4 : CharOf(line, i + b) = Piece(c)[b] /\ i + b \in 1..(L(n) + 6) /\ i + b - 1 = i + (b - 1)
          BY <2>5, <4>1
        <4>3. \A b \in 1..4 : Nth(f, i + b) = LexStep(line, Nth(f, i + b - 1), i + b)
          BY <1>13, <4>2
        <4>4. \A b \in 1..4 : Nth(f, i + b) = LexStep(line, Nth(f, i + (b - 1)), i + b)
          BY ONLY <4>2, <4>3
        <4>5. /\ i + 0 = i /\ 2 - 1 = 1 /\ 3 - 1 = 2 /\ 4 - 1 = 3 /\ 1 - 1 = 0
              /\ i + 2 + 1 = i + 3 /\ i + 2 \in Nat /\ i + 2 < Len(line) /\ 3 + L(j) = i + 4
          BY <1>8, <1>10, <2>3, <4>1
        <4> HIDE DEF i, L
        <4>6. /\ Nth(f, i + 1) = LexStep(line, Nth(f, i), i + 1)
              /\ Nth(f, i + 2) = LexStep(line, Nth(f, i + 1), i + 2)
              /\ Nth(f, i + 3) = LexStep(line, Nth(f, i + 2), i + 2 + 1)
              /\ Nth(f, i + 4) = LexStep(line, Nth(f, i + 3), i + 4)
          BY ONLY <4>4, <4>5
        <4>7. CharOf(line, i + 1) = "single" /\ CharOf(line, i + 2) = "backslash" /\ CharOf(line, i + 4) = "single"
          BY ONLY <4>1, <4>2
        <4>8. NextOf(line, i + 2) = "single"
          <5>1. CharOf(line, i + 3) = "single"
            BY ONLY <4>1, <4>2
          <5>2. CharOf(line, i + 2 + 1) = "single"
            BY ONLY <4>5, <5>1
          <5> QED
            BY ONLY <4>5, <5>2 DEF NextOf, CharOf
        <4>9. LexStep(line, InWord(First, Upto(w, k), "single"), i + 1) = InWord(First, Upto(w, k), NotQuoted)
          BY ONLY <4>7, LexCloses
        <4>10. LexStep(line, LexStep(line, InWord(First, Upto(w, k), NotQuoted), i + 2), i + 2 + 1)
                 = InWord(First, Add(Upto(w, k), "single"), NotQuoted)
          BY ONLY <4>5, <4>7, <4>8, LexEscapes
        <4>11. Nth(f, i + 3) = InWord(First, Add(Upto(w, k), "single"), NotQuoted)
          BY ONLY <2>2, <4>6, <4>9, <4>10
        <4>12. Outside(Nth(f, i + 3), First, Add(Upto(w, k), "single"))
          BY <4>11, OutsideIs
        <4>13. LexStep(line, Nth(f, i + 3), i + 4) = InWord(First, Add(Upto(w, k), "single"), "single")
          BY ONLY <4>7, <4>12, LexOpens
        <4> QED
          BY ONLY <3>2, <4>5, <4>6, <4>13
      <3> QED
        BY <3>1, <3>2
    <2> QED
      BY <2>1, <2>4, <2>6 DEF j
  <1> HIDE DEF T
  <1>17. \A k \in 0..n : k \in T
    BY <1>1, <1>15, <1>16, Climb
  <1>18. Nth(f, 3 + L(n)) = InWord(First, w, "single")
    BY <1>1, <1>17, UptoIs DEF T
  <1>19. Nth(f, L(n) + 4) = InWord(First, w, NotQuoted)
    <2>1. L(n) + 4 \in 1..(L(n) + 6) /\ L(n) + 4 - 1 = 3 + L(n)
      BY <1>8
    <2>2. Nth(f, L(n) + 4) = LexStep(line, Nth(f, L(n) + 4 - 1), L(n) + 4)
      BY <1>13, <2>1
    <2>3. CharOf(line, L(n) + 4) = "single"
      BY <1>11
    <2>4. LexStep(line, InWord(First, w, "single"), L(n) + 4) = InWord(First, w, NotQuoted)
      BY ONLY <2>3, LexCloses
    <2> QED
      BY ONLY <1>18, <2>1, <2>2, <2>4
  <1>20. f[2 + Len(q)] = InWord(First, w, NotQuoted)
    <2>1. 2 + Len(q) = L(n) + 4
      BY <1>8, <1>9
    <2> QED
      BY <1>19, <2>1 DEF Nth
  <1>21. WordsAtEnd(f[Len(line)]) = [refused |-> FALSE, words |-> <<<<"a">>, w, <<"a">>>>]
    BY <1>9, <1>12, <1>20, LexAfter DEF line
  <1> QED
    BY <1>8, <1>12, <1>21 DEF line, q

-----------------------------------------------------------------------------
\* Words come back, whatever characters they have.
LEMMA WordIsReadBack ==
  ASSUME word \in Seq(Characters)
  PROVE  WordsComeBack
  <1> DEFINE bare == word # <<>> /\ ToSet(word) \subseteq Unquoted
             line == <<"a", "blank">> \o ShellQuote(word) \o <<"blank", "a">>
  <1>1. IsList(word)
    BY ONLY word \in Seq(Characters), SeqIsList
  <1>2. CASE bare
    <2>1. line = LineOf(word)
      BY <1>2 DEF ShellQuote, LineOf, Cat
    <2> HIDE DEF line
    <2>2. LexShellWords(LineOf(word)) =
            IF HasTwoAnds(word) THEN [refused |-> TRUE, words |-> <<>>]
            ELSE [refused |-> FALSE, words |-> <<<<"a">>, word, <<"a">>>>]
      BY <1>1, <1>2, BareWord
    <2>3. LexShellWords(line) =
            IF bare /\ HasTwoAnds(word) THEN [refused |-> TRUE, words |-> <<>>]
            ELSE [refused |-> FALSE, words |-> <<<<"a">>, word, <<"a">>>>]
      BY ONLY <1>2, <2>1, <2>2
    <2> QED
      BY <2>3 DEF WordsComeBack, line
  <1>3. CASE ~bare
    <2> DEFINE s == FlattenSeq([i \in DOMAIN word |-> Piece(word[i])])
    <2>1. line = LineOf(Quotes(s))
      BY <1>3 DEF ShellQuote, LineOf, Cat, Quotes, Piece
    <2>2. LexShellWords(LineOf(Quotes(s))) = [refused |-> FALSE, words |-> <<<<"a">>, word, <<"a">>>>]
      BY <1>1, QuotedWord
    <2> HIDE DEF line
    <2>3. LexShellWords(line) =
            IF bare /\ HasTwoAnds(word) THEN [refused |-> TRUE, words |-> <<>>]
            ELSE [refused |-> FALSE, words |-> <<<<"a">>, word, <<"a">>>>]
      BY ONLY <1>3, <2>1, <2>2
    <2> QED
      BY <2>3 DEF WordsComeBack, line
  <1> QED
    BY <1>2, <1>3

-----------------------------------------------------------------------------
(* Commands                                                                 *)

Parses(f, p, words, n) ==
  f = [i \in 0..n |-> IF i = 0 THEN p ELSE ParseWord(f[i - 1], words[i])]

\* There is a function as ParseWords defines one.
LEMMA ParseExists ==
  ASSUME NEW p, NEW words, NEW n \in Nat
  PROVE  \E f : Parses(f, p, words, n)
  <1> DEFINE T == {k \in Nat : \E f : Parses(f, p, words, k)}
  <1>1. 0 \in T
    <2>1. Parses([i \in 0..0 |-> p], p, words, 0)
      BY DEF Parses
    <2> QED
      BY <2>1
  <1>2. ASSUME NEW k \in 0..n, k \in T, k < n PROVE k + 1 \in T
    <2>1. PICK f : Parses(f, p, words, k)
      BY <1>2
    <2> DEFINE g == [i \in 0..(k + 1) |-> IF i = k + 1 THEN ParseWord(f[k], words[i]) ELSE f[i]]
    <2>2. ASSUME NEW i \in 0..(k + 1) PROVE g[i] = IF i = 0 THEN p ELSE ParseWord(g[i - 1], words[i])
      <3>1. CASE i = k + 1
        <4>1. i - 1 = k /\ k \in 0..(k + 1) /\ k # k + 1 /\ i # 0
          BY <3>1
        <4>2. g[i] = ParseWord(f[k], words[i]) /\ g[k] = f[k]
          BY <3>1, <4>1
        <4> HIDE DEF g
        <4> QED
          BY <4>1, <4>2
      <3>2. CASE i # k + 1
        <4>1. i \in 0..k /\ (i # 0 => i - 1 \in 0..(k + 1) /\ i - 1 # k + 1)
          BY <3>2
        <4>2. g[i] = f[i] /\ (i # 0 => g[i - 1] = f[i - 1])
          BY <3>2, <4>1
        <4>3. f[i] = IF i = 0 THEN p ELSE ParseWord(f[i - 1], words[i])
          BY <2>1, <4>1 DEF Parses
        <4> HIDE DEF g
        <4> QED
          BY <4>2, <4>3
      <3> QED
        BY <3>1, <3>2
    <2>3. g = [i \in 0..(k + 1) |-> g[i]]
      OBVIOUS
    <2> HIDE DEF g
    <2>4. Parses(g, p, words, k + 1)
      BY <2>2, <2>3 DEF Parses
    <2> QED
      BY <2>4
  <1> HIDE DEF T
  <1>3. \A k \in 0..n : k \in T
    BY <1>1, <1>2, Climb
  <1> QED
    BY <1>3 DEF T

\* f is what the parser has after each word.
Reads(f, p, words) ==
  /\ Nth(f, 0) = p
  /\ \A i \in 1..Len(words) : Nth(f, i) = ParseWord(Nth(f, i - 1), Nth(words, i))

\* ParseWords is what the parser has at the end.
LEMMA ParseIs ==
  ASSUME NEW p, NEW words, IsList(words)
  PROVE  \E f : ParseWords(p, words) = Nth(f, Len(words)) /\ Reads(f, p, words)
  <1> DEFINE n == Len(words)
             f == CHOOSE f : f = [i \in 0..n |-> IF i = 0 THEN p ELSE ParseWord(f[i - 1], words[i])]
  <1>1. n \in Nat
    BY ListIs
  <1>2. Parses(f, p, words, n)
    BY <1>1, ParseExists DEF Parses
  <1>3. ParseWords(p, words) = f[n]
    BY DEF ParseWords
  <1> HIDE DEF f, n
  <1>4. f[0] = p /\ \A i \in 1..n : f[i] = ParseWord(f[i - 1], words[i])
    BY <1>1, <1>2 DEF Parses
  <1> QED
    BY <1>3, <1>4 DEF n, Reads, Nth

\* No words, one, and the words of two sequences.
LEMMA ParseNothing ==
  ASSUME NEW p
  PROVE  ParseWords(p, <<>>) = p
  BY ParseIs, ShortLists DEF Reads

\* One word.
LEMMA ParseOne ==
  ASSUME NEW p, NEW w
  PROVE  ParseWords(p, <<w>>) = ParseWord(p, w)
  <1>1. PICK f : ParseWords(p, <<w>>) = Nth(f, Len(<<w>>)) /\ Reads(f, p, <<w>>)
    BY ParseIs, ShortLists
  <1>2. Len(<<w>>) = 1 /\ Nth(<<w>>, 1) = w /\ 1 \in 1..1 /\ 1 - 1 = 0
    BY DEF Nth
  <1>3. Nth(f, 1) = ParseWord(Nth(f, 0), w) /\ Nth(f, 0) = p
    BY <1>1, <1>2 DEF Reads
  <1> QED
    BY <1>1, <1>2, <1>3

\* Two sequences of words in a row.
LEMMA ParseCat ==
  ASSUME NEW p, NEW s, NEW t, IsList(s), IsList(t)
  PROVE  ParseWords(p, Cat(s, t)) = ParseWords(ParseWords(p, s), t)
  <1> DEFINE m == Len(s)
             n == Len(t)
             q == ParseWords(p, s)
  <1>1. IsList(s) /\ IsList(t)
    OBVIOUS
  <1>2. /\ IsList(Cat(s, t)) /\ Len(Cat(s, t)) = m + n /\ m \in Nat /\ n \in Nat
        /\ \A i \in 1..m : Nth(Cat(s, t), i) = Nth(s, i)
        /\ \A i \in 1..n : Nth(Cat(s, t), m + i) = Nth(t, i)
    BY <1>1, CatOfLists DEF Nth
  <1>3. PICK f : q = Nth(f, m) /\ Reads(f, p, s)
    BY <1>1, ParseIs
  <1> HIDE DEF q
  <1>4. PICK g : ParseWords(q, t) = Nth(g, n) /\ Reads(g, q, t)
    BY <1>1, ParseIs
  <1>5. PICK h : ParseWords(p, Cat(s, t)) = Nth(h, Len(Cat(s, t))) /\ Reads(h, p, Cat(s, t))
    BY <1>2, ParseIs
  <1> HIDE DEF m, n
  <1>6. \A i \in 1..(m + n) : Nth(h, i) = ParseWord(Nth(h, i - 1), Nth(Cat(s, t), i))
    BY <1>2, <1>5 DEF Reads
  <1> DEFINE T == {k \in 0..m : Nth(h, k) = Nth(f, k)}
             U == {k \in 0..n : Nth(h, m + k) = Nth(g, k)}
  <1>7. 0 \in T
    BY <1>2, <1>3, <1>5 DEF Reads
  <1>8. ASSUME NEW k \in 0..m, k \in T, k < m PROVE k + 1 \in T
    <2>1. k + 1 \in 1..m /\ k + 1 \in 1..(m + n) /\ k + 1 - 1 = k /\ k + 1 \in 0..m
      BY <1>2, <1>8
    <2>2. Nth(h, k) = Nth(f, k)
      BY <1>8
    <2>3. Nth(h, k + 1) = ParseWord(Nth(h, k + 1 - 1), Nth(Cat(s, t), k + 1))
      <3>1. k + 1 \in 1..(m + n)
        BY <2>1
      <3> QED
        BY ONLY <1>6, <3>1
    <2>4. Nth(f, k + 1) = ParseWord(Nth(f, k + 1 - 1), Nth(s, k + 1))
      BY <1>3, <2>1 DEF Reads, m
    <2>5. Nth(Cat(s, t), k + 1) = Nth(s, k + 1)
      BY <1>2, <2>1
    <2>6. Nth(h, k + 1) = Nth(f, k + 1)
      BY ONLY <2>1, <2>2, <2>3, <2>4, <2>5
    <2> QED
      BY <2>1, <2>6
  <1> HIDE DEF T
  <1>9. \A k \in 0..m : k \in T
    BY <1>2, <1>7, <1>8, Climb
  <1>10. 0 \in U
    <2>1. m \in 0..m /\ m + 0 = m
      BY <1>2
    <2>2. Nth(h, m) = q
      BY <1>3, <1>9, <2>1 DEF T, m
    <2>3. Nth(g, 0) = q
      BY <1>4 DEF Reads
    <2> QED
      BY <1>2, <2>1, <2>2, <2>3
  <1>11. ASSUME NEW k \in 0..n, k \in U, k < n PROVE k + 1 \in U
    <2>1. k + 1 \in 1..n /\ m + (k + 1) \in 1..(m + n) /\ k + 1 - 1 = k /\ m + (k + 1) - 1 = m + k /\ k + 1 \in 0..n
      BY <1>2, <1>11
    <2>2. Nth(h, m + k) = Nth(g, k)
      BY <1>11
    <2>3. Nth(h, m + (k + 1)) = ParseWord(Nth(h, m + (k + 1) - 1), Nth(Cat(s, t), m + (k + 1)))
      <3>1. m + (k + 1) \in 1..(m + n) /\ m \in Nat /\ n \in Nat /\ k \in Nat
        BY <1>2, <2>1
      <3> QED
        BY ONLY <1>6, <3>1
    <2>4. Nth(g, k + 1) = ParseWord(Nth(g, k + 1 - 1), Nth(t, k + 1))
      BY <1>4, <2>1 DEF Reads, n
    <2>5. Nth(Cat(s, t), m + (k + 1)) = Nth(t, k + 1)
      BY <1>2, <2>1
    <2>6. Nth(h, m + (k + 1)) = Nth(g, k + 1)
      BY ONLY <2>1, <2>2, <2>3, <2>4, <2>5
    <2> QED
      BY <2>1, <2>6
  <1> HIDE DEF U
  <1>12. \A k \in 0..n : k \in U
    BY <1>2, <1>10, <1>11, Climb
  <1>13. Nth(h, m + n) = Nth(g, n)
    BY <1>2, <1>12 DEF U
  <1> QED
    BY <1>2, <1>4, <1>5, <1>13 DEF m, n, q

-----------------------------------------------------------------------------
(* The parser *)

Fields == DOMAIN ParserStart
Get(p, x) == p[x]
Set(p, x, v) == [p EXCEPT ![x] = v]

\* The parser when it does not wait for the value of an option.
IsParser(p) == p = [x \in Fields |-> p[x]] /\ p.option = Unset

\* The fields of the parser.
LEMMA FieldsAre ==
  Fields = {"method", "url", "headers", "fields", "raw", "parts", "auth", "redirect", "maxRedirects", "verify",
            "proxy", "noProxy", "connectMs", "overallMs", "idleMs", "unsupported", "option"}
  BY DEF Fields, ParserStart

\* One field is set, the others stay.
LEMMA SetIs ==
  ASSUME NEW p, IsParser(p), NEW x \in Fields, x # "option", NEW v
  PROVE  /\ IsParser(Set(p, x, v)) /\ Get(Set(p, x, v), x) = v
         /\ \A y \in Fields \ {x} : Get(Set(p, x, v), y) = Get(p, y)
         /\ \A w : Set(Set(p, x, v), x, w) = Set(p, x, w)
         /\ Get(p, x) = v => Set(p, x, v) = p
  <1>1. "option" \in Fields
    BY FieldsAre
  <1> QED
    BY <1>1 DEF IsParser, Set, Get

\* An option and its value.
LEMMA ParsePair ==
  ASSUME NEW p, IsParser(p), NEW option \in ValueOptions, NEW value
  PROVE  ParseWords(p, Pair(option, value)) = TakeValue(p, option, value)
  <1> DEFINE q == [p EXCEPT !.option = option]
  <1>1. option # Unset
    BY DEF ValueOptions, Unset
  <1>2. ParseWord(p, option) = q
    BY <1>1 DEF ParseWord, IsParser
  <1>3. q.option = option /\ [q EXCEPT !.option = Unset] = p
    BY FieldsAre DEF IsParser
  <1> HIDE DEF q
  <1>4. ParseWord(q, value) = TakeValue(p, option, value)
    BY <1>1, <1>3 DEF ParseWord
  <1>5. Pair(option, value) = Cat(<<option>>, <<value>>)
    <2>1. IsList(<<option>>) /\ IsList(<<value>>) /\ Len(<<option>>) = 1 /\ Len(<<value>>) = 1
      BY ShortLists
    <2> DEFINE c == Cat(<<option>>, <<value>>)
    <2>2. /\ IsList(c) /\ Len(c) = Len(<<option>>) + Len(<<value>>)
          /\ \A i \in 1..Len(<<option>>) : c[i] = <<option>>[i]
          /\ \A i \in 1..Len(<<value>>) : c[Len(<<option>>) + i] = <<value>>[i]
      BY <2>1, CatOfLists
    <2> HIDE DEF c
    <2>3. Len(c) = 2 /\ c[1] = option /\ c[2] = value
      BY <2>1, <2>2
    <2>4. c = <<option, value>>
      BY <2>2, <2>3, ListIs
    <2> QED
      BY <2>4 DEF Pair, c
  <1>6. IsList(<<option>>) /\ IsList(<<value>>)
    BY ShortLists
  <1>7. ParseWords(p, Cat(<<option>>, <<value>>)) = ParseWords(ParseWords(p, <<option>>), <<value>>)
    BY ONLY <1>6, ParseCat
  <1>8. ParseWords(p, <<option>>) = q /\ ParseWords(q, <<value>>) = TakeValue(p, option, value)
    BY <1>2, <1>4, ParseOne
  <1> QED
    BY ONLY <1>5, <1>7, <1>8

\* Options that add their values to a list.
LEMMA ParsePairs ==
  ASSUME NEW p, IsParser(p), NEW option \in ValueOptions, NEW x \in Fields, x # "option", Get(p, x) = <<>>,
         NEW values, IsList(values), NEW rows, IsList(rows), Len(rows) = Len(values),
         \A q : \A k \in 1..Len(values) : IsParser(q) =>
           TakeValue(q, option, Nth(values, k)) = Set(q, x, Add(Get(q, x), Nth(rows, k)))
  PROVE  /\ ParseWords(p, Pairs(option, values)) = Set(p, x, rows)
         /\ IsList(Pairs(option, values))
  <1> DEFINE n == Len(values)
             s == [i \in 1..n |-> Pair(option, values[i])]
  <1>1. n \in Nat /\ DOMAIN values = 1..n
    BY ListIs
  <1>2. Pairs(option, values) = FlattenSeq(s)
    BY <1>1 DEF Pairs
  <1>3. ASSUME NEW i \in 1..n PROVE s[i] = Pair(option, Nth(values, i)) /\ IsList(s[i])
    BY ShortLists DEF Pair, Nth
  <1>4. s = [i \in 1..n |-> s[i]] /\ \A i \in 1..n : IsList(s[i])
    BY <1>3
  <1>5. \A i \in 1..n : Nth(s, i) = Pair(option, Nth(values, i)) /\ IsList(Nth(s, i))
    BY <1>3 DEF Nth
  <1> HIDE DEF s
  <1>6. PICK g : Joins(g, s, n) /\ FlattenSeq(s) = g[n]
    BY <1>1, <1>4, FlattenJoins
  <1> HIDE DEF n
  <1> DEFINE T == {k \in 0..n : ParseWords(p, Nth(g, k)) = Set(p, x, Upto(rows, k))}
  <1>7. 0 \in T
    <2>1. Nth(g, 0) = <<>> /\ Upto(rows, 0) = <<>>
      BY <1>6, UptoIs DEF Joins
    <2>2. Set(p, x, <<>>) = p
      BY SetIs
    <2>3. ParseWords(p, <<>>) = p
      BY ParseNothing
    <2> QED
      BY <1>1, <2>1, <2>2, <2>3
  <1>8. ASSUME NEW k \in 0..n, k \in T, k < n PROVE k + 1 \in T
    <2> DEFINE q == Set(p, x, Upto(rows, k))
    <2>1. k + 1 \in 1..n /\ k + 1 - 1 = k /\ k \in Nat /\ k + 1 \in 0..n
      BY <1>1, <1>8
    <2>2. /\ Nth(g, k + 1) = Cat(Nth(g, k), Pair(option, Nth(values, k + 1)))
          /\ IsList(Nth(g, k)) /\ IsList(Pair(option, Nth(values, k + 1)))
      <3>1. Nth(g, k + 1) = Cat(Nth(g, k + 1 - 1), Nth(s, k + 1))
        BY <1>6, <2>1 DEF Joins
      <3>2. IsList(Nth(g, k))
        BY <1>6, <2>1 DEF Joins
      <3>3. Nth(s, k + 1) = Pair(option, Nth(values, k + 1)) /\ IsList(Nth(s, k + 1))
        BY <1>5, <2>1
      <3> QED
        BY <2>1, <3>1, <3>2, <3>3
    <2>3. ParseWords(p, Nth(g, k)) = q
      BY <1>8
    <2>4. IsParser(q) /\ Get(q, x) = Upto(rows, k) /\ \A w : Set(q, x, w) = Set(p, x, w)
      BY SetIs
    <2> HIDE DEF q
    <2>5. TakeValue(q, option, Nth(values, k + 1)) = Set(q, x, Add(Get(q, x), Nth(rows, k + 1)))
      BY <2>1, <2>4 DEF n
    <2>6. ParseWords(q, Pair(option, Nth(values, k + 1))) = TakeValue(q, option, Nth(values, k + 1))
      BY <2>4, ParsePair
    <2>7. ParseWords(p, Cat(Nth(g, k), Pair(option, Nth(values, k + 1))))
            = ParseWords(ParseWords(p, Nth(g, k)), Pair(option, Nth(values, k + 1)))
      BY ONLY <2>2, ParseCat
    <2>8. Add(Upto(rows, k), Nth(rows, k + 1)) = Upto(rows, k + 1)
      BY <2>1, UptoIs DEF Add, Nth
    <2>9. ParseWords(p, Nth(g, k + 1)) = Set(p, x, Upto(rows, k + 1))
      BY ONLY <2>2, <2>3, <2>4, <2>5, <2>6, <2>7, <2>8
    <2> QED
      BY <2>1, <2>9
  <1> HIDE DEF T
  <1>9. \A k \in 0..n : k \in T
    BY <1>1, <1>7, <1>8, Climb
  <1>10. ParseWords(p, Nth(g, n)) = Set(p, x, Upto(rows, n)) /\ Upto(rows, n) = rows
    BY <1>1, <1>9, UptoIs DEF T, n
  <1>11. IsList(Nth(g, n))
    BY <1>1, <1>6 DEF Joins
  <1>12. Pairs(option, values) = Nth(g, n)
    BY <1>2, <1>6 DEF Nth
  <1> QED
    BY ONLY <1>10, <1>11, <1>12

-----------------------------------------------------------------------------
(* What a request writes, and what is read of it                            *)

\* q differs from p in these fields at most.
Kept(p, q, changed) == IsParser(q) /\ \A y \in Fields \ changed : Get(q, y) = Get(p, y)

\* What a field that is set changes.
LEMMA KeptBySet ==
  ASSUME NEW p, IsParser(p), NEW x \in Fields, x # "option", NEW v
  PROVE  Kept(p, Set(p, x, v), {x}) /\ Get(Set(p, x, v), x) = v
  BY SetIs DEF Kept

\* The rows that are switched on.
LEMMA OnIs ==
  ASSUME NEW rows, IsList(rows)
  PROVE  /\ IsList(On(rows)) /\ Enabled(rows) = On(rows)
         /\ \A i \in 1..Len(On(rows)) : \E j \in DOMAIN rows : Nth(On(rows), i) = rows[j] /\ rows[j].enabled
  <1> DEFINE n == Len(rows)
             s == [i \in 1..n |-> IF rows[i].enabled THEN <<rows[i]>> ELSE <<>>]
             R == {rows[j] : j \in {i \in 1..n : rows[i].enabled}}
  <1>1. n \in Nat /\ DOMAIN rows = 1..n
    BY ListIs
  <1>2. On(rows) = FlattenSeq(s) /\ Enabled(rows) = On(rows)
    BY <1>1 DEF On, Enabled
  <1>3. ASSUME NEW i \in 1..n PROVE s[i] \in Seq(R)
    <2>1. CASE rows[i].enabled
      <3>1. s[i] = <<rows[i]>> /\ rows[i] \in R
        BY <2>1
      <3> HIDE DEF s, R
      <3> QED
        BY <3>1
    <2>2. CASE ~rows[i].enabled
      <3>1. s[i] = <<>>
        BY <2>2
      <3> HIDE DEF s, R
      <3> QED
        BY <3>1
    <2> QED
      BY <2>1, <2>2
  <1>4. s \in [1..n -> Seq(R)]
    BY <1>3
  <1>5. \A r \in R : \E j \in DOMAIN rows : r = rows[j] /\ rows[j].enabled
    BY <1>1
  <1> HIDE DEF s, R
  <1>6. FlattenSeq(s) \in Seq(R)
    <2>1. CASE n = 0
      <3>1. Len(s) = 0 /\ s \in Seq(R)
        BY <1>4, <2>1
      <3> QED
        BY <3>1 DEF FlattenSeq
    <2>2. CASE n # 0
      <3>1. n \in Nat \ {0} /\ SeqsOf(s, n, R) /\ n \in 1..n
        BY <1>1, <1>4, <2>2 DEF SeqsOf
      <3>2. PICK f : Flat(f, s, n) /\ FlattenSeq(s) = f[n]
        BY <1>4, <3>1, FlattenIsFlat
      <3>3. \A k \in 1..n : f[k] \in Seq(R)
        BY ONLY <3>1, <3>2, FlatType
      <3> QED
        BY <3>1, <3>2, <3>3
    <2> QED
      BY <2>1, <2>2
  <1>7. IsList(On(rows))
    BY <1>2, <1>6, SeqIsList
  <1>8. \A i \in 1..Len(On(rows)) : Nth(On(rows), i) \in R
    BY <1>2, <1>6 DEF Nth
  <1> QED
    BY <1>2, <1>5, <1>7, <1>8

\* What a part of a form is read as: a text with an at sign is a file.
PartBack(row) ==
  IF ~IsFilePart(row) /\ row.value.at THEN [name |-> row.name, file |-> row.value.text, enabled |-> TRUE]
  ELSE row

\* A header that is read is the row that was written.
LEMMA TakeHeader ==
  ASSUME NEW q, IsParser(q), NEW row, IsRow(row), row.enabled, ~IsBearer(HeaderOf(row))
  PROVE  TakeValue(q, "-H", HeaderOf(row)) = Set(q, "headers", Add(Get(q, "headers"), row))
  <1>1. row = [name |-> row.name, value |-> row.value, enabled |-> TRUE]
    BY DEF IsRow
  <1>2. TakeValue(q, "-H", HeaderOf(row)) = AddHeader(q, HeaderOf(row))
    BY DEF TakeValue
  <1>3. AddHeader(q, HeaderOf(row)) = [q EXCEPT !.headers = PushRow(@, row.name, row.value)]
    BY DEF AddHeader, HeaderOf, Header
  <1>4. "headers" \in Fields
    BY FieldsAre
  <1>5. PushRow(q.headers, row.name, row.value) = Append(q.headers, row)
    BY <1>1 DEF PushRow
  <1> QED
    BY <1>2, <1>3, <1>4, <1>5 DEF Set, Get, Add, IsParser

\* So is a field of a form.
LEMMA TakeField ==
  ASSUME NEW q, IsParser(q), NEW row, IsRow(row), row.enabled
  PROVE  TakeValue(q, "--data-urlencode", HeaderOf(row)) = Set(q, "fields", Add(Get(q, "fields"), row))
  <1>1. row = [name |-> row.name, value |-> row.value, enabled |-> TRUE]
    BY DEF IsRow
  <1>2. TakeValue(q, "--data-urlencode", HeaderOf(row)) = [q EXCEPT !.fields = PushRow(@, row.name, row.value)]
    BY DEF TakeValue, HeaderOf, Header
  <1>4. "fields" \in Fields
    BY FieldsAre
  <1>5. PushRow(q.fields, row.name, row.value) = Append(q.fields, row)
    BY <1>1 DEF PushRow
  <1> QED
    BY <1>2, <1>4, <1>5 DEF Set, Get, Add, IsParser

\* And a part of a form, unless it is a text with an at sign.
LEMMA TakePart ==
  ASSUME NEW q, IsParser(q), NEW row, IsPart(row), row.enabled
  PROVE  TakeValue(q, "-F", PartWord(row)) = Set(q, "parts", Add(Get(q, "parts"), PartBack(row)))
  <1>1. "parts" \in Fields
    BY FieldsAre
  <1>2. TakeValue(q, "-F", PartWord(row)) = PushPart(q, PartWord(row), FALSE)
    BY DEF TakeValue
  <1>3. CASE IsFilePart(row)
    <2>1. row = [name |-> row.name, file |-> row.file, enabled |-> TRUE]
      BY <1>3 DEF IsPart, IsFileRow
    <2>2. PartWord(row) = [name |-> row.name, value |-> [at |-> TRUE, text |-> row.file]]
      BY <1>3 DEF PartWord
    <2>3. PushPart(q, PartWord(row), FALSE)
            = [q EXCEPT !.parts = Append(@, [name |-> row.name, file |-> row.file, enabled |-> TRUE])]
      <3>1. PartWord(row).value.at /\ PartWord(row).value.text = row.file /\ PartWord(row).name = row.name
        BY <2>2
      <3> QED
        BY ONLY <3>1 DEF PushPart
    <2>4. PartBack(row) = row
      BY <1>3 DEF PartBack
    <2> QED
      BY <1>1, <1>2, <2>1, <2>3, <2>4 DEF Set, Get, Add, IsParser
  <1>4. CASE ~IsFilePart(row)
    <2>1. row = [name |-> row.name, value |-> row.value, enabled |-> TRUE] /\ row.value.at \in BOOLEAN
      BY <1>4 DEF IsPart, IsRow
    <2>2. PartWord(row) = [name |-> row.name, value |-> row.value]
      BY <1>4 DEF PartWord
    <2>3. CASE row.value.at
      <3>1. PushPart(q, PartWord(row), FALSE)
              = [q EXCEPT !.parts = Append(@, [name |-> row.name, file |-> row.value.text, enabled |-> TRUE])]
        BY <2>2, <2>3 DEF PushPart
      <3>2. PartBack(row) = [name |-> row.name, file |-> row.value.text, enabled |-> TRUE]
        BY <1>4, <2>3 DEF PartBack
      <3> QED
        BY <1>1, <1>2, <3>1, <3>2 DEF Set, Get, Add, IsParser
    <2>4. CASE ~row.value.at
      <3>1. PushPart(q, PartWord(row), FALSE) = [q EXCEPT !.parts = PushRow(@, row.name, row.value)]
        BY <2>2, <2>4 DEF PushPart
      <3>2. PartBack(row) = row
        BY <1>4, <2>4 DEF PartBack
      <3>3. PushRow(q.parts, row.name, row.value) = Append(q.parts, row)
        BY <2>1 DEF PushRow
      <3> QED
        BY <1>1, <1>2, <3>1, <3>2, <3>3 DEF Set, Get, Add, IsParser
    <2> QED
      BY <2>3, <2>4
  <1> QED
    BY <1>3, <1>4

\* The headers.
LEMMA ReadHeaders ==
  ASSUME NEW p, IsParser(p), Get(p, "headers") = <<>>, NEW rows, IsList(rows),
         \A i \in DOMAIN rows : IsRow(rows[i]) /\ ~IsBearer(HeaderOf(rows[i]))
  PROVE  /\ ParseWords(p, HeaderWords(rows)) = Set(p, "headers", On(rows))
         /\ IsList(HeaderWords(rows))
  <1> DEFINE on == On(rows)
             values == [i \in 1..Len(on) |-> HeaderOf(on[i])]
  <1>1. /\ IsList(on) /\ Enabled(rows) = on
        /\ \A i \in 1..Len(on) : \E j \in DOMAIN rows : Nth(on, i) = rows[j] /\ rows[j].enabled
    BY OnIs
  <1>2. Len(on) \in Nat /\ DOMAIN on = 1..Len(on)
    BY <1>1, ListIs
  <1>3. HeaderWords(rows) = Pairs("-H", values)
    BY <1>1, <1>2 DEF HeaderWords
  <1> HIDE DEF on
  <1>4. \A i \in 1..Len(on) : Nth(values, i) = HeaderOf(Nth(on, i))
    BY DEF Nth
  <1>5. IsList(values) /\ Len(values) = Len(on)
    BY <1>2, ListIs
  <1> HIDE DEF values
  <1>6. ASSUME NEW q, NEW k \in 1..Len(values), IsParser(q)
        PROVE  TakeValue(q, "-H", Nth(values, k)) = Set(q, "headers", Add(Get(q, "headers"), Nth(on, k)))
    <2>1. k \in 1..Len(on)
      BY <1>5
    <2>2. IsRow(Nth(on, k)) /\ Nth(on, k).enabled /\ ~IsBearer(HeaderOf(Nth(on, k)))
      BY <1>1, <2>1
    <2>3. Nth(values, k) = HeaderOf(Nth(on, k))
      BY <1>4, <2>1
    <2> QED
      BY <1>6, <2>2, <2>3, TakeHeader
  <1>7. "-H" \in ValueOptions /\ "headers" \in Fields /\ "headers" # "option"
    BY FieldsAre DEF ValueOptions
  <1>8. ParseWords(p, Pairs("-H", values)) = Set(p, "headers", on) /\ IsList(Pairs("-H", values))
    BY <1>1, <1>5, <1>6, <1>7, ParsePairs
  <1> QED
    BY <1>3, <1>8 DEF on

\* The fields of a form.
LEMMA ReadFields ==
  ASSUME NEW p, IsParser(p), Get(p, "fields") = <<>>, NEW rows, IsList(rows),
         \A i \in DOMAIN rows : IsRow(rows[i]),
         NEW words, words = Pairs("--data-urlencode", [i \in DOMAIN Enabled(rows) |-> HeaderOf(Enabled(rows)[i])])
  PROVE  ParseWords(p, words) = Set(p, "fields", On(rows)) /\ IsList(words)
  <1> DEFINE on == On(rows)
             values == [i \in 1..Len(on) |-> HeaderOf(on[i])]
  <1>1. /\ IsList(on) /\ Enabled(rows) = on
        /\ \A i \in 1..Len(on) : \E j \in DOMAIN rows : Nth(on, i) = rows[j] /\ rows[j].enabled
    BY OnIs
  <1>2. Len(on) \in Nat /\ DOMAIN on = 1..Len(on)
    BY <1>1, ListIs
  <1>3. words = Pairs("--data-urlencode", values)
    BY <1>1, <1>2
  <1> HIDE DEF on
  <1>4. \A i \in 1..Len(on) : Nth(values, i) = HeaderOf(Nth(on, i))
    BY DEF Nth
  <1>5. IsList(values) /\ Len(values) = Len(on)
    BY <1>2, ListIs
  <1> HIDE DEF values
  <1>6. ASSUME NEW q, NEW k \in 1..Len(values), IsParser(q)
        PROVE  TakeValue(q, "--data-urlencode", Nth(values, k)) = Set(q, "fields", Add(Get(q, "fields"), Nth(on, k)))
    <2>1. k \in 1..Len(on)
      BY <1>5
    <2>2. IsRow(Nth(on, k)) /\ Nth(on, k).enabled
      BY <1>1, <2>1
    <2>3. Nth(values, k) = HeaderOf(Nth(on, k))
      BY <1>4, <2>1
    <2> QED
      BY <1>6, <2>2, <2>3, TakeField
  <1>7. "--data-urlencode" \in ValueOptions /\ "fields" \in Fields /\ "fields" # "option"
    BY FieldsAre DEF ValueOptions
  <1>8. ParseWords(p, Pairs("--data-urlencode", values)) = Set(p, "fields", on)
        /\ IsList(Pairs("--data-urlencode", values))
    BY <1>1, <1>5, <1>6, <1>7, ParsePairs
  <1> QED
    BY <1>3, <1>8 DEF on

\* The parts of a form.
LEMMA ReadParts ==
  ASSUME NEW p, IsParser(p), Get(p, "parts") = <<>>, NEW rows, IsList(rows),
         \A i \in DOMAIN rows : IsPart(rows[i]),
         NEW words, words = Pairs("-F", [i \in DOMAIN Enabled(rows) |-> PartWord(Enabled(rows)[i])])
  PROVE  /\ ParseWords(p, words) = Set(p, "parts", [i \in 1..Len(On(rows)) |-> PartBack(On(rows)[i])])
         /\ IsList(words)
  <1> DEFINE on == On(rows)
             values == [i \in 1..Len(on) |-> PartWord(on[i])]
             back == [i \in 1..Len(on) |-> PartBack(on[i])]
  <1>1. /\ IsList(on) /\ Enabled(rows) = on
        /\ \A i \in 1..Len(on) : \E j \in DOMAIN rows : Nth(on, i) = rows[j] /\ rows[j].enabled
    BY OnIs
  <1>2. Len(on) \in Nat /\ DOMAIN on = 1..Len(on)
    BY <1>1, ListIs
  <1>3. words = Pairs("-F", values)
    BY <1>1, <1>2
  <1> HIDE DEF on
  <1>4. \A i \in 1..Len(on) : Nth(values, i) = PartWord(Nth(on, i)) /\ Nth(back, i) = PartBack(Nth(on, i))
    BY DEF Nth
  <1>5. IsList(values) /\ Len(values) = Len(on) /\ IsList(back) /\ Len(back) = Len(on)
    BY <1>2, ListIs
  <1> HIDE DEF values, back
  <1>6. ASSUME NEW q, NEW k \in 1..Len(values), IsParser(q)
        PROVE  TakeValue(q, "-F", Nth(values, k)) = Set(q, "parts", Add(Get(q, "parts"), Nth(back, k)))
    <2>1. k \in 1..Len(on)
      BY <1>5
    <2>2. IsPart(Nth(on, k)) /\ Nth(on, k).enabled
      BY <1>1, <2>1
    <2>3. Nth(values, k) = PartWord(Nth(on, k)) /\ Nth(back, k) = PartBack(Nth(on, k))
      BY <1>4, <2>1
    <2> QED
      BY <1>6, <2>2, <2>3, TakePart
  <1>7. "-F" \in ValueOptions /\ "parts" \in Fields /\ "parts" # "option"
    BY FieldsAre DEF ValueOptions
  <1>8. ParseWords(p, Pairs("-F", values)) = Set(p, "parts", back) /\ IsList(Pairs("-F", values))
    BY <1>1, <1>5, <1>6, <1>7, ParsePairs
  <1> QED
    BY <1>3, <1>8 DEF back, on

\* An option with its value, or nothing.
LEMMA ReadPair ==
  ASSUME NEW p, IsParser(p), NEW option \in ValueOptions, NEW value, NEW x \in Fields, x # "option", NEW v,
         TakeValue(p, option, value) = Set(p, x, v)
  PROVE  /\ IsList(Pair(option, value))
         /\ Kept(p, ParseWords(p, Pair(option, value)), {x})
         /\ Get(ParseWords(p, Pair(option, value)), x) = v
  <1>1. ParseWords(p, Pair(option, value)) = Set(p, x, v)
    BY ParsePair
  <1>2. Kept(p, Set(p, x, v), {x}) /\ Get(Set(p, x, v), x) = v
    BY KeptBySet
  <1> QED
    BY <1>1, <1>2, ShortLists DEF Pair

\* No words change nothing.
LEMMA ReadNothing ==
  ASSUME NEW p, IsParser(p)
  PROVE  IsList(<<>>) /\ ParseWords(p, <<>>) = p /\ \A X : Kept(p, p, X)
  BY ParseNothing, ShortLists DEF Kept

\* The authorization.
LEMMA ReadAuth ==
  ASSUME NEW p, IsParser(p), Get(p, "auth") = [kind |-> "none"], NEW auth, IsAuth(auth),
         NEW q, q = ParseWords(p, AuthWords(auth))
  PROVE  /\ IsList(AuthWords(auth)) /\ Kept(p, q, {"auth", "headers"})
         /\ Get(q, "headers") = IF auth.kind = "apiKey"
                                 THEN Add(Get(p, "headers"), [name |-> auth.user, value |-> auth.value, enabled |-> TRUE])
                                 ELSE Get(p, "headers")
         /\ auth.kind \in {"none", "basic", "bearer"} => Get(q, "auth") = auth
  <1>1. /\ {"auth", "headers"} \subseteq Fields /\ "auth" # "option" /\ "headers" # "option"
        /\ {"-u", "-H"} \subseteq ValueOptions
    BY FieldsAre DEF ValueOptions
  <1>2. \A X, Y, r : X \subseteq Y /\ Kept(p, r, X) => Kept(p, r, Y)
    BY DEF Kept
  <1>3. CASE auth.kind = "none"
    <2>1. AuthWords(auth) = <<>> /\ auth = [kind |-> "none"]
      BY <1>3 DEF AuthWords, IsAuth
    <2> QED
      BY <1>3, <2>1, ReadNothing
  <1>4. CASE auth.kind = "basic"
    <2> DEFINE value == [user |-> auth.user, password |-> auth.value]
    <2>1. AuthWords(auth) = Pair("-u", value)
      BY <1>4 DEF AuthWords
    <2>2. auth = [kind |-> "basic", user |-> auth.user, value |-> auth.value]
      BY <1>4 DEF IsAuth
    <2>3. TakeValue(p, "-u", value) = Set(p, "auth", auth)
      BY <2>2 DEF TakeValue, Set
    <2> HIDE DEF value
    <2>4. IsList(Pair("-u", value)) /\ Kept(p, q, {"auth"}) /\ Get(q, "auth") = auth
      BY <1>1, <2>1, <2>3, ReadPair
    <2>5. Get(q, "headers") = Get(p, "headers")
      BY <1>1, <2>4 DEF Kept
    <2> QED
      BY <1>2, <1>4, <2>1, <2>4, <2>5
  <1>5. CASE auth.kind = "bearer"
    <2> DEFINE value == Header("Authorization", [bearer |-> auth.value])
    <2>1. AuthWords(auth) = Pair("-H", value)
      BY <1>5 DEF AuthWords
    <2>2. auth = [kind |-> "bearer", value |-> auth.value]
      BY <1>5 DEF IsAuth
    <2>3. TakeValue(p, "-H", value) = AddHeader(p, value)
      BY DEF TakeValue
    <2>4. IsBearer(value) /\ value.value.bearer = auth.value
      BY DEF IsBearer, Header
    <2>5. AddHeader(p, value) = Set(p, "auth", auth)
      BY <2>2, <2>4 DEF AddHeader, Set
    <2> HIDE DEF value
    <2>6. IsList(Pair("-H", value)) /\ Kept(p, q, {"auth"}) /\ Get(q, "auth") = auth
      BY <1>1, <2>1, <2>3, <2>5, ReadPair
    <2>7. Get(q, "headers") = Get(p, "headers")
      BY <1>1, <2>6 DEF Kept
    <2> QED
      BY <1>2, <1>5, <2>1, <2>6, <2>7
  <1>6. CASE auth.kind = "clientCredentials"
    <2> DEFINE value == Header("Authorization", [bearer |-> "********"])
               v == [kind |-> "bearer", value |-> "********"]
    <2>1. AuthWords(auth) = Pair("-H", value)
      BY <1>6 DEF AuthWords
    <2>3. TakeValue(p, "-H", value) = AddHeader(p, value)
      BY DEF TakeValue
    <2>4. IsBearer(value) /\ value.value.bearer = "********"
      BY DEF IsBearer, Header
    <2>5. AddHeader(p, value) = Set(p, "auth", v)
      BY <2>4 DEF AddHeader, Set
    <2> HIDE DEF value, v
    <2>6. IsList(Pair("-H", value)) /\ Kept(p, q, {"auth"})
      BY <1>1, <2>1, <2>3, <2>5, ReadPair
    <2>7. Get(q, "headers") = Get(p, "headers")
      BY <1>1, <2>6 DEF Kept
    <2> QED
      BY <1>2, <1>6, <2>1, <2>6, <2>7
  <1>7. CASE auth.kind = "apiKey"
    <2> DEFINE row == [name |-> auth.user, value |-> auth.value, enabled |-> TRUE]
               value == Header(auth.user, auth.value)
               v == Add(Get(p, "headers"), row)
    <2>1. AuthWords(auth) = Pair("-H", value)
      BY <1>7 DEF AuthWords
    <2>2. ~IsBearer(value)
      BY <1>7 DEF IsAuth
    <2>3. IsRow(row) /\ row.enabled /\ HeaderOf(row) = value
      BY DEF IsRow, HeaderOf
    <2> HIDE DEF row, value
    <2>4. TakeValue(p, "-H", value) = Set(p, "headers", v)
      BY <2>2, <2>3, TakeHeader
    <2> HIDE DEF v
    <2>5. IsList(Pair("-H", value)) /\ Kept(p, q, {"headers"}) /\ Get(q, "headers") = v
      BY <1>1, <2>1, <2>4, ReadPair
    <2> QED
      BY <1>2, <1>7, <2>1, <2>5 DEF v, row
  <1> QED
    BY <1>3, <1>4, <1>5, <1>6, <1>7 DEF IsAuth

\* The redirections.
Starts(redirect, n) == redirect = TRUE /\ n = 10
RedirectBack(content, redirect, n) ==
  redirect = TRUE /\ n = IF content.redirect THEN content.maxRedirects ELSE 0

LEMMA ReadRedirect ==
  ASSUME NEW p, IsParser(p), Starts(Get(p, "redirect"), Get(p, "maxRedirects")),
         NEW content, content.redirect \in BOOLEAN, content.maxRedirects \in 0..255,
         NEW q, q = ParseWords(p, RedirectWords(content))
  PROVE  /\ IsList(RedirectWords(content)) /\ Kept(p, q, {"redirect", "maxRedirects"})
         /\ RedirectBack(content, Get(q, "redirect"), Get(q, "maxRedirects"))
  <1>0. Get(p, "redirect") = TRUE /\ Get(p, "maxRedirects") = 10
    BY DEF Starts
  <1>1. /\ {"redirect", "maxRedirects"} \subseteq Fields /\ "maxRedirects" # "option"
        /\ "redirect" # "option" /\ "--max-redirs" \in ValueOptions
    BY FieldsAre DEF ValueOptions
  <1>2. \A X, Y, r : X \subseteq Y /\ Kept(p, r, X) => Kept(p, r, Y)
    BY DEF Kept
  <1>3. \A n \in 0..255 : TakeValue(p, "--max-redirs", n) = Set(p, "maxRedirects", n)
    BY DEF TakeValue, Set
  <1>4. ASSUME NEW n \in 0..255, NEW r, r = ParseWords(p, Pair("--max-redirs", n))
        PROVE  /\ IsList(Pair("--max-redirs", n)) /\ Kept(p, r, {"maxRedirects"})
               /\ Get(r, "maxRedirects") = n /\ Get(r, "redirect") = TRUE
    <2>0. TakeValue(p, "--max-redirs", n) = Set(p, "maxRedirects", n)
      BY <1>3
    <2>1. IsList(Pair("--max-redirs", n)) /\ Kept(p, r, {"maxRedirects"}) /\ Get(r, "maxRedirects") = n
      <3>1. IsParser(p)
        OBVIOUS
      <3> QED
        BY ONLY <1>1, <1>4, <2>0, <3>1, ReadPair
    <2>2. Get(r, "redirect") = TRUE
      BY <1>0, <1>1, <2>1 DEF Kept
    <2> QED
      BY <2>1, <2>2
  <1>5. ParseWords(p, <<"--location">>) = p /\ IsList(<<"--location">>)
    <2>1. ParseWord(p, "--location") = TakeFlag(p, "--location")
      BY DEF ParseWord, ValueOptions, Flags, IsParser
    <2>2. TakeFlag(p, "--location") = Set(p, "redirect", TRUE)
      BY DEF TakeFlag, Set
    <2>3. Set(p, "redirect", TRUE) = p
      BY <1>0, <1>1, SetIs
    <2> QED
      BY <2>1, <2>2, <2>3, ParseOne, ShortLists
  <1>6. CASE ~content.redirect
    <2>1. RedirectWords(content) = Pair("--max-redirs", 0) /\ 0 \in 0..255
      BY <1>6 DEF RedirectWords
    <2> QED
      BY <1>2, <1>4, <1>6, <2>1 DEF RedirectBack
  <1>7. CASE content.redirect /\ content.maxRedirects = 10
    <2>1. RedirectWords(content) = Cat(<<"--location">>, <<>>)
      BY <1>7 DEF RedirectWords, Cat
    <2>2. RedirectWords(content) = <<"--location">>
      BY <1>5, <2>1, CatWithNothing
    <2> QED
      BY <1>0, <1>5, <1>7, <2>2, ReadNothing DEF RedirectBack
  <1>8. CASE content.redirect /\ content.maxRedirects # 10
    <2> DEFINE n == content.maxRedirects
    <2>1. RedirectWords(content) = Cat(<<"--location">>, Pair("--max-redirs", n))
      BY <1>8 DEF RedirectWords, Cat
    <2>2. /\ IsList(Pair("--max-redirs", n))
          /\ Kept(p, ParseWords(p, Pair("--max-redirs", n)), {"maxRedirects"})
          /\ Get(ParseWords(p, Pair("--max-redirs", n)), "maxRedirects") = n
          /\ Get(ParseWords(p, Pair("--max-redirs", n)), "redirect") = TRUE
      BY <1>4
    <2> HIDE DEF n
    <2>3. ParseWords(p, Cat(<<"--location">>, Pair("--max-redirs", n)))
            = ParseWords(ParseWords(p, <<"--location">>), Pair("--max-redirs", n))
      BY <1>5, <2>2, ParseCat
    <2>4. IsList(Cat(<<"--location">>, Pair("--max-redirs", n)))
      BY <1>5, <2>2, CatOfLists
    <2>5. q = ParseWords(p, Pair("--max-redirs", n))
      BY <1>5, <2>1, <2>3
    <2> QED
      BY <1>2, <1>8, <2>1, <2>2, <2>4, <2>5 DEF n, RedirectBack
  <1> QED
    BY <1>6, <1>7, <1>8

\* An option that is left out if its value is the usual one.
LEMMA ReadUnless ==
  ASSUME NEW p, IsParser(p), NEW option \in ValueOptions, NEW value, NEW x \in Fields, x # "option", NEW v,
         TakeValue(p, option, value) = Set(p, x, v),
         NEW words, (words = <<>> /\ Get(p, x) = v) \/ words = Pair(option, value)
  PROVE  IsList(words) /\ Kept(p, ParseWords(p, words), {x}) /\ Get(ParseWords(p, words), x) = v
  <1>1. CASE words = <<>> /\ Get(p, x) = v
    BY <1>1, ReadNothing
  <1>2. CASE words = Pair(option, value)
    BY <1>2, ReadPair
  <1> QED
    BY <1>1, <1>2

\* Milliseconds survive as seconds and thousandths.
LEMMA SecondsOf ==
  ASSUME NEW ms \in Nat
  PROVE  Milliseconds(Seconds(ms)) = ms
  <1> DEFINE d == ms \div 1000
             r == ms % 1000
  <1>1. d \in Int /\ r \in Int /\ r = ms - 1000 * d
    OBVIOUS
  <1>2. Milliseconds(Seconds(ms)) = d * 1000 + r
    BY DEF Milliseconds, Seconds
  <1> HIDE DEF d, r
  <1> QED
    BY <1>1, <1>2

\* The words for certificates, proxies and time limits.
InsecureWords(content) == IF content.verify THEN <<>> ELSE <<"--insecure">>
ProxyWords(content) == IF content.proxy = Unset THEN <<>> ELSE Pair("--proxy", content.proxy)
NoProxyWords(content) == IF content.noProxy = <<>> THEN <<>> ELSE Pair("--noproxy", content.noProxy)
ConnectWords(content) ==
  IF content.connectMs = 10000 THEN <<>> ELSE Pair("--connect-timeout", Seconds(content.connectMs))
OverallWords(content) ==
  IF content.overallMs = 300000 THEN <<>> ELSE Pair("--max-time", Seconds(content.overallMs))

\* The parser at the start.
LEMMA StartIs ==
  /\ IsParser(ParserStart)
  /\ Get(ParserStart, "proxy") = Unset /\ Get(ParserStart, "noProxy") = <<>>
  /\ Get(ParserStart, "connectMs") = 10000 /\ Get(ParserStart, "overallMs") = 300000
  /\ Get(ParserStart, "verify") = TRUE /\ Get(ParserStart, "redirect") = TRUE
  /\ Get(ParserStart, "maxRedirects") = 10 /\ Get(ParserStart, "unsupported") = 0
  /\ Get(ParserStart, "url") = Unset /\ Get(ParserStart, "headers") = <<>> /\ Get(ParserStart, "fields") = <<>>
  /\ Get(ParserStart, "parts") = <<>> /\ Get(ParserStart, "raw") = <<>>
  /\ Get(ParserStart, "auth") = [kind |-> "none"]
  BY SMT DEF IsParser, Fields, Get, ParserStart, Unset

\* The same, without the numbers.
LEMMA StartVerifies ==
  Get(ParserStart, "verify") = TRUE /\ Get(ParserStart, "redirect") = TRUE
  BY SMT DEF Get, ParserStart

\* Certificates.
LEMMA ReadInsecure ==
  ASSUME NEW p, IsParser(p), NEW content, content.verify \in BOOLEAN,
         Get(p, "verify") = Get(ParserStart, "verify"),
         NEW q, q = ParseWords(p, InsecureWords(content))
  PROVE  IsList(InsecureWords(content)) /\ Kept(p, q, {"verify"}) /\ Get(q, "verify") = content.verify
  <1>1. "verify" \in Fields /\ "verify" # "option"
    BY FieldsAre
  <1>2. CASE content.verify
    <2>1. InsecureWords(content) = <<>>
      BY <1>2 DEF InsecureWords
    <2>2. Get(p, "verify") = content.verify
      <3>1. content.verify = TRUE
        BY <1>2
      <3> QED
        BY ONLY <3>1, StartVerifies, Get(p, "verify") = Get(ParserStart, "verify")
    <2> QED
      BY <2>1, <2>2, ReadNothing
  <1>3. CASE ~content.verify
    <2>1. ParseWord(p, "--insecure") = TakeFlag(p, "--insecure")
      BY DEF ParseWord, ValueOptions, Flags, IsParser
    <2>2. TakeFlag(p, "--insecure") = Set(p, "verify", FALSE)
      BY DEF TakeFlag, Set
    <2>3. InsecureWords(content) = <<"--insecure">>
      BY <1>3 DEF InsecureWords
    <2>4. q = Set(p, "verify", FALSE) /\ IsList(InsecureWords(content))
      BY <2>1, <2>2, <2>3, ParseOne, ShortLists
    <2>5. Kept(p, Set(p, "verify", FALSE), {"verify"}) /\ Get(Set(p, "verify", FALSE), "verify") = FALSE
      BY <1>1, KeptBySet
    <2> QED
      BY <1>3, <2>4, <2>5
  <1> QED
    BY <1>2, <1>3

\* The proxy.
LEMMA ReadProxy ==
  ASSUME NEW p, IsParser(p), NEW content, Get(p, "proxy") = Get(ParserStart, "proxy"),
         NEW words, words = ProxyWords(content)
  PROVE  /\ IsList(words) /\ Kept(p, ParseWords(p, words), {"proxy"})
         /\ Get(ParseWords(p, words), "proxy") = content.proxy
  <1> DEFINE v == content.proxy
  <1>1. TakeValue(p, "--proxy", v) = Set(p, "proxy", v)
    BY DEF TakeValue, Set
  <1>2. (words = <<>> /\ Get(p, "proxy") = v) \/ words = Pair("--proxy", v)
    BY StartIs, SMT DEF ProxyWords
  <1>3. "--proxy" \in ValueOptions /\ "proxy" \in Fields /\ "proxy" # "option"
    BY FieldsAre DEF ValueOptions
  <1> HIDE DEF v
  <1>4. IsList(words) /\ Kept(p, ParseWords(p, words), {"proxy"}) /\ Get(ParseWords(p, words), "proxy") = v
    BY <1>1, <1>2, <1>3, ReadUnless
  <1> QED
    BY <1>4 DEF v

\* The hosts without a proxy.
LEMMA ReadNoProxy ==
  ASSUME NEW p, IsParser(p), NEW content, Get(p, "noProxy") = Get(ParserStart, "noProxy"),
         NEW words, words = NoProxyWords(content)
  PROVE  /\ IsList(words) /\ Kept(p, ParseWords(p, words), {"noProxy"})
         /\ Get(ParseWords(p, words), "noProxy") = content.noProxy
  <1> DEFINE v == content.noProxy
  <1>1. TakeValue(p, "--noproxy", v) = Set(p, "noProxy", v)
    BY DEF TakeValue, Set
  <1>2. (words = <<>> /\ Get(p, "noProxy") = v) \/ words = Pair("--noproxy", v)
    BY StartIs, SMT DEF NoProxyWords
  <1>3. "--noproxy" \in ValueOptions /\ "noProxy" \in Fields /\ "noProxy" # "option"
    BY FieldsAre DEF ValueOptions
  <1> HIDE DEF v
  <1>4. IsList(words) /\ Kept(p, ParseWords(p, words), {"noProxy"}) /\ Get(ParseWords(p, words), "noProxy") = v
    BY <1>1, <1>2, <1>3, ReadUnless
  <1> QED
    BY <1>4 DEF v

\* The time limit of a connection.
LEMMA ReadConnect ==
  ASSUME NEW p, IsParser(p), NEW content, content.connectMs \in Nat, Get(p, "connectMs") = Get(ParserStart, "connectMs"),
         NEW words, words = ConnectWords(content)
  PROVE  /\ IsList(words) /\ Kept(p, ParseWords(p, words), {"connectMs"})
         /\ Get(ParseWords(p, words), "connectMs") = content.connectMs
  <1> DEFINE v == content.connectMs
             value == Seconds(v)
  <1>1. TakeValue(p, "--connect-timeout", value) = Set(p, "connectMs", v)
    <2>1. TakeValue(p, "--connect-timeout", value) = Set(p, "connectMs", Milliseconds(value))
      BY DEF TakeValue, Set
    <2>2. Milliseconds(value) = v
      BY SecondsOf
    <2> QED
      BY ONLY <2>1, <2>2
  <1>2. (words = <<>> /\ Get(p, "connectMs") = v) \/ words = Pair("--connect-timeout", value)
    BY StartIs, SMT DEF ConnectWords
  <1>3. "--connect-timeout" \in ValueOptions /\ "connectMs" \in Fields /\ "connectMs" # "option"
    BY FieldsAre DEF ValueOptions
  <1> HIDE DEF v, value
  <1>4. IsList(words) /\ Kept(p, ParseWords(p, words), {"connectMs"}) /\ Get(ParseWords(p, words), "connectMs") = v
    <2>1. IsParser(p)
      OBVIOUS
    <2>2. CASE words = <<>> /\ Get(p, "connectMs") = v
      BY ONLY <2>1, <2>2, ReadNothing
    <2>3. CASE words = Pair("--connect-timeout", value)
      <3>1. /\ IsList(Pair("--connect-timeout", value))
            /\ Kept(p, ParseWords(p, Pair("--connect-timeout", value)), {"connectMs"})
            /\ Get(ParseWords(p, Pair("--connect-timeout", value)), "connectMs") = v
        BY ONLY <1>1, <1>3, <2>1, ReadPair
      <3> QED
        BY ONLY <2>3, <3>1
    <2> QED
      BY ONLY <1>2, <2>2, <2>3
  <1> QED
    BY <1>4 DEF v

\* The time limit of a request.
LEMMA ReadOverall ==
  ASSUME NEW p, IsParser(p), NEW content, content.overallMs \in Nat, Get(p, "overallMs") = Get(ParserStart, "overallMs"),
         NEW words, words = OverallWords(content)
  PROVE  /\ IsList(words) /\ Kept(p, ParseWords(p, words), {"overallMs"})
         /\ Get(ParseWords(p, words), "overallMs") = content.overallMs
  <1> DEFINE v == content.overallMs
             value == Seconds(v)
  <1>1. TakeValue(p, "--max-time", value) = Set(p, "overallMs", v)
    <2>1. TakeValue(p, "--max-time", value) = Set(p, "overallMs", Milliseconds(value))
      BY DEF TakeValue, Set
    <2>2. Milliseconds(value) = v
      BY SecondsOf
    <2> QED
      BY ONLY <2>1, <2>2
  <1>2. (words = <<>> /\ Get(p, "overallMs") = v) \/ words = Pair("--max-time", value)
    BY StartIs, SMT DEF OverallWords
  <1>3. "--max-time" \in ValueOptions /\ "overallMs" \in Fields /\ "overallMs" # "option"
    BY FieldsAre DEF ValueOptions
  <1> HIDE DEF v, value
  <1>4. IsList(words) /\ Kept(p, ParseWords(p, words), {"overallMs"}) /\ Get(ParseWords(p, words), "overallMs") = v
    <2>1. IsParser(p)
      OBVIOUS
    <2>2. CASE words = <<>> /\ Get(p, "overallMs") = v
      BY ONLY <2>1, <2>2, ReadNothing
    <2>3. CASE words = Pair("--max-time", value)
      <3>1. /\ IsList(Pair("--max-time", value))
            /\ Kept(p, ParseWords(p, Pair("--max-time", value)), {"overallMs"})
            /\ Get(ParseWords(p, Pair("--max-time", value)), "overallMs") = v
        BY ONLY <1>1, <1>3, <2>1, ReadPair
      <3> QED
        BY ONLY <2>3, <3>1
    <2> QED
      BY ONLY <1>2, <2>2, <2>3
  <1> QED
    BY <1>4 DEF v

TransportFields == {"verify", "proxy", "noProxy", "connectMs", "overallMs"}

\* What two sequences of words change, one after the other.
LEMMA KeptBoth ==
  ASSUME NEW p, NEW q, NEW r, NEW X, NEW Y, Kept(p, q, X), Kept(q, r, Y)
  PROVE  Kept(p, r, X \union Y) /\ \A x \in Fields : x \notin Y => Get(r, x) = Get(q, x)
  BY DEF Kept

\* Certificates, proxies and time limits.
LEMMA ReadTransport ==
  ASSUME NEW p, IsParser(p), NEW content, content.verify \in BOOLEAN,
         content.connectMs \in Nat, content.overallMs \in Nat,
         \A x \in TransportFields : Get(p, x) = Get(ParserStart, x),
         NEW q, q = ParseWords(p, TransportWords(content))
  PROVE  /\ IsList(TransportWords(content)) /\ Kept(p, q, TransportFields)
         /\ Get(q, "verify") = content.verify /\ Get(q, "proxy") = content.proxy
         /\ Get(q, "noProxy") = content.noProxy
         /\ Get(q, "connectMs") = content.connectMs /\ Get(q, "overallMs") = content.overallMs
  <1>1. PICK p1 : p1 = ParseWords(p, InsecureWords(content))
    OBVIOUS
  <1>2. PICK p2 : p2 = ParseWords(p1, ProxyWords(content))
    OBVIOUS
  <1>3. PICK p3 : p3 = ParseWords(p2, NoProxyWords(content))
    OBVIOUS
  <1>4. PICK p4 : p4 = ParseWords(p3, ConnectWords(content))
    OBVIOUS
  <1>5. PICK p5 : p5 = ParseWords(p4, OverallWords(content))
    OBVIOUS
  <1>6. TransportFields \subseteq Fields /\ TransportFields = {"verify", "proxy", "noProxy", "connectMs", "overallMs"}
    BY FieldsAre DEF TransportFields
  <1>0. Get(p, "verify") = Get(ParserStart, "verify")
    BY <1>6
  <1>7. IsList(InsecureWords(content)) /\ Kept(p, p1, {"verify"}) /\ Get(p1, "verify") = content.verify
    BY <1>0, <1>1, ReadInsecure
  <1>8. IsParser(p1) /\ Get(p1, "proxy") = Get(ParserStart, "proxy")
    BY <1>6, <1>7 DEF Kept
  <1>9. IsList(ProxyWords(content)) /\ Kept(p1, p2, {"proxy"}) /\ Get(p2, "proxy") = content.proxy
    BY <1>2, <1>8, ReadProxy
  <1>10. IsParser(p2) /\ Get(p2, "noProxy") = Get(ParserStart, "noProxy")
    BY <1>6, <1>7, <1>9 DEF Kept
  <1>11. IsList(NoProxyWords(content)) /\ Kept(p2, p3, {"noProxy"}) /\ Get(p3, "noProxy") = content.noProxy
    BY <1>3, <1>10, ReadNoProxy
  <1>12. IsParser(p3) /\ Get(p3, "connectMs") = Get(ParserStart, "connectMs")
    BY <1>6, <1>7, <1>9, <1>11 DEF Kept
  <1>13. IsList(ConnectWords(content)) /\ Kept(p3, p4, {"connectMs"}) /\ Get(p4, "connectMs") = content.connectMs
    BY <1>4, <1>12, ReadConnect
  <1>14. IsParser(p4) /\ Get(p4, "overallMs") = Get(ParserStart, "overallMs")
    BY <1>6, <1>7, <1>9, <1>11, <1>13 DEF Kept
  <1>15. IsList(OverallWords(content)) /\ Kept(p4, p5, {"overallMs"}) /\ Get(p5, "overallMs") = content.overallMs
    BY <1>5, <1>14, ReadOverall
  <1> DEFINE w2 == Cat(InsecureWords(content), ProxyWords(content))
             w3 == Cat(w2, NoProxyWords(content))
             w4 == Cat(w3, ConnectWords(content))
             w5 == Cat(w4, OverallWords(content))
  <1>16. TransportWords(content) = w5
    BY DEF TransportWords, Cat, InsecureWords, ProxyWords, NoProxyWords, ConnectWords, OverallWords
  <1>17. IsList(w2) /\ ParseWords(p, w2) = p2
    BY <1>1, <1>2, <1>7, <1>9, CatOfLists, ParseCat
  <1> HIDE DEF w2
  <1>18. IsList(w3) /\ ParseWords(p, w3) = p3
    BY <1>3, <1>11, <1>17, CatOfLists, ParseCat
  <1> HIDE DEF w3
  <1>19. IsList(w4) /\ ParseWords(p, w4) = p4
    BY <1>4, <1>13, <1>18, CatOfLists, ParseCat
  <1> HIDE DEF w4
  <1>20. IsList(w5) /\ ParseWords(p, w5) = p5
    BY <1>5, <1>15, <1>19, CatOfLists, ParseCat
  <1> HIDE DEF w5
  <1>21. q = p5 /\ IsList(TransportWords(content))
    BY <1>16, <1>20
  <1>22. Kept(p, p5, TransportFields)
    BY <1>6, <1>7, <1>9, <1>11, <1>13, <1>15 DEF Kept
  <1>23. /\ Get(p5, "verify") = content.verify /\ Get(p5, "proxy") = content.proxy
         /\ Get(p5, "noProxy") = content.noProxy /\ Get(p5, "connectMs") = content.connectMs
    BY <1>6, <1>7, <1>9, <1>11, <1>13, <1>15 DEF Kept
  <1> QED
    BY <1>15, <1>21, <1>22, <1>23

\* The concatenation of one sequence is that sequence.
LEMMA FlattenOne ==
  ASSUME NEW a, NEW s, s = [i \in DOMAIN <<a>> |-> IF i = 1 THEN <<a>>[i] ELSE <<"&">> \o <<a>>[i]]
  PROVE  FlattenSeq(s) = a
  <1>1. s = [i \in 1..1 |-> a]
    <2>1. DOMAIN <<a>> = 1..1 /\ \A i \in 1..1 : i = 1
      OBVIOUS
    <2> QED
      BY <2>1
  <1>2. Len(s) = 1 /\ s[1] = a
    BY <1>1
  <1> DEFINE f == CHOOSE f : f = [k \in 1..1 |-> IF k = 1 THEN s[k] ELSE Cat(f[k - 1], s[k])]
  <1>3. Flat(f, s, 1)
    BY FlatExists DEF Flat
  <1>4. FlattenSeq(s) = f[1]
    BY <1>2 DEF FlattenSeq, Cat
  <1> HIDE DEF f
  <1>5. f[1] = s[1]
    BY <1>3 DEF Flat
  <1> QED
    BY <1>2, <1>4, <1>5

\* The kinds of body that a command is read as.
LEMMA ParsedIs ==
  ASSUME NEW q, NEW text
  PROVE  /\ Get(q, "parts") # <<>> => ParsedBody(q) = [kind |-> "multipart", rows |-> Get(q, "parts")]
         /\ Get(q, "parts") = <<>> /\ Get(q, "fields") # <<>> =>
              ParsedBody(q) = [kind |-> "urlencoded", rows |-> Get(q, "fields")]
         /\ Get(q, "parts") = <<>> /\ Get(q, "fields") = <<>> /\ Get(q, "raw") = <<>> =>
              ParsedBody(q) = [kind |-> "none"]
         /\ Get(q, "parts") = <<>> /\ Get(q, "fields") = <<>> /\ Get(q, "raw") = <<text>> =>
              ParsedBody(q) = [kind |-> "raw", text |-> text]
  <1>1. /\ Get(q, "parts") # <<>> => ParsedBody(q) = [kind |-> "multipart", rows |-> Get(q, "parts")]
        /\ Get(q, "parts") = <<>> /\ Get(q, "fields") # <<>> =>
             ParsedBody(q) = [kind |-> "urlencoded", rows |-> Get(q, "fields")]
        /\ Get(q, "parts") = <<>> /\ Get(q, "fields") = <<>> /\ Get(q, "raw") = <<>> =>
             ParsedBody(q) = [kind |-> "none"]
    BY DEF ParsedBody, Get
  <1>2. ASSUME Get(q, "parts") = <<>>, Get(q, "fields") = <<>>, Get(q, "raw") = <<text>>
        PROVE  ParsedBody(q) = [kind |-> "raw", text |-> text]
    <2> DEFINE raw == Get(q, "raw")
               s == [i \in DOMAIN raw |-> IF i = 1 THEN raw[i] ELSE <<"&">> \o raw[i]]
    <2>1. <<text>> # <<>>
      BY ShortLists
    <2>2. ParsedBody(q) = [kind |-> "raw", text |-> FlattenSeq(s)]
      BY <1>2, <2>1 DEF ParsedBody, Get
    <2>3. s = [i \in DOMAIN <<text>> |-> IF i = 1 THEN <<text>>[i] ELSE <<"&">> \o <<text>>[i]]
      BY <1>2
    <2> HIDE DEF s, raw
    <2>4. FlattenSeq(s) = text
      BY ONLY <2>3, FlattenOne
    <2> QED
      BY ONLY <2>2, <2>4
  <1> QED
    BY <1>1, <1>2

\* What a body is read back as.
BodyBack(body, back) ==
  /\ body.kind \in {"none", "raw"} => back = body
  /\ body.kind \in {"urlencoded", "multipart"} =>
       IF On(body.rows) = <<>> THEN back.kind = "none"
       ELSE back.kind = body.kind
              /\ ((body.kind = "multipart" => \A i \in DOMAIN body.rows : ~StartsWithAt(body.rows[i]))
                   => back.rows = On(body.rows))

BodyFields == {"raw", "fields", "parts"}

\* The body.
LEMMA ReadBody ==
  ASSUME NEW p, IsParser(p), Get(p, "raw") = <<>>, Get(p, "fields") = <<>>, Get(p, "parts") = <<>>,
         NEW body, IsBody(body), NEW words, words = BodyWords(body), NEW q, q = ParseWords(p, words)
  PROVE  IsList(words) /\ Kept(p, q, BodyFields) /\ BodyBack(body, ParsedBody(q))
  <1>1. /\ {"raw", "fields", "parts"} \subseteq Fields /\ "option" \notin {"raw", "fields", "parts"}
        /\ {"--data-raw", "--data-binary"} \subseteq ValueOptions
    BY FieldsAre DEF ValueOptions
  <1>2. \A r : /\ Kept(p, r, {"raw"}) => Kept(p, r, BodyFields) /\ Get(r, "fields") = <<>> /\ Get(r, "parts") = <<>>
               /\ Kept(p, r, {"fields"}) => Kept(p, r, BodyFields) /\ Get(r, "raw") = <<>> /\ Get(r, "parts") = <<>>
               /\ Kept(p, r, {"parts"}) => Kept(p, r, BodyFields) /\ Get(r, "raw") = <<>> /\ Get(r, "fields") = <<>>
    BY <1>1 DEF Kept, BodyFields
  <1>3. CASE body = [kind |-> "none"]
    <2>1. words = <<>> /\ body.kind = "none"
      BY <1>3 DEF BodyWords
    <2>2. IsList(words) /\ q = p /\ Kept(p, p, BodyFields)
      BY <2>1, ReadNothing
    <2>3. ParsedBody(q) = body
      BY <1>3, <2>2, ParsedIs
    <2> QED
      BY <2>1, <2>2, <2>3 DEF BodyBack
  <1>4. CASE body.kind = "raw" /\ body = [kind |-> "raw", text |-> body.text]
    <2> DEFINE text == body.text
    <2>1. words = Pair("--data-raw", text)
      BY <1>4 DEF BodyWords
    <2>2. body = [kind |-> "raw", text |-> text] /\ body.kind = "raw"
      BY <1>4
    <2>3. TakeValue(p, "--data-raw", text) = Set(p, "raw", Add(Get(p, "raw"), text))
      BY DEF TakeValue, Set, Get, Add
    <2> HIDE DEF text
    <2>4. Add(Get(p, "raw"), text) = <<text>>
      BY AppendIs DEF Add
    <2>5. IsList(words) /\ Kept(p, q, {"raw"}) /\ Get(q, "raw") = <<text>>
      BY <1>1, <2>1, <2>3, <2>4, ReadPair
    <2>6. ParsedBody(q) = body
      BY <1>2, <2>2, <2>5, ParsedIs
    <2> QED
      BY <1>2, <2>2, <2>5, <2>6 DEF BodyBack
  <1>5. CASE body.kind = "urlencoded" /\ IsList(body.rows) /\ \A i \in DOMAIN body.rows : IsRow(body.rows[i])
    <2> DEFINE rows == body.rows
    <2>1. words = Pairs("--data-urlencode", [i \in DOMAIN Enabled(rows) |-> HeaderOf(Enabled(rows)[i])])
      BY <1>5 DEF BodyWords
    <2>2. IsList(rows) /\ \A i \in DOMAIN rows : IsRow(rows[i])
      BY <1>5
    <2> HIDE DEF rows
    <2>3. q = Set(p, "fields", On(rows)) /\ IsList(words)
      BY <2>1, <2>2, ReadFields
    <2>4. Kept(p, q, {"fields"}) /\ Get(q, "fields") = On(rows)
      BY <1>1, <2>3, KeptBySet
    <2>5. /\ On(rows) = <<>> => ParsedBody(q) = [kind |-> "none"]
          /\ On(rows) # <<>> => ParsedBody(q) = [kind |-> "urlencoded", rows |-> On(rows)]
      BY <1>2, <2>4, ParsedIs
    <2>6. BodyBack(body, ParsedBody(q))
      BY <1>5, <2>5 DEF BodyBack, rows
    <2> QED
      BY <1>2, <2>3, <2>4, <2>6
  <1>6. CASE body.kind = "multipart" /\ IsList(body.rows) /\ \A i \in DOMAIN body.rows : IsPart(body.rows[i])
    <2> DEFINE rows == body.rows
               on == On(rows)
               back == [i \in 1..Len(on) |-> PartBack(on[i])]
    <2>1. words = Pairs("-F", [i \in DOMAIN Enabled(rows) |-> PartWord(Enabled(rows)[i])])
      BY <1>6 DEF BodyWords
    <2>2. IsList(rows) /\ \A i \in DOMAIN rows : IsPart(rows[i])
      BY <1>6
    <2> HIDE DEF rows
    <2>3. q = Set(p, "parts", back) /\ IsList(words)
      BY <2>1, <2>2, ReadParts
    <2>4. /\ IsList(on) /\ \A i \in 1..Len(on) : \E j \in DOMAIN rows : Nth(on, i) = rows[j]
      BY <2>2, OnIs
    <2> HIDE DEF on
    <2>5. /\ Len(on) \in Nat /\ on = [i \in 1..Len(on) |-> on[i]]
          /\ IsList(back) /\ Len(back) = Len(on)
      BY <2>4, ListIs
    <2>6. back = <<>> <=> on = <<>>
      BY <2>5, ShortLists
    <2>7. ASSUME \A i \in DOMAIN rows : ~StartsWithAt(rows[i]) PROVE back = on
      <3>1. ASSUME NEW i \in 1..Len(on) PROVE PartBack(on[i]) = on[i]
        <4>1. PICK j \in DOMAIN rows : on[i] = rows[j]
          BY <2>4 DEF Nth
        <4>2. ~StartsWithAt(on[i])
          BY <2>7, <4>1
        <4> QED
          BY <4>2 DEF StartsWithAt, PartBack
      <3> QED
        BY <2>5, <3>1
    <2> HIDE DEF back
    <2>8. Kept(p, q, {"parts"}) /\ Get(q, "parts") = back
      BY <1>1, <2>3, KeptBySet
    <2>9. /\ back = <<>> => ParsedBody(q) = [kind |-> "none"]
          /\ back # <<>> => ParsedBody(q) = [kind |-> "multipart", rows |-> back]
      BY <1>2, <2>8, ParsedIs
    <2>10. BodyBack(body, ParsedBody(q))
      <3>1. CASE on = <<>>
        BY <1>6, <2>6, <2>9, <3>1 DEF BodyBack, rows, on
      <3>2. CASE on # <<>>
        <4>1. ParsedBody(q).kind = "multipart" /\ ParsedBody(q).rows = back
          BY <2>6, <2>9, <3>2
        <4> QED
          BY <1>6, <2>7, <3>2, <4>1 DEF BodyBack, rows, on
      <3> QED
        BY <3>1, <3>2
    <2> QED
      BY <1>2, <2>3, <2>8, <2>10
  <1>7. CASE body.kind = "binary"
    <2> DEFINE value == [at |-> TRUE, text |-> body.file]
               v == Append(Get(p, "raw"), value)
    <2>1. words = Pair("--data-binary", value)
      BY <1>7 DEF BodyWords
    <2>2. TakeValue(p, "--data-binary", value) = Set(p, "raw", v)
      BY DEF TakeValue, Set, Get
    <2> HIDE DEF value, v
    <2>3. IsList(words) /\ Kept(p, q, {"raw"})
      BY <1>1, <2>1, <2>2, ReadPair
    <2> QED
      BY <1>2, <1>7, <2>3 DEF BodyBack
  <1> QED
    BY <1>3, <1>4, <1>5, <1>6, <1>7 DEF IsBody

\* The method and the URL.
LEMMA ReadTarget ==
  ASSUME NEW p, IsParser(p), Get(p, "url") = Unset, NEW method, NEW url, url \notin ValueOptions \union Flags,
         NEW words, words = Cat(Pair("-X", method), <<url>>), NEW q, q = ParseWords(p, words)
  PROVE  IsList(words) /\ Kept(p, q, {"method", "url"}) /\ Get(q, "method") = method /\ Get(q, "url") = url
  <1>1. /\ {"method", "url"} \subseteq Fields /\ "method" # "option" /\ "url" # "option"
        /\ "-X" \in ValueOptions
    BY FieldsAre DEF ValueOptions
  <1> DEFINE r == ParseWords(p, Pair("-X", method))
  <1>2. TakeValue(p, "-X", method) = Set(p, "method", method)
    BY DEF TakeValue, Set
  <1>3. IsList(Pair("-X", method)) /\ Kept(p, r, {"method"}) /\ Get(r, "method") = method
    BY <1>1, <1>2, ReadPair
  <1> HIDE DEF r
  <1>4. IsParser(r) /\ Get(r, "url") = Unset
    BY <1>1, <1>3 DEF Kept
  <1>5. ParseWord(r, url) = Set(r, "url", url)
    <2>1. ParseWord(r, url) = SetUrl(r, url)
      BY <1>4 DEF ParseWord, IsParser
    <2>2. SetUrl(r, url) = Set(r, "url", url)
      BY <1>4 DEF SetUrl, Set, Get
    <2> QED
      BY <2>1, <2>2
  <1>6. ParseWords(r, <<url>>) = Set(r, "url", url) /\ IsList(<<url>>)
    BY <1>5, ParseOne, ShortLists
  <1>7. q = ParseWords(r, <<url>>) /\ IsList(words)
    <2>1. IsList(Pair("-X", method)) /\ IsList(<<url>>)
      BY <1>3, <1>6
    <2> QED
      BY <2>1, ParseCat, CatOfLists DEF r
  <1>8. Kept(r, q, {"url"}) /\ Get(q, "url") = url
    BY <1>1, <1>4, <1>6, <1>7, KeptBySet
  <1> QED
    BY <1>1, <1>3, <1>7, <1>8 DEF Kept

\* One sequence of words more.
LEMMA ReadNext ==
  ASSUME NEW p, NEW s, NEW q, NEW X, IsList(s), q = ParseWords(p, s), Kept(p, q, X),
         NEW t, NEW r, NEW Y, IsList(t), r = ParseWords(q, t), Kept(q, r, Y)
  PROVE  IsList(Cat(s, t)) /\ r = ParseWords(p, Cat(s, t)) /\ Kept(p, r, X \union Y)
  <1>1. IsList(Cat(s, t)) /\ ParseWords(p, Cat(s, t)) = ParseWords(ParseWords(p, s), t)
    BY CatOfLists, ParseCat
  <1>2. Kept(p, r, X \union Y)
    BY KeptBoth
  <1> QED
    BY <1>1, <1>2

\* The words after the name of the program.
LEMMA TailOf ==
  ASSUME NEW a, NEW s, IsList(s)
  PROVE  Tail(Cat(<<a>>, s)) = s
  <1> DEFINE b == <<a>>
             c == Cat(b, s)
  <1>1. IsList(b) /\ Len(b) = 1 /\ IsList(s)
    BY ShortLists
  <1> HIDE DEF b
  <1>2. /\ IsList(c) /\ Len(c) = Len(b) + Len(s) /\ Len(s) \in Nat
        /\ \A i \in 1..Len(s) : c[Len(b) + i] = s[i]
    <2>1. IsList(b) /\ IsList(s)
      BY <1>1
    <2> QED
      BY ONLY <2>1, CatOfLists
  <1> HIDE DEF c
  <1>3. Len(c) = 1 + Len(s) /\ \A i \in 1..Len(s) : c[i + 1] = s[i]
    <2>1. \A i \in 1..Len(s) : Len(b) + i = i + 1
      BY ONLY <1>1, <1>2
    <2> QED
      BY ONLY <1>1, <1>2, <2>1
  <1>4. c \in Seq(ToSet(c)) /\ c # <<>>
    BY <1>2, <1>3 DEF IsList
  <1>5. /\ Tail(c) \in Seq(ToSet(c)) /\ Len(Tail(c)) = Len(c) - 1
        /\ \A i \in 1..Len(Tail(c)) : Tail(c)[i] = c[i + 1]
    BY ONLY <1>4, HeadTailProperties
  <1>6. s = [i \in 1..Len(s) |-> s[i]]
    BY ListIs
  <1>7. Tail(c) = s
    <2>1. Len(Tail(c)) = Len(s)
      BY ONLY <1>2, <1>3, <1>5
    <2>2. Tail(c) = [i \in 1..Len(s) |-> Tail(c)[i]]
      BY ONLY <1>5, <2>1, SeqIsList, ListIs
    <2>3. \A i \in 1..Len(s) : Tail(c)[i] = s[i]
      BY ONLY <1>3, <1>5, <2>1
    <2> QED
      BY ONLY <1>6, <2>2, <2>3
  <1> QED
    BY <1>7 DEF c, b

\* The request that a command is read as.
LEMMA ConvertIs ==
  ASSUME NEW words, NEW end, end = ParseWords(ParserStart, Tail(words)), Get(end, "method") # Unset,
         NEW back, back = ConvertCurl(words)
  PROVE  /\ back.method = Get(end, "method") /\ back.url = Get(end, "url")
         /\ back.headers = Get(end, "headers") /\ back.auth = Get(end, "auth") /\ back.body = ParsedBody(end)
         /\ back.redirect = Get(end, "redirect") /\ back.maxRedirects = Get(end, "maxRedirects")
         /\ back.verify = Get(end, "verify") /\ back.proxy = Get(end, "proxy") /\ back.noProxy = Get(end, "noProxy")
         /\ back.connectMs = Get(end, "connectMs") /\ back.overallMs = Get(end, "overallMs")
         /\ back.unsupported = Get(end, "unsupported")
  BY DEF ConvertCurl, Get

\* What a request is read back as.
LEMMA ReadRequest ==
  ASSUME NEW content, IsRequest(content), NEW q, q = ParseWords(ParserStart, Arguments(content))
  PROVE  /\ IsList(Arguments(content)) /\ Get(q, "unsupported") = 0
         /\ Get(q, "method") = content.method /\ Get(q, "url") = content.url
         /\ Get(q, "headers") = IF content.auth.kind = "apiKey"
                                THEN Add(On(content.headers),
                                         [name |-> content.auth.user, value |-> content.auth.value, enabled |-> TRUE])
                                ELSE On(content.headers)
         /\ content.auth.kind \in {"none", "basic", "bearer"} => Get(q, "auth") = content.auth
         /\ RedirectBack(content, Get(q, "redirect"), Get(q, "maxRedirects"))
         /\ Get(q, "verify") = content.verify /\ Get(q, "proxy") = content.proxy
         /\ Get(q, "noProxy") = content.noProxy
         /\ Get(q, "connectMs") = content.connectMs /\ Get(q, "overallMs") = content.overallMs
         /\ BodyBack(content.body, ParsedBody(q))
  <1> DEFINE s1 == Cat(Pair("-X", content.method), <<content.url>>)
             t2 == HeaderWords(content.headers)
             t3 == AuthWords(content.auth)
             t4 == RedirectWords(content)
             t5 == TransportWords(content)
             t6 == BodyWords(content.body)
             p == ParserStart
             X1 == {"method", "url"}
             X2 == {"headers"}
             X3 == {"auth", "headers"}
             X4 == {"redirect", "maxRedirects"}
             X5 == TransportFields
             X6 == BodyFields
  <1>1. Arguments(content) = Cat(Cat(Cat(Cat(Cat(s1, t2), t3), t4), t5), t6)
    BY DEF Arguments, Cat
  <1>2. /\ content.url \notin ValueOptions \union Flags
        /\ IsList(content.headers)
        /\ \A i \in DOMAIN content.headers : IsRow(content.headers[i]) /\ ~IsBearer(HeaderOf(content.headers[i]))
        /\ IsAuth(content.auth) /\ IsBody(content.body)
        /\ content.redirect \in BOOLEAN /\ content.verify \in BOOLEAN /\ content.maxRedirects \in 0..255
        /\ content.connectMs \in Nat /\ content.overallMs \in Nat
    BY DEF IsRequest
  <1>3. PICK p1 : p1 = ParseWords(p, s1)
    OBVIOUS
  <1>4. PICK p2 : p2 = ParseWords(p1, t2)
    OBVIOUS
  <1>5. PICK p3 : p3 = ParseWords(p2, t3)
    OBVIOUS
  <1>6. PICK p4 : p4 = ParseWords(p3, t4)
    OBVIOUS
  <1>7. PICK p5 : p5 = ParseWords(p4, t5)
    OBVIOUS
  <1>8. PICK p6 : p6 = ParseWords(p5, t6)
    OBVIOUS
  <1>9. /\ IsParser(p) /\ Get(p, "url") = Unset /\ Get(p, "headers") = <<>> /\ Get(p, "unsupported") = 0
        /\ Get(p, "raw") = <<>> /\ Get(p, "fields") = <<>> /\ Get(p, "parts") = <<>>
        /\ Starts(Get(p, "redirect"), Get(p, "maxRedirects")) /\ Get(p, "auth") = [kind |-> "none"]
    BY StartIs, SMT DEF Starts
  <1>10. "headers" # "option" /\ {"headers", "auth", "redirect", "maxRedirects"} \subseteq Fields
    BY FieldsAre
  <1> HIDE DEF p
  \* The method and the URL.
  <1>11. IsList(s1) /\ Kept(p, p1, X1) /\ Get(p1, "method") = content.method /\ Get(p1, "url") = content.url
    BY <1>2, <1>3, <1>9, ReadTarget
  \* The headers.
  <1>12. IsParser(p1) /\ Get(p1, "headers") = <<>>
    BY <1>9, <1>10, <1>11 DEF Kept
  <1>13. IsList(t2) /\ p2 = Set(p1, "headers", On(content.headers))
    BY <1>2, <1>4, <1>12, ReadHeaders
  <1>14. Kept(p1, p2, X2) /\ Get(p2, "headers") = On(content.headers)
    BY <1>10, <1>12, <1>13, KeptBySet
  \* The authorization.
  <1>15. IsParser(p2) /\ Get(p2, "auth") = [kind |-> "none"]
    BY <1>9, <1>10, <1>11, <1>14 DEF Kept
  <1>16. /\ IsList(t3) /\ Kept(p2, p3, X3)
         /\ Get(p3, "headers") = IF content.auth.kind = "apiKey"
                                 THEN Add(Get(p2, "headers"),
                                          [name |-> content.auth.user, value |-> content.auth.value, enabled |-> TRUE])
                                 ELSE Get(p2, "headers")
         /\ content.auth.kind \in {"none", "basic", "bearer"} => Get(p3, "auth") = content.auth
    <2> DEFINE auth == content.auth
    <2>1. IsAuth(auth) /\ p3 = ParseWords(p2, AuthWords(auth)) /\ t3 = AuthWords(auth) /\ X3 = {"auth", "headers"}
      BY <1>2, <1>5
    <2> HIDE DEF auth, t3, X3
    <2>2. /\ IsList(t3) /\ Kept(p2, p3, X3)
          /\ Get(p3, "headers") = IF auth.kind = "apiKey"
                                  THEN Add(Get(p2, "headers"),
                                           [name |-> auth.user, value |-> auth.value, enabled |-> TRUE])
                                  ELSE Get(p2, "headers")
          /\ auth.kind \in {"none", "basic", "bearer"} => Get(p3, "auth") = auth
      BY ONLY <1>15, <2>1, ReadAuth
    <2> QED
      BY <1>14, <2>2 DEF auth
  \* What each part is read with, and the commands up to it.
  <1>21. IsList(Cat(s1, t2)) /\ p2 = ParseWords(p, Cat(s1, t2)) /\ Kept(p, p2, X1 \union X2)
    BY <1>3, <1>4, <1>11, <1>13, <1>14, ReadNext
  <1> DEFINE s2 == Cat(s1, t2)
             Y2 == X1 \union X2
  <1> HIDE DEF s1, t2, X1, X2, s2, Y2
  <1>22. IsList(Cat(s2, t3)) /\ p3 = ParseWords(p, Cat(s2, t3)) /\ Kept(p, p3, Y2 \union X3)
    <2>1. IsList(s2) /\ p2 = ParseWords(p, s2) /\ Kept(p, p2, Y2)
      BY <1>21 DEF s2, Y2
    <2> QED
      BY <1>5, <1>16, <2>1, ReadNext
  <1> DEFINE s3 == Cat(s2, t3)
             Y3 == Y2 \union X3
  <1> HIDE DEF t3, X3, s3, Y3
  \* The redirections.
  <1>23. IsParser(p3) /\ Starts(Get(p3, "redirect"), Get(p3, "maxRedirects"))
    <2>1. Kept(p, p3, Y3) /\ "redirect" \notin Y3 /\ "maxRedirects" \notin Y3
      BY <1>22 DEF Y3, Y2, X1, X2, X3
    <2>2. IsParser(p3) /\ Get(p3, "redirect") = Get(p, "redirect") /\ Get(p3, "maxRedirects") = Get(p, "maxRedirects")
      BY <1>10, <2>1 DEF Kept
    <2> QED
      BY <1>9, <2>2
  <1>24. /\ IsList(t4) /\ Kept(p3, p4, X4)
         /\ RedirectBack(content, Get(p4, "redirect"), Get(p4, "maxRedirects"))
    <2>1. /\ p4 = ParseWords(p3, RedirectWords(content))
          /\ content.redirect \in BOOLEAN /\ content.maxRedirects \in 0..255
      BY <1>2, <1>6
    <2>2. /\ IsList(RedirectWords(content)) /\ Kept(p3, p4, {"redirect", "maxRedirects"})
          /\ RedirectBack(content, Get(p4, "redirect"), Get(p4, "maxRedirects"))
      BY ONLY <1>23, <2>1, ReadRedirect
    <2> QED
      BY <2>2
  <1>25. IsList(Cat(s3, t4)) /\ p4 = ParseWords(p, Cat(s3, t4)) /\ Kept(p, p4, Y3 \union X4)
    <2>1. IsList(s3) /\ p3 = ParseWords(p, s3) /\ Kept(p, p3, Y3)
      BY <1>22 DEF s3, Y3
    <2> QED
      BY <1>6, <1>24, <2>1, ReadNext
  <1> DEFINE s4 == Cat(s3, t4)
             Y4 == Y3 \union X4
  <1> HIDE DEF t4, X4, s4, Y4
  \* Certificates, proxies and time limits.
  <1>26. IsParser(p4) /\ \A x \in TransportFields : Get(p4, x) = Get(ParserStart, x)
    <2>1. Kept(p, p4, Y4) /\ TransportFields \intersect Y4 = {} /\ TransportFields \subseteq Fields
      BY <1>25, FieldsAre DEF Y4, Y3, Y2, X1, X2, X3, X4, TransportFields
    <2> QED
      BY <2>1 DEF Kept, p
  <1>27. /\ IsList(t5) /\ Kept(p4, p5, TransportFields)
         /\ Get(p5, "verify") = content.verify /\ Get(p5, "proxy") = content.proxy
         /\ Get(p5, "noProxy") = content.noProxy
         /\ Get(p5, "connectMs") = content.connectMs /\ Get(p5, "overallMs") = content.overallMs
    BY <1>2, <1>7, <1>26, ReadTransport
  <1>28. IsList(Cat(s4, t5)) /\ p5 = ParseWords(p, Cat(s4, t5)) /\ Kept(p, p5, Y4 \union X5)
    <2>1. IsList(s4) /\ p4 = ParseWords(p, s4) /\ Kept(p, p4, Y4)
      BY <1>25 DEF s4, Y4
    <2> QED
      BY <1>7, <1>27, <2>1, ReadNext
  <1> DEFINE s5 == Cat(s4, t5)
             Y5 == Y4 \union X5
  <1> HIDE DEF t5, s5, Y5
  \* The body.
  <1>29. IsParser(p5) /\ Get(p5, "raw") = <<>> /\ Get(p5, "fields") = <<>> /\ Get(p5, "parts") = <<>>
    <2>1. Kept(p, p5, Y5) /\ BodyFields \intersect Y5 = {} /\ BodyFields \subseteq Fields
      BY <1>28, FieldsAre DEF Y5, Y4, Y3, Y2, X1, X2, X3, X4, X5, TransportFields, BodyFields
    <2> QED
      BY <1>9, <2>1 DEF Kept, BodyFields
  <1>30. IsList(t6) /\ Kept(p5, p6, BodyFields) /\ BodyBack(content.body, ParsedBody(p6))
    BY <1>2, <1>8, <1>29, ReadBody
  <1>31. IsList(Cat(s5, t6)) /\ p6 = ParseWords(p, Cat(s5, t6)) /\ Kept(p, p6, Y5 \union X6)
    <2>1. IsList(s5) /\ p5 = ParseWords(p, s5) /\ Kept(p, p5, Y5)
      BY <1>28 DEF s5, Y5
    <2> QED
      BY <1>8, <1>30, <2>1, ReadNext
  <1>32. q = p6 /\ IsList(Arguments(content))
    BY <1>1, <1>31 DEF s5, s4, s3, s2, p
  \* What the later parts leave alone.
  <1>33. "unsupported" \notin Y5 \union X6 /\ "unsupported" \in Fields
    BY FieldsAre DEF Y5, Y4, Y3, Y2, X1, X2, X3, X4, X5, TransportFields, BodyFields
  <1>34. Get(p6, "unsupported") = 0
    BY <1>9, <1>31, <1>33 DEF Kept
  <1>35. \A x \in TransportFields : Get(p6, x) = Get(p5, x)
    <2>1. TransportFields \intersect BodyFields = {} /\ TransportFields \subseteq Fields
      BY FieldsAre DEF TransportFields, BodyFields
    <2> QED
      BY <1>30, <2>1 DEF Kept
  <1>36. \A x \in {"redirect", "maxRedirects"} : Get(p6, x) = Get(p4, x)
    <2>1. /\ {"redirect", "maxRedirects"} \intersect (TransportFields \union BodyFields) = {}
      BY DEF TransportFields, BodyFields
    <2> QED
      BY <1>10, <1>27, <1>30, <2>1 DEF Kept
  <1>37. \A x \in {"headers", "auth"} : Get(p6, x) = Get(p3, x)
    <2>1. {"headers", "auth"} \intersect (X4 \union TransportFields \union BodyFields) = {}
      BY DEF TransportFields, BodyFields, X4
    <2> QED
      BY <1>10, <1>24, <1>27, <1>30, <2>1 DEF Kept
  <1>38. \A x \in {"method", "url"} : Get(p6, x) = Get(p1, x)
    <2>1. /\ {"method", "url"} \intersect (X2 \union X3 \union X4 \union TransportFields \union BodyFields) = {}
          /\ {"method", "url"} \subseteq Fields
      BY FieldsAre DEF TransportFields, BodyFields, X2, X3, X4
    <2> QED
      BY <1>14, <1>16, <1>24, <1>27, <1>30, <2>1 DEF Kept
  <1>39. /\ Get(q, "method") = content.method /\ Get(q, "url") = content.url
    BY <1>11, <1>32, <1>38
  <1>40. /\ Get(q, "verify") = content.verify /\ Get(q, "proxy") = content.proxy
         /\ Get(q, "noProxy") = content.noProxy
         /\ Get(q, "connectMs") = content.connectMs /\ Get(q, "overallMs") = content.overallMs
    BY <1>27, <1>32, <1>35 DEF TransportFields
  <1>41. RedirectBack(content, Get(q, "redirect"), Get(q, "maxRedirects"))
    BY <1>24, <1>32, <1>36
  <1>42. /\ Get(q, "headers") = Get(p3, "headers") /\ Get(q, "auth") = Get(p3, "auth")
    BY <1>32, <1>37
  <1>43. /\ Get(q, "headers") = IF content.auth.kind = "apiKey"
                                THEN Add(On(content.headers),
                                         [name |-> content.auth.user, value |-> content.auth.value, enabled |-> TRUE])
                                ELSE On(content.headers)
         /\ content.auth.kind \in {"none", "basic", "bearer"} => Get(q, "auth") = content.auth
    BY ONLY <1>14, <1>16, <1>42
  <1> QED
    BY ONLY <1>30, <1>32, <1>34, <1>39, <1>40, <1>41, <1>43

\* A request comes back from its command.
LEMMA RequestIsReadBack ==
  ASSUME shared \in Commands
  PROVE  CommandsComeBack
  <1>1. PICK content : content = shared /\ IsRequest(content)
    BY CommandsAssumption
  <1> DEFINE back == ConvertCurl(GenerateCurl(content))
             auth == content.auth
             row == [name |-> auth.user, value |-> auth.value, enabled |-> TRUE]
  <1>2. PICK q : q = ParseWords(ParserStart, Arguments(content))
    OBVIOUS
  <1>3. /\ IsList(Arguments(content)) /\ Get(q, "unsupported") = 0
        /\ Get(q, "method") = content.method /\ Get(q, "url") = content.url
        /\ Get(q, "headers") = IF auth.kind = "apiKey" THEN Add(On(content.headers), row) ELSE On(content.headers)
        /\ auth.kind \in {"none", "basic", "bearer"} => Get(q, "auth") = auth
        /\ RedirectBack(content, Get(q, "redirect"), Get(q, "maxRedirects"))
        /\ Get(q, "verify") = content.verify /\ Get(q, "proxy") = content.proxy
        /\ Get(q, "noProxy") = content.noProxy
        /\ Get(q, "connectMs") = content.connectMs /\ Get(q, "overallMs") = content.overallMs
        /\ BodyBack(content.body, ParsedBody(q))
    BY <1>1, <1>2, ReadRequest
  <1>4. Tail(GenerateCurl(content)) = Arguments(content)
    <2>1. GenerateCurl(content) = Cat(<<"curl">>, Arguments(content))
      BY DEF GenerateCurl, Cat
    <2> QED
      BY <1>3, <2>1, TailOf
  <1>5. /\ content.method # Unset /\ IsList(content.headers)
        /\ content.redirect \in BOOLEAN /\ content.maxRedirects \in 0..255
    BY <1>1 DEF IsRequest
  <1> HIDE DEF back
  <1>6. /\ back.method = Get(q, "method") /\ back.url = Get(q, "url")
        /\ back.headers = Get(q, "headers") /\ back.auth = Get(q, "auth") /\ back.body = ParsedBody(q)
        /\ back.redirect = Get(q, "redirect") /\ back.maxRedirects = Get(q, "maxRedirects")
        /\ back.verify = Get(q, "verify") /\ back.proxy = Get(q, "proxy") /\ back.noProxy = Get(q, "noProxy")
        /\ back.connectMs = Get(q, "connectMs") /\ back.overallMs = Get(q, "overallMs")
        /\ back.unsupported = Get(q, "unsupported")
    <2> DEFINE words == GenerateCurl(content)
    <2>1. /\ q = ParseWords(ParserStart, Tail(words)) /\ Get(q, "method") # Unset
          /\ back = ConvertCurl(words)
      BY <1>2, <1>3, <1>4, <1>5 DEF back
    <2> HIDE DEF words
    <2> QED
      BY ONLY <2>1, ConvertIs
  <1>7. back.headers = On(content.headers) \o (IF auth.kind = "apiKey" THEN <<row>> ELSE <<>>)
    <2> DEFINE on == On(content.headers)
    <2>1. IsList(on)
      BY <1>5, OnIs
    <2> HIDE DEF on, row
    <2>2. Cat(on, <<>>) = on /\ Cat(on, <<row>>) = Add(on, row)
      <3>1. Cat(on, <<row>>) = Add(on, row)
        <4> DEFINE S == ToSet(on) \union {row}
        <4>1. \A A, B : Seq(A) \subseteq Seq(A \union B)
          OBVIOUS
        <4>2. on \in Seq(S) /\ row \in S
          BY <2>1, <4>1 DEF IsList
        <4> HIDE DEF S
        <4> QED
          BY <4>2, AppendIsConcat DEF Cat, Add
      <3> QED
        BY <2>1, <3>1, CatWithNothing
    <2>3. CASE auth.kind = "apiKey"
      BY <1>3, <1>6, <2>2, <2>3 DEF Cat, on, row
    <2>4. CASE auth.kind # "apiKey"
      BY <1>3, <1>6, <2>2, <2>4 DEF Cat, on
    <2> QED
      BY <2>3, <2>4
  <1>8. Follows(back) = Follows(content)
    <2> DEFINE redirect == content.redirect
               n == content.maxRedirects
               k == back.maxRedirects
    <2>1. back.redirect = TRUE /\ k = IF redirect THEN n ELSE 0
      BY <1>3, <1>6 DEF RedirectBack
    <2>2. Follows(back) = IF k < 10 THEN k ELSE 10
      BY <2>1 DEF Follows
    <2>3. Follows(content) = IF ~redirect THEN 0 ELSE IF n < 10 THEN n ELSE 10
      BY DEF Follows
    <2>4. redirect \in BOOLEAN
      BY <1>5
    <2> HIDE DEF redirect, n, k
    <2>5. CASE redirect
      BY <2>1, <2>2, <2>3, <2>5
    <2>6. CASE ~redirect
      BY <2>1, <2>2, <2>3, <2>6
    <2> QED
      BY <2>5, <2>6
  <1>9. /\ back.unsupported = 0
        /\ back.method = content.method /\ back.url = content.url
        /\ auth.kind \in {"none", "basic", "bearer"} => back.auth = auth
        /\ back.proxy = content.proxy /\ back.noProxy = content.noProxy
        /\ back.connectMs = content.connectMs /\ back.overallMs = content.overallMs
    BY <1>3, <1>6
  <1>10. back.verify = content.verify
    BY <1>3, <1>6
  <1>11. BodyBack(content.body, back.body)
    BY <1>3, <1>6
  <1>12. /\ content.body.kind \in {"none", "raw"} => back.body = content.body
         /\ content.body.kind \in {"urlencoded", "multipart"} =>
              IF On(content.body.rows) = <<>> THEN back.body.kind = "none"
              ELSE back.body.kind = content.body.kind
                     /\ ((content.body.kind = "multipart" =>
                            \A i \in DOMAIN content.body.rows : ~StartsWithAt(content.body.rows[i]))
                          => back.body.rows = On(content.body.rows))
    BY <1>11 DEF BodyBack
  <1> QED
    BY <1>1, <1>7, <1>8, <1>9, <1>10, <1>12 DEF CommandsComeBack, back

\* The word is one of the characters, and the request one of those that are tried.
CurlTyped == word \in Seq(Characters) /\ shared \in Commands \union {NoCommand}

\* Whatever characters a word has, however long it is, and whatever a request has
\* of headers, authorization, redirections, limits and body, both are read back
\* from the command line that is written of them as CurlCorrect says.
THEOREM CommandsKeepTheirPromise ==
  CurlSpec => []CurlCorrect
  <1>1. CurlInit => CurlTyped
    BY DEF CurlInit, CurlTyped
  <1>2. CurlTyped /\ [CurlNext]_curlVars => CurlTyped'
    <2> SUFFICES ASSUME CurlTyped, [CurlNext]_curlVars
                 PROVE  CurlTyped'
      OBVIOUS
    <2>1. ASSUME NEW c \in Characters, Write(c)
          PROVE  CurlTyped'
      BY <2>1 DEF Write, CurlTyped
    <2>2. ASSUME NEW content \in Commands, Share(content)
          PROVE  CurlTyped'
      BY <2>2 DEF Share, CurlTyped
    <2>3. CASE UNCHANGED curlVars
      BY <2>3 DEF curlVars, CurlTyped
    <2> QED
      BY <2>1, <2>2, <2>3 DEF CurlNext
  <1>3. CurlTyped => CurlCorrect
    <2> SUFFICES ASSUME CurlTyped
                 PROVE  CurlCorrect
      OBVIOUS
    <2>1. WordsComeBack
      BY WordIsReadBack DEF CurlTyped
    <2>2. CASE shared = NoCommand
      BY <2>1, <2>2 DEF CurlCorrect, CommandsComeBack
    <2>3. CASE shared \in Commands
      BY <2>1, <2>3, RequestIsReadBack DEF CurlCorrect
    <2> QED
      BY <2>2, <2>3 DEF CurlTyped
  <1> QED
    BY <1>1, <1>2, <1>3, PTL DEF CurlSpec

=============================================================================
