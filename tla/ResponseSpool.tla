--------------------------- MODULE ResponseSpool ---------------------------
(***************************************************************************)
(* What an HTTP execution does once it is scheduled (execute_http of       *)
(* src-tauri/src/infrastructure/http/execution): it follows redirects, and *)
(* collects the response in a preview and, when that is too small, in a    *)
(* file; an encoded response goes to a file first and is decoded from      *)
(* there.  And what becomes of these files: they are copied by             *)
(* save_response_file, and removed when the window closes or, if they have *)
(* expired, when the program starts.                                       *)
(*                                                                         *)
(* Sizes are in units of which a chunk has one or more.  The events of an  *)
(* execution are the subject of ExecutionCoordinator and ExecutionView.    *)
(***************************************************************************)
EXTENDS Integers, FiniteSets

CONSTANTS
  Exchanges,     \* executions
  Preview,       \* MAX_RESPONSE_PREVIEW_BYTES
  Limit,         \* MAX_NORMAL_RESPONSE_DECODED_BYTES
  Chunks,        \* sizes of chunks
  MaxRedirects,  \* max_redirects of the requests, at most 10
  FileLife,      \* RESPONSE_TEMP_RETENTION_SECONDS
  MaxNow         \* bound: the clock

ASSUME SizesAssumption == Chunks \subseteq Nat \ {0} /\ {Preview, Limit} \subseteq Nat
ASSUME FileLifeAssumption == FileLife \in Nat \ {0} /\ {MaxRedirects, MaxNow} \subseteq Nat

VARIABLES
  exchange,  \* what execute_http holds, of each execution
  files,     \* the files in response_temp_dir
  window,    \* "open", "closing" after CloseRequested, "gone" when no program runs
  running,   \* history: executions that ran when the window was closed, or whose file could not be removed
  now

spoolVars == <<exchange, files, window, running, now>>

Phases == {"idle", "sending", "receiving", "decoding", "completed", "failed", "cancelled", "killed"}
Active == {"sending", "receiving", "decoding"}
Methods == {"GET", "POST", "PUT", "HEAD"}
SpoolFile == [of : Exchanges, kind : {"encoded", "decoded"}, bytes : Nat, modified : Nat]

Exchange == [phase : Phases,
             first : Methods, method : Methods, body : BOOLEAN, \* method it began with; include_body
             redirects : Nat,
             encoded : BOOLEAN, created : Nat,
             preview : Nat, decoded : Nat,                    \* ResponseBodyCollector
             stopped : BOOLEAN, offers : BOOLEAN]             \* its token; response_file of its result

NotBegun == [phase |-> "idle", first |-> "POST", method |-> "POST", body |-> TRUE, redirects |-> 0,
           encoded |-> FALSE, created |-> 0, preview |-> 0, decoded |-> 0,
           stopped |-> FALSE, offers |-> FALSE]

SpoolInit ==
  /\ exchange = [e \in Exchanges |-> NotBegun]
  /\ files = {} /\ window = "open" /\ running = {} /\ now = 0

Of(e, kind) == {f \in files : f.of = e /\ f.kind = kind}
File(e, kind, bytes) == [of |-> e, kind |-> kind, bytes |-> bytes, modified |-> now]

\* The end of execute_http: the files that it has not persisted are dropped.
EndsWith(e, phase) ==
  /\ exchange' = [exchange EXCEPT ![e].phase = phase]
  /\ files' = {f \in files : f.of # e}

-----------------------------------------------------------------------------
BeginExchange(e, method) ==
  /\ exchange[e].phase = "idle" /\ window = "open"
  /\ exchange' = [exchange EXCEPT ![e].phase = "sending", ![e].first = method, ![e].method = method]
  /\ UNCHANGED <<files, window, running, now>>

\* redirect_method, where 301 is like 302, and 308 like 307.
RedirectMethod(method, status) ==
  IF (status = 302 /\ method = "POST") \/ (status = 303 /\ method # "HEAD") THEN "GET" ELSE method

\* A response that redirects, while the policy allows one more.
Redirect(e, status) ==
  /\ exchange[e].phase = "sending" /\ exchange[e].redirects < MaxRedirects
  /\ LET method == RedirectMethod(exchange[e].method, status)
     IN  exchange' = [exchange EXCEPT ![e].method = method, ![e].redirects = @ + 1,
                                      ![e].body = @ /\ method = exchange[e].method]
  /\ UNCHANGED <<files, window, running, now>>

\* The response to report: it does not redirect, says not where to, or comes
\* when no more redirects are allowed.  The variables of the loop are out of use.
ResponseHeaders(e, encoded) ==
  /\ exchange[e].phase = "sending"
  /\ exchange' = [exchange EXCEPT ![e] =
       [NotBegun EXCEPT !.phase = "receiving", !.encoded = encoded, !.created = now, !.stopped = exchange[e].stopped]]
  /\ files' = files \union (IF encoded THEN {File(e, "encoded", 0)} ELSE {})
  /\ UNCHANGED <<window, running, now>>

\* Mutant: the file starts with the chunk that does not fit the preview.
SpoolBytesOfChunk(e, n) ==
  IF Of(e, "decoded") # {} THEN {File(e, "decoded", f.bytes + n) : f \in Of(e, "decoded")}
  ELSE IF exchange[e].decoded + n > Preview THEN {File(e, "decoded", n)} ELSE {}

\* The file that push leaves: it is made when the preview is too small, and
\* begins with what the preview has.
SpoolBytes(e, n) ==
  IF Of(e, "decoded") # {} THEN {File(e, "decoded", f.bytes + n) : f \in Of(e, "decoded")}
  ELSE IF exchange[e].decoded + n > Preview
       THEN {File(e, "decoded", exchange[e].preview + n)} ELSE {}

\* ResponseBodyCollector::push.  The file may have been removed; then it is
\* written all the same, under no name.
Push(e, n) ==
  LET next == exchange[e].decoded + n
      unlinked == exchange[e].decoded > Preview /\ Of(e, "decoded") = {}
  IN  IF next > Limit THEN EndsWith(e, "failed")
      ELSE /\ exchange' = [exchange EXCEPT ![e].decoded = next,
                             ![e].preview = IF next < Preview THEN next ELSE Preview]
           /\ files' = (files \ Of(e, "decoded")) \union (IF unlinked THEN {} ELSE SpoolBytes(e, n))

Receive(e, n) ==
  /\ exchange[e].phase = "receiving"
  /\ IF exchange[e].encoded
     THEN /\ files' = (files \ Of(e, "encoded"))
                        \union {File(e, "encoded", f.bytes) : f \in Of(e, "encoded")}
          /\ UNCHANGED exchange
     ELSE Push(e, n)
  /\ UNCHANGED <<window, running, now>>

\* ResponseBodyCollector::finish.
Finish(e) ==
  /\ exchange' = [exchange EXCEPT ![e].phase = "completed",
                                  ![e].offers = exchange[e].decoded > Preview]
  /\ files' = files \ Of(e, "encoded")

\* The end of the body.  decode_response_body_from_path opens the file anew,
\* and does not wait for anything until it is decoded.
EndOfBody(e) ==
  /\ exchange[e].phase = "receiving"
  /\ IF ~exchange[e].encoded THEN Finish(e)
     ELSE IF Of(e, "encoded") = {} THEN EndsWith(e, "failed")
     ELSE exchange' = [exchange EXCEPT ![e].phase = "decoding"] /\ UNCHANGED files
  /\ UNCHANGED <<window, running, now>>

Decode(e) ==
  /\ exchange[e].phase = "decoding"
  /\ (\E n \in Chunks : Push(e, n)) \/ Finish(e)
  /\ UNCHANGED <<window, running, now>>

\* The transport, the decoder or the disk fails.
Fail(e) ==
  /\ exchange[e].phase \in Active
  /\ EndsWith(e, "failed")
  /\ UNCHANGED <<window, running, now>>

StopExchange(e) ==
  /\ exchange[e].phase \in Active /\ ~exchange[e].stopped
  /\ exchange' = [exchange EXCEPT ![e].stopped = TRUE]
  /\ UNCHANGED <<files, window, running, now>>

\* Sending and receiving look at the token.
NoticeStop(e) ==
  /\ exchange[e].stopped /\ exchange[e].phase \in {"sending", "receiving"}
  /\ EndsWith(e, "cancelled")
  /\ UNCHANGED <<window, running, now>>

Expired == {f \in files : now - f.modified >= FileLife}

\* cleanup_response_temp_files: it stops at a file that it cannot remove, and
\* some are kept.
Clean(removable, kept) == kept \subseteq removable /\ files' = (files \ removable) \union kept

StillRuns(kept) == {e \in Exchanges : exchange[e].phase \in Active \/ \E f \in kept : f.of = e}
StopAll == exchange' = [e \in Exchanges |->
             [exchange[e] EXCEPT !.stopped = @ \/ exchange[e].phase \in Active]]

\* CloseRequested: cancel_all, and cleanup_all_response_temp_files.
CloseWindow ==
  /\ window = "open" /\ window' = "closing"
  /\ StopAll
  /\ \E kept \in SUBSET files : Clean(files, kept) /\ running' = StillRuns(kept)
  /\ UNCHANGED now

\* The process ends, at any point: its tasks drop nothing.
EndProcess ==
  /\ window # "gone" /\ window' = "gone"
  /\ exchange' = [e \in Exchanges |->
       IF exchange[e].phase = "idle" THEN exchange[e] ELSE [NotBegun EXCEPT !.phase = "killed"]]
  /\ UNCHANGED <<files, running, now>>

\* The start of the program: cleanup_expired_response_temp_files.
OpenWindow ==
  /\ window = "gone" /\ window' = "open"
  /\ (\E kept \in SUBSET Expired : Clean(Expired, kept)) /\ running' = {}
  /\ UNCHANGED <<exchange, now>>

SpoolTick ==
  /\ now < MaxNow /\ now' = now + 1
  /\ UNCHANGED <<exchange, files, window, running>>

\* save_response_file, of the file an execution offers.
CanSave(e) == \E f \in Of(e, "decoded") : now - f.modified < FileLife

SpoolNext ==
  \/ \E e \in Exchanges :
       \/ \E method \in Methods : BeginExchange(e, method)
       \/ \E status \in {302, 303, 307} : Redirect(e, status)
       \/ \E encoded \in BOOLEAN : ResponseHeaders(e, encoded)
       \/ \E n \in Chunks : Receive(e, n)
       \/ EndOfBody(e) \/ Decode(e) \/ Fail(e) \/ StopExchange(e) \/ NoticeStop(e)
  \/ CloseWindow \/ EndProcess \/ OpenWindow \/ SpoolTick

SpoolSpec == SpoolInit /\ [][SpoolNext]_spoolVars

-----------------------------------------------------------------------------
(* Properties *)

\* Every variable has its type, and an execution has one file of each kind.
SpoolTypeOK ==
  /\ exchange \in [Exchanges -> Exchange]
  /\ files \subseteq SpoolFile
  /\ \A f, g \in files : f.of = g.of /\ f.kind = g.kind => f = g
  /\ window \in {"open", "closing", "gone"} /\ running \subseteq Exchanges /\ now \in Nat

\* Preview and file agree: the file has all that was decoded and is there when,
\* and only when, that is more than the preview takes.
PreviewAndFileAgree ==
  \A e \in Exchanges :
    LET x == exchange[e] IN
      /\ x.decoded <= Limit
      /\ x.preview = IF x.decoded < Preview THEN x.decoded ELSE Preview
      /\ \A f \in Of(e, "decoded") : x.phase # "killed" => f.bytes = x.decoded /\ x.decoded > Preview

\* What a result offers can be saved until the time it says, while the window is
\* open; expiry is counted from the start of the download, the age of the file
\* from its last byte.
OfferedFilesCanBeSaved ==
  \A e \in Exchanges :
    exchange[e].offers /\ window = "open" /\ now < exchange[e].created + FileLife => CanSave(e)

\* An execution that fails or is cancelled leaves no file, one that completes
\* at most the one it offers, and while the window is open no other file is
\* there than those of executions and of programs that were ended.
OnlyResultsStay ==
  \A f \in files :
    LET x == exchange[f.of] IN
      \/ x.phase \in Active \union {"killed"}
      \/ x.phase = "completed" /\ x.offers /\ f.kind = "decoded"

\* What the cleanup of a closing window could remove stays away: a file that is
\* made or finished after it is one of an execution that ran then, and has not
\* looked at its token since.
CloseLeavesOnlyTheRunning ==
  window = "closing" => \A f \in files : f.of \in running

\* A body is sent with the method the user gave it alone, along every chain of
\* redirects, and the chain ends.
BodyKeepsItsMethod ==
  \A e \in Exchanges :
    LET x == exchange[e] IN
      /\ x.phase = "sending" /\ x.body => x.method = x.first
      /\ x.redirects <= MaxRedirects

\* What the files of response bodies promise: what is shown and saved is what came,
\* and files stay neither too short nor too long a time.
SpoolCorrect ==
  /\ SpoolTypeOK
  /\ PreviewAndFileAgree
  /\ OfferedFilesCanBeSaved
  /\ OnlyResultsStay
  /\ CloseLeavesOnlyTheRunning
  /\ BodyKeepsItsMethod

=============================================================================
