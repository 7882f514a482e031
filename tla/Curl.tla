-------------------------------- MODULE Curl --------------------------------
(***************************************************************************)
(* cURL command lines (src-tauri/src/application/curl.rs): generate_curl   *)
(* writes a request as a command, shell_quote quotes its words, and        *)
(* convert_curl reads a command back into a request.                       *)
(*                                                                         *)
(* A word is a sequence of characters where quoting is concerned, of which *)
(* some are named: single and double quote, backslash, backtick and blank. *)
(* A command is a sequence of words where options are concerned, each an   *)
(* option, a text, or a record of the parts that the parser splits it into *)
(***************************************************************************)
EXTENDS Integers, SequencesExt

CONSTANTS
  Characters,   \* characters that are tried
  MaxWord,      \* bound: characters of a word
  Commands,     \* requests that are written as commands
  NoCommand     \* no request

ASSUME MaxWordAssumption == MaxWord \in Nat

VARIABLES
  word,      \* a word
  shared     \* a request, or NoCommand

curlVars == <<word, shared>>

Unset == "unset"   \* an empty text, or none

-----------------------------------------------------------------------------
(* Words *)

NotQuoted == "none"
Unquoted == {"a", "&", "=", "-"}   \* of the characters that need no quotes

\* shell_quote.
ShellQuote(w) ==
  IF w # <<>> /\ ToSet(w) \subseteq Unquoted THEN w
  ELSE <<"single">> \o FlattenSeq([i \in DOMAIN w |-> IF w[i] = "single" THEN <<"single", "backslash", "single", "single">>
                                                 ELSE <<w[i]>>]) \o <<"single">>

\* What the lexer refuses, wherever it stands in a word.
Refused(quote, c, next) ==
  \/ quote = NotQuoted /\ (c \in {"|", ">", "<", ";"} \/ (c = "&" /\ next = "&"))
  \/ quote # "single" /\ (c = "backtick" \/ (c = "$" /\ next = "("))

LexStart == [words |-> <<>>, current |-> <<>>, open |-> FALSE, quote |-> NotQuoted,
             skip |-> FALSE, refused |-> FALSE]

\* The loop of lex_shell_words, for the character at an index.
LexStep(line, state, i) ==
  LET c == line[i]
      next == IF i < Len(line) THEN line[i + 1] ELSE Unset
  IN  CASE state.refused -> state
        [] ~state.refused /\ state.skip -> [state EXCEPT !.skip = FALSE]
        [] OTHER ->
           IF Refused(state.quote, c, next) THEN [state EXCEPT !.refused = TRUE]
           ELSE IF state.quote = NotQuoted /\ c = "blank"
           THEN IF state.open
                THEN [state EXCEPT !.words = Append(@, state.current), !.current = <<>>, !.open = FALSE]
                ELSE state
           ELSE IF state.quote = NotQuoted /\ c \in {"single", "double"}
           THEN [state EXCEPT !.quote = c, !.open = TRUE]
           ELSE IF c = state.quote THEN [state EXCEPT !.quote = NotQuoted]
           ELSE IF c = "backslash" /\ state.quote # "single"
           THEN [state EXCEPT !.open = TRUE, !.skip = i < Len(line),
                              !.current = IF i < Len(line) THEN Append(@, next) ELSE @]
           ELSE [state EXCEPT !.open = TRUE, !.current = Append(@, c)]

\* lex_shell_words: the words, or that the line is refused.
LexShellWords(line) ==
  LET after[i \in 0..Len(line)] == IF i = 0 THEN LexStart ELSE LexStep(line, after[i - 1], i)
      end == after[Len(line)]
  IN  IF end.refused \/ end.quote # NotQuoted THEN [refused |-> TRUE, words |-> <<>>]
      ELSE [refused |-> FALSE,
            words |-> IF end.open THEN Append(end.words, end.current) ELSE end.words]

-----------------------------------------------------------------------------
(* A request as a command *)

Text(value) == [at |-> FALSE, text |-> value]
IsFilePart(part) == "file" \in DOMAIN part
Pair(option, value) == <<option, value>>
Pairs(option, values) == FlattenSeq([i \in DOMAIN values |-> Pair(option, values[i])])

\* Mutant: rows that are switched off are written too.
EnabledAll(rows) == rows

Enabled(rows) == FlattenSeq([i \in DOMAIN rows |-> IF rows[i].enabled THEN <<rows[i]>> ELSE <<>>])
Header(name, value) == [name |-> name, value |-> value]
HeaderOf(row) == Header(row.name, row.value)

\* An API key goes into a header, wherever the request has it; the token of
\* client credentials is never known.
AuthWords(auth) ==
  CASE auth.kind = "none" -> <<>>
    [] auth.kind = "basic" -> Pair("-u", [user |-> auth.user, password |-> auth.value])
    [] auth.kind = "bearer" -> Pair("-H", Header("Authorization", [bearer |-> auth.value]))
    [] auth.kind = "apiKey" -> Pair("-H", Header(auth.user, auth.value))
    [] auth.kind = "clientCredentials" ->
         Pair("-H", Header("Authorization", [bearer |-> "********"]))

RedirectWords(content) ==
  IF ~content.redirect THEN Pair("--max-redirs", 0)
  ELSE <<"--location">> \o IF content.maxRedirects = 10 THEN <<>>
                           ELSE Pair("--max-redirs", content.maxRedirects)

\* ms_to_seconds, as whole seconds and thousandths.
Seconds(ms) == <<ms \div 1000, ms % 1000>>

TransportWords(content) ==
  (IF content.verify THEN <<>> ELSE <<"--insecure">>)
    \o (IF content.proxy = Unset THEN <<>> ELSE Pair("--proxy", content.proxy))
    \o (IF content.noProxy = <<>> THEN <<>> ELSE Pair("--noproxy", content.noProxy))
    \o (IF content.connectMs = 10000 THEN <<>> ELSE Pair("--connect-timeout", Seconds(content.connectMs)))
    \o (IF content.overallMs = 300000 THEN <<>> ELSE Pair("--max-time", Seconds(content.overallMs)))

PartWord(part) ==
  [name |-> part.name, value |-> IF IsFilePart(part) THEN [at |-> TRUE, text |-> part.file] ELSE part.value]

BodyWords(body) ==
  CASE body.kind = "none" -> <<>>
    [] body.kind = "raw" -> Pair("--data-raw", body.text)
    [] body.kind = "urlencoded" ->
         Pairs("--data-urlencode", [i \in DOMAIN Enabled(body.rows) |-> HeaderOf(Enabled(body.rows)[i])])
    [] body.kind = "multipart" ->
         Pairs("-F", [i \in DOMAIN Enabled(body.rows) |-> PartWord(Enabled(body.rows)[i])])
    [] body.kind = "binary" -> Pair("--data-binary", [at |-> TRUE, text |-> body.file])

HeaderWords(rows) == Pairs("-H", [i \in DOMAIN Enabled(rows) |-> HeaderOf(Enabled(rows)[i])])

\* generate_curl; without an URL there is no command.
Arguments(content) ==
  Pair("-X", content.method) \o <<content.url>> \o HeaderWords(content.headers)
    \o AuthWords(content.auth) \o RedirectWords(content) \o TransportWords(content)
    \o BodyWords(content.body)
GenerateCurl(content) == <<"curl">> \o Arguments(content)

-----------------------------------------------------------------------------
(* A command as a request *)

Flags == {"-G", "-L", "--location", "-k", "--insecure", "-I", "-s"}
ValueOptions ==
  {"-X", "--url", "-H", "-b", "--cookie-jar", "-u", "--oauth2-bearer", "-d", "--data-raw",
   "--data-binary", "--data-urlencode", "-F", "--form-string", "--max-redirs", "--cacert",
   "--cert", "--proxy", "--noproxy", "--connect-timeout", "--max-time", "--speed-time", "-A"}

\* CurlParser::new.
ParserStart ==
  [method |-> Unset, url |-> Unset, headers |-> <<>>, fields |-> <<>>, raw |-> <<>>, parts |-> <<>>,
   auth |-> [kind |-> "none"], redirect |-> TRUE, maxRedirects |-> 10, verify |-> TRUE,
   proxy |-> Unset, noProxy |-> <<>>, connectMs |-> 10000, overallMs |-> 300000, idleMs |-> 60000,
   unsupported |-> 0, option |-> Unset]

PushRow(rows, name, value) == Append(rows, [name |-> name, value |-> value, enabled |-> TRUE])

\* set_url.
SetUrl(parser, url) ==
  IF parser.url = Unset THEN [parser EXCEPT !.url = url] ELSE [parser EXCEPT !.unsupported = @ + 1]

IsBearer(header) == header.name = "Authorization" /\ DOMAIN header.value = {"bearer"}

\* add_header.
AddHeader(parser, header) ==
  IF IsBearer(header)
  THEN [parser EXCEPT !.auth = [kind |-> "bearer", value |-> header.value.bearer]]
  ELSE [parser EXCEPT !.headers = PushRow(@, header.name, header.value)]

\* push_multipart.
PushPart(parser, part, asField) ==
  [parser EXCEPT !.parts =
     IF part.value.at /\ ~asField
     THEN Append(@, [name |-> part.name, file |-> part.value.text, enabled |-> TRUE])
     ELSE PushRow(@, part.name, part.value)]

Milliseconds(seconds) == seconds[1] * 1000 + seconds[2]

\* The options with a value.
TakeValue(parser, option, value) ==
  CASE option = "-X" -> [parser EXCEPT !.method = value]
    [] option = "--url" -> SetUrl(parser, value)
    [] option = "-H" -> AddHeader(parser, value)
    [] option = "-b" -> [parser EXCEPT !.headers = PushRow(@, "Cookie", value)]
    [] option = "-A" -> [parser EXCEPT !.headers = PushRow(@, "User-Agent", value)]
    [] option = "-u" -> [parser EXCEPT !.auth = [kind |-> "basic", user |-> value.user, value |-> value.password]]
    [] option = "--oauth2-bearer" -> [parser EXCEPT !.auth = [kind |-> "bearer", value |-> value]]
    [] option \in {"-d", "--data-raw", "--data-binary"} -> [parser EXCEPT !.raw = Append(@, value)]
    [] option = "--data-urlencode" -> [parser EXCEPT !.fields = PushRow(@, value.name, value.value)]
    [] option \in {"-F", "--form-string"} -> PushPart(parser, value, option = "--form-string")
    [] option = "--max-redirs" ->
         IF value \in 0..255 THEN [parser EXCEPT !.maxRedirects = value]
         ELSE [parser EXCEPT !.unsupported = @ + 1]
    [] option = "--proxy" -> [parser EXCEPT !.proxy = value]
    [] option = "--noproxy" -> [parser EXCEPT !.noProxy = value]
    [] option = "--connect-timeout" -> [parser EXCEPT !.connectMs = Milliseconds(value)]
    [] option = "--max-time" -> [parser EXCEPT !.overallMs = Milliseconds(value)]
    [] option = "--speed-time" -> [parser EXCEPT !.idleMs = Milliseconds(value)]
    [] option \in {"--cookie-jar", "--cacert", "--cert"} -> parser

TakeFlag(parser, flag) ==
  CASE flag = "-G" -> [parser EXCEPT !.method = "GET"]
    [] flag = "-I" -> [parser EXCEPT !.method = "HEAD"]
    [] flag \in {"-L", "--location"} -> [parser EXCEPT !.redirect = TRUE]
    [] flag \in {"-k", "--insecure"} -> [parser EXCEPT !.verify = FALSE]
    [] flag = "-s" -> parser

\* parse_option, and the words that belong to no option.
ParseWord(parser, w) ==
  IF parser.option # Unset THEN TakeValue([parser EXCEPT !.option = Unset], parser.option, w)
  ELSE IF w \in ValueOptions THEN [parser EXCEPT !.option = w]
  ELSE IF w \in Flags THEN TakeFlag(parser, w)
  ELSE SetUrl(parser, w)

\* The end of CurlParser::parse: the first kind of body that the command has.
ParsedBody(parser) ==
  IF parser.parts # <<>> THEN [kind |-> "multipart", rows |-> parser.parts]
  ELSE IF parser.fields # <<>> THEN [kind |-> "urlencoded", rows |-> parser.fields]
  ELSE IF parser.raw # <<>>
       THEN [kind |-> "raw",
             text |-> FlattenSeq([i \in DOMAIN parser.raw |-> IF i = 1 THEN parser.raw[i] ELSE <<"&">> \o parser.raw[i]])]
  ELSE [kind |-> "none"]

\* The loop of CurlParser::parse.
ParseWords(parser, words) ==
  LET after[i \in 0..Len(words)] == IF i = 0 THEN parser ELSE ParseWord(after[i - 1], words[i])
  IN  after[Len(words)]

\* convert_curl.
ConvertCurl(words) ==
  LET end == ParseWords(ParserStart, Tail(words))
      body == ParsedBody(end)
  IN  [method |-> IF end.method # Unset THEN end.method ELSE IF body.kind = "none" THEN "GET" ELSE "POST",
       url |-> end.url, headers |-> end.headers, auth |-> end.auth, body |-> body,
       redirect |-> end.redirect, maxRedirects |-> end.maxRedirects, verify |-> end.verify,
       proxy |-> end.proxy, noProxy |-> end.noProxy,
       connectMs |-> end.connectMs, overallMs |-> end.overallMs, unsupported |-> end.unsupported]

-----------------------------------------------------------------------------
(* The requests that are written: the method and the URL are there and are no
   options, rows have these fields, numbers the range of their type, and no
   header is taken for the authorization. *)

IsList(rows) == rows \in Seq(ToSet(rows))
IsRow(row) ==
  row \in [name : {row.name}, value : {row.value}, enabled : BOOLEAN]
IsFileRow(row) == row \in [name : {row.name}, file : {row.file}, enabled : BOOLEAN]
IsPart(part) == IF IsFilePart(part) THEN IsFileRow(part) ELSE IsRow(part) /\ part.value.at \in BOOLEAN

IsAuth(auth) ==
  \/ auth = [kind |-> "none"]
  \/ auth.kind = "basic" /\ auth = [kind |-> "basic", user |-> auth.user, value |-> auth.value]
  \/ auth.kind = "bearer" /\ auth = [kind |-> "bearer", value |-> auth.value]
  \/ auth.kind = "apiKey" /\ ~IsBearer(Header(auth.user, auth.value))
  \/ auth.kind = "clientCredentials"

IsBody(body) ==
  \/ body = [kind |-> "none"]
  \/ body.kind = "raw" /\ body = [kind |-> "raw", text |-> body.text]
  \/ body.kind = "urlencoded" /\ IsList(body.rows) /\ \A i \in DOMAIN body.rows : IsRow(body.rows[i])
  \/ body.kind = "multipart" /\ IsList(body.rows) /\ \A i \in DOMAIN body.rows : IsPart(body.rows[i])
  \/ body.kind = "binary"

IsRequest(content) ==
  /\ content.method # Unset /\ content.url \notin ValueOptions \union Flags \union {Unset}
  /\ IsList(content.headers)
  /\ \A i \in DOMAIN content.headers :
       IsRow(content.headers[i]) /\ ~IsBearer(HeaderOf(content.headers[i]))
  /\ IsAuth(content.auth) /\ IsBody(content.body)
  /\ {content.redirect, content.verify} \subseteq BOOLEAN /\ content.maxRedirects \in 0..255
  /\ {content.connectMs, content.overallMs} \subseteq Nat

ASSUME CommandsAssumption == NoCommand \notin Commands /\ \A content \in Commands : IsRequest(content)

-----------------------------------------------------------------------------
CurlInit == word = <<>> /\ shared = NoCommand

Write(c) ==
  /\ shared = NoCommand /\ Len(word) < MaxWord
  /\ word' = Append(word, c)
  /\ UNCHANGED shared

Share(content) == word = <<>> /\ shared' = content /\ UNCHANGED word

CurlNext ==
  \/ \E c \in Characters : Write(c)
  \/ \E content \in Commands : Share(content)

CurlSpec == CurlInit /\ [][CurlNext]_curlVars

-----------------------------------------------------------------------------
(* Properties *)

HasTwoAnds(w) == \E i \in 1..(Len(w) - 1) : w[i] = "&" /\ w[i + 1] = "&"

\* A word that was quoted is read back as it was, whatever characters it has and
\* whatever comes before and after it.  Only a word without quotes that has two
\* ampersands in a row is refused, by a lexer that takes them for an operator.
WordsComeBack ==
  LET line == <<"a", "blank">> \o ShellQuote(word) \o <<"blank", "a">>
      bare == word # <<>> /\ ToSet(word) \subseteq Unquoted
  IN  LexShellWords(line) =
        IF bare /\ HasTwoAnds(word) THEN [refused |-> TRUE, words |-> <<>>]
        ELSE [refused |-> FALSE, words |-> <<<<"a">>, word, <<"a">>>>]

\* How many redirections are followed.
Follows(content) ==
  IF ~content.redirect THEN 0 ELSE IF content.maxRedirects < 10 THEN content.maxRedirects ELSE 10

StartsWithAt(row) == ~IsFilePart(row) /\ row.value.at
On(rows) == FlattenSeq([i \in DOMAIN rows |-> IF rows[i].enabled THEN <<rows[i]>> ELSE <<>>])

\* A request that is written as a command and read back sends the same: the
\* rows that are switched on, in their order, with what authorizes it, as many
\* redirections and the same time limits, and nothing is reported.  What a
\* command cannot say is left out here: a binary body, an API key, client
\* credentials, a header with a bearer token, and a text part that begins with
\* an at sign.
CommandsComeBack == shared # NoCommand =>
  LET back == ConvertCurl(GenerateCurl(shared))
      key == IF shared.auth.kind = "apiKey"
             THEN <<[name |-> shared.auth.user, value |-> shared.auth.value, enabled |-> TRUE]>> ELSE <<>>
  IN  /\ back.unsupported = 0
      /\ back.method = shared.method /\ back.url = shared.url
      /\ back.headers = On(shared.headers) \o key
      /\ shared.auth.kind \in {"none", "basic", "bearer"} => back.auth = shared.auth
      /\ Follows(back) = Follows(shared)
      /\ back.verify = shared.verify /\ back.proxy = shared.proxy /\ back.noProxy = shared.noProxy
      /\ back.connectMs = shared.connectMs /\ back.overallMs = shared.overallMs
      /\ shared.body.kind \in {"none", "raw"} => back.body = shared.body
      /\ shared.body.kind \in {"urlencoded", "multipart"} =>
           IF On(shared.body.rows) = <<>> THEN back.body.kind = "none"
           ELSE back.body.kind = shared.body.kind
                  /\ ((shared.body.kind = "multipart" =>
                         \A i \in DOMAIN shared.body.rows : ~StartsWithAt(shared.body.rows[i]))
                       => back.body.rows = On(shared.body.rows))

\* A request comes back from its command, and so does each word of it.
CurlCorrect ==
  /\ WordsComeBack
  /\ CommandsComeBack

=============================================================================
