--------------------------- MODULE PostmanDocument ---------------------------
(***************************************************************************)
(* The Postman documents that postmite writes and reads (src-tauri/src/    *)
(* application/postman_import.rs): export_postman over the tree of a       *)
(* workspace, convert_postman of a document, and the rows that             *)
(* insert_converted_postman_import (infrastructure/sqlite/repository/      *)
(* backups.rs) makes of it.                                                *)
(*                                                                         *)
(* The definitions are functions of the tree that CollectionTree keeps;    *)
(* JSON is abstracted to records, a text to whether it is empty.           *)
(***************************************************************************)
EXTENDS CollectionTree, SequencesExt

CONSTANTS
  SampleContents,     \* contents of requests that are tried
  Elements         \* environment variables that are tried, and what other
                   \* programs write: [key, enabled, secret]

VARIABLES
  sample,       \* a content
  element       \* an environment with one value

documentVars == <<sample, element>>

\* RequestContent: rows are [name, enabled, order], a file is a part without.
BlankContent == [url |-> "plain", query |-> <<>>, body |-> [kind |-> "none", parts |-> <<>>], auth |-> "none"]

BlankElement == [key |-> "", enabled |-> TRUE, secret |-> FALSE]

DocumentInit == sample = BlankContent /\ element = BlankElement

-----------------------------------------------------------------------------
(* One request *)

\* Mutant: rows are written in the order of the list.
RowsAsListed(rows) == [i \in DOMAIN rows |-> [key |-> rows[i].name, disabled |-> ~rows[i].enabled]]

\* export_fields.
ExportFields(rows) ==
  LET sorted == SortSeq(rows, LAMBDA x, y : x.order < y.order)
  IN  [i \in DOMAIN sorted |-> [key |-> sorted[i].name, disabled |-> ~sorted[i].enabled]]

IsFile(part) == "file" \in DOMAIN part

\* export_body: files are left out, and with it a binary body.
ExportBody(body) ==
  CASE body.kind \in {"none", "binary"} -> [mode |-> "", rows |-> <<>>]
    [] body.kind = "raw" -> [mode |-> "raw", rows |-> <<>>]
    [] body.kind = "urlencoded" -> [mode |-> "urlencoded", rows |-> ExportFields(body.parts)]
    [] body.kind = "multipart" ->
         LET fields == SelectSeq(body.parts, LAMBDA part : ~IsFile(part))
         IN  [mode |-> "formdata",
              rows |-> [i \in DOMAIN fields |->
                          [key |-> fields[i].name, disabled |-> ~fields[i].enabled]]]

\* export_auth.
ExportAuth(auth) == IF auth \in {"none", "clientCredentials"} THEN "noauth" ELSE auth

\* export_request_item: an URL with rows is an object, any other a string.
ExportRequest(content) ==
  [url |-> content.url, query |-> ExportFields(content.query),
   body |-> ExportBody(content.body), auth |-> ExportAuth(content.auth)]

\* The rows of a list, numbered by their index in it.
Numbered(rows) ==
  [i \in DOMAIN rows |-> [name |-> rows[i].key, enabled |-> ~rows[i].disabled, order |-> i - 1]]

\* convert_key_value_rows: rows without a key are left out, the others keep the
\* index they had.
ConvertRows(rows) == SelectSeq(Numbered(rows), LAMBDA row : row.name # "")

\* convert_body.
ConvertBody(body) ==
  CASE body.mode = "raw" -> [kind |-> "raw", parts |-> <<>>]
    [] body.mode = "urlencoded" -> [kind |-> "urlencoded", parts |-> ConvertRows(body.rows)]
    [] body.mode = "formdata" -> [kind |-> "multipart", parts |-> Numbered(body.rows)]
    [] body.mode = "" -> [kind |-> "none", parts |-> <<>>]

\* convert_auth.
ConvertAuth(auth) == IF auth = "noauth" THEN "none" ELSE auth

\* convert_request and convert_url.
ConvertRequest(request) ==
  [url |-> request.url, query |-> ConvertRows(request.query),
   body |-> ConvertBody(request.body), auth |-> ConvertAuth(request.auth)]

-----------------------------------------------------------------------------
(* The tree *)

RECURSIVE ExportItems(_)

FolderItem(items) == [kind |-> "folder", items |-> items]
RequestItem(r) == [kind |-> "request", of |-> r]

\* export_child_items: folders before requests, each by their positions.
ExportItems(p) ==
  [i \in DOMAIN ListOf(folderRows, p) |-> FolderItem(ExportItems(ListOf(folderRows, p)[i]))]
    \o [i \in DOMAIN ListOf(requestRows, p) |-> RequestItem(ListOf(requestRows, p)[i])]

\* convert_items: the lists grow in the order in which the items are read; a
\* folder is known by its index, and refers to that of the one it is in.
RECURSIVE ConvertItems(_, _, _)
ConvertItems(items, parent, done) ==
  FoldLeft(LAMBDA lists, item :
             IF item.kind = "folder"
             THEN ConvertItems(item.items, Len(lists.collections) + 1,
                               [lists EXCEPT !.collections = Append(@, parent)])
             ELSE [lists EXCEPT !.requests = Append(@, [in |-> parent, of |-> item.of])],
           done, items)

\* convert_postman: all under one folder with the name of the document.
ConvertDocument(items) == ConvertItems(items, 1, [collections |-> <<0>>, requests |-> <<>>])

\* insert_converted_postman_import: a row comes behind the rows that its folder
\* has by then, and refers to a folder that was inserted before it.
InsertedIn(lists, p) == SelectSeq([i \in DOMAIN lists.collections |-> i],
                                  LAMBDA i : lists.collections[i] = p)
InsertedRequests(lists, p) == SelectSeq(lists.requests, LAMBDA r : r.in = p)
InsertSucceeds(lists) == \A i \in DOMAIN lists.collections : lists.collections[i] < i

-----------------------------------------------------------------------------
(* One environment variable *)

\* export_postman: a secret is written without its value.
ExportElement(x) == [key |-> x.key, enabled |-> TRUE, type |-> IF x.secret THEN "secret" ELSE "text"]

\* convert_environment: what is disabled or has no name is left out.
ConvertElement(x) ==
  IF ~x.enabled \/ x.key = "" THEN {} ELSE {[key |-> x.key, enabled |-> TRUE, secret |-> x.type = "secret"]}

-----------------------------------------------------------------------------
Sample(content) == sample' = content /\ element' = BlankElement
SampleElement(x) == element' = x /\ sample' = BlankContent

DocumentNext ==
  \/ \E content \in SampleContents : Sample(content)
  \/ \E x \in Elements : SampleElement(x)

DocumentSpec == DocumentInit /\ [][DocumentNext]_documentVars

-----------------------------------------------------------------------------
(* Properties *)

\* What an export loses, in one place: rows without a name, files, a binary
\* body, client credentials; rows are numbered anew.
Kept(rows) ==
  LET sorted == SortSeq(rows, LAMBDA x, y : x.order < y.order)
      named == SelectSeq(sorted, LAMBDA row : row.name # "")
  IN  [i \in DOMAIN named |-> <<named[i].name, named[i].enabled>>]
Shown(rows) == [i \in DOMAIN rows |-> <<rows[i].name, rows[i].enabled>>]

\* A request that is exported and imported again has its URL, its rows in the
\* order the user sees, its body and its authorization, except for what is
\* reported as not supported; the numbers of its rows still ascend.
RequestsComeBack ==
  LET back == ConvertRequest(ExportRequest(sample))
      Ascends(rows) == \A i, j \in DOMAIN rows : i < j => rows[i].order < rows[j].order
  IN  /\ back.url = sample.url
      /\ Shown(back.query) = Kept(sample.query) /\ Ascends(back.query)
      /\ sample.body.kind \notin {"binary"} => back.body.kind = sample.body.kind
      /\ sample.body.kind = "urlencoded" => Shown(back.body.parts) = Kept(sample.body.parts)
      /\ sample.body.kind = "multipart" =>
           Shown(back.body.parts) = Shown(SelectSeq(sample.body.parts, LAMBDA part : ~IsFile(part)))
      /\ Ascends(back.body.parts)
      /\ sample.auth # "clientCredentials" => back.auth = sample.auth

\* A variable that is exported comes back under its name, and a secret one as a
\* secret one; it is never turned into a plain variable.
VariablesComeBack ==
  element.key # "" =>
    ConvertElement(ExportElement(element)) = {[element EXCEPT !.enabled = TRUE]}

RECURSIVE Outline(_), InsertedOutline(_, _)
Outline(p) ==
  [folders |-> [i \in DOMAIN ListOf(folderRows, p) |-> Outline(ListOf(folderRows, p)[i])],
   requests |-> ListOf(requestRows, p)]
InsertedOutline(lists, p) ==
  [folders |-> [i \in DOMAIN InsertedIn(lists, p) |->
                  InsertedOutline(lists, InsertedIn(lists, p)[i])],
   requests |-> [i \in DOMAIN InsertedRequests(lists, p) |-> InsertedRequests(lists, p)[i].of]]

\* The tree of a workspace that is exported and imported again hangs under one
\* new folder as it was: every folder and request in its place and order, and
\* no row refers to a folder that comes later.
TreesComeBack ==
  LET lists == ConvertDocument(ExportItems(Root))
  IN  InsertSucceeds(lists) /\ InsertedOutline(lists, 1) = Outline(Root)

\* What is exported can be imported again: requests, variables and the tree.
DocumentCorrect ==
  /\ RequestsComeBack
  /\ VariablesComeBack
  /\ TreesComeBack

=============================================================================
