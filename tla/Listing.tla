------------------------------ MODULE Listing -------------------------------
(***************************************************************************)
(* How a directory is shown: as a JSON array (GET, MyProto) and as a       *)
(* multistatus document (PROPFIND, WebDavProto).  HttpFileSystem reads the *)
(* directory entry by entry, in the order the host yields them; each       *)
(* protocol makes its answer of what was read.                             *)
(*                                                                         *)
(* A handler does not suspend before it answers.  One directory and what   *)
(* it holds is all there is; everything else is Nothing.                   *)
(***************************************************************************)
EXTENDS UrlCodec, FiniteSets

CONSTANTS
  Name,        \* the names an entry may have, as bytes
  NotUtf8,     \* those that are not valid UTF-8
  DirPath,     \* the paths the directory may have, as names
  MaxEntries,  \* bound: the entries of the directory
  Property,    \* names of properties that the server knows nothing of
  Document,    \* the bodies of PROPFIND requests
  Text         \* the texts for which the coding is checked

Known == {"displayname", "getcontentlength", "getlastmodified", "resourcetype",
          "getcontenttype", "getetag"}

(* The directory itself and the one above it are no entries.               *)
Dot == <<46>>

(***************************************************************************)
(* The body of a PROPFIND: none, one that is not XML, one that asks for    *)
(* something else, or a "propfind" element that asks for all properties,   *)
(* for those it lists, or for neither.  The client chooses the prefix that *)
(* stands for the namespace of WebDAV, and those of the properties, which  *)
(* may belong to other namespaces; "" is no prefix.                        *)
(***************************************************************************)
ASSUME ListingAssumption ==
  /\ Name \subseteq Seq(Byte \ {0, Slash}) \ {<< >>, Dot, Dot \o Dot}
  /\ NotUtf8 \subseteq Name
  /\ DirPath \subseteq Seq(Name)
  /\ Text \subseteq Seq(Byte)
  /\ MaxEntries \in Nat
  /\ Property \intersect Known = {}
  /\ \A d \in Document :
       /\ d.body \in {"none", "malformed", "other", "propfind"}
       /\ d.asks \in {"allprop", "prop", "neither"}
       /\ d.props \in Seq([prefix : STRING, local : Known \union Property])

(* "unclear": a symbolic link whose target is gone.                        *)
Kind == {"dir", "file", "unclear"}

VARIABLES
  dir,      \* the path of the directory
  entries,  \* what it holds: the kind of each name
  pc,       \* "idle", "read", "answer", "done" or "closed"
  req,      \* the request in progress
  left,     \* the entries the host has not yet yielded
  ec,       \* the error of the last call, kept from one entry to the next
  listed,   \* what list_directory returns
  reply     \* the answer: one item for each resource

vars == <<dir, entries, pc, req, left, ec, listed, reply>>

-----------------------------------------------------------------------------
(* What a path leads to: the directory, one of its entries, or nothing.    *)
(* Only a directory has a name that ends in a slash.                       *)
Self    == [self |-> dir]
Entry(n) == [entry |-> n]
Nothing == [nothing |-> TRUE]

EndsInSlash(path) == path # << >> /\ Last(path) = << >>
Base(path) == IF EndsInSlash(path) THEN Front(path) ELSE path

Resolved(path) ==
  LET inside == {n \in DOMAIN entries :
                   /\ Base(path) = Append(dir, n)
                   /\ EndsInSlash(path) => entries[n] = "dir"}
  IN  IF Base(path) = dir THEN Self
      ELSE IF inside # {} THEN Entry(CHOOSE n \in inside : TRUE)
      ELSE Nothing

KindOf(what) == IF what = Self THEN "dir" ELSE entries[what.entry]

(* is_exists follows links.                                                *)
Exists(what) == what # Nothing /\ KindOf(what) # "unclear"

-----------------------------------------------------------------------------
(* WebDavProto::get_requests.  Elements are found by name with any prefix, *)
(* "allprop" only with the prefix D or none.                               *)
AllProp == <<"displayname", "getcontentlength", "getlastmodified", "resourcetype",
             "getcontenttype", "getetag">>

(* Of the name of a property only what follows the prefix is kept.         *)
get_requests(d) ==
  CASE d.body \in {"none", "malformed"} -> AllProp
    [] d.body = "propfind" /\ d.asks = "allprop" /\ d.prefix \in {"D", ""} -> AllProp
    [] d.body = "propfind" /\ d.asks = "prop" -> [i \in DOMAIN d.props |-> d.props[i].local]
    [] OTHER -> << >>

(* append_response_properties goes through the names: some every resource  *)
(* has, some a file has and a directory lacks, and any other is lacking.   *)
(* All are answered under the prefix D, whatever they were asked under.    *)
Always    == {"displayname", "getlastmodified", "resourcetype", "getcontenttype"}
FilesOnly == {"getcontentlength", "getetag"}

Found(asked, kind) == Only(asked, Always \union (IF kind = "dir" THEN {} ELSE FilesOnly))

None(asked, kind) ==
  Only(asked, (IF kind = "dir" THEN FilesOnly ELSE {})
              \union (Range(asked) \ (Always \union FilesOnly)))

(* The name of an entry, its displayname: path.filename(), which is empty  *)
(* behind a slash.                                                         *)
FileName(path) == IF path = << >> THEN << >> ELSE Last(path)

(* One response of the document, with two propstats.                       *)
Response(what, path) ==
  [what  |-> what,
   name  |-> FileName(path),
   href  |-> Href(path, KindOf(what) = "dir"),
   found |-> Found(get_requests(req.doc), KindOf(what)),
   none  |-> None(get_requests(req.doc), KindOf(what))]

(* One object of the JSON array.                                           *)
Item(n) ==
  [what |-> Entry(n),
   name |-> n,
   href |-> EncodedPath(Append(Base(req.path), n), entries[n] = "dir")]

(* make_file_list_info: the value of the Depth header, 1 without one;      *)
(* "infinity" becomes -1, which lists nothing.                             *)
Lists == req.method = "GET" \/ (req.depth \in {"1", "missing"} /\ KindOf(Resolved(req.path)) = "dir")

-----------------------------------------------------------------------------
(* A request for a path that a client names in some encoding.              *)
NoRequest == [method |-> "none"]

Places == {dir} \union {Append(dir, n) : n \in DOMAIN entries}

PlainTargets == {EncodedPath(p, slash) : p \in Places, slash \in BOOLEAN}

Targets == PlainTargets \union {Append(EncodedPath(dir, TRUE), Question)}

Request(method, target, depth, doc) ==
  LET path == RequestPath(target)
      r    == [method |-> method, path |-> path, depth |-> depth, doc |-> doc]
  IN  /\ pc = "idle"
      /\ req' = r
      /\ IF Exists(Resolved(path)) THEN pc' = "start" ELSE pc' = "done"
      /\ UNCHANGED <<dir, entries, left, ec, listed, reply>>

(* GET lists directories only; for a file it is a download.                *)
Get == \E target \in Targets :
         /\ Resolved(RequestPath(target)) = Self
         /\ Request("GET", target, "missing", [body |-> "none"])

Propfind ==
  \E target \in Targets, depth \in {"0", "1", "infinity", "missing"}, doc \in Document :
    Request("PROPFIND", target, depth, doc)

(* list_directory opens the directory; those below it are empty.           *)
Start ==
  /\ pc = "start"
  /\ pc' = IF Lists THEN "read" ELSE "answer"
  /\ left' = IF Lists /\ Resolved(req.path) = Self THEN DOMAIN entries ELSE {}
  /\ UNCHANGED <<dir, entries, req, ec, listed, reply>>

(* Mutant: an error ends the loop at once.                                 *)
ReadEntryOrBreak ==
  /\ pc = "read"
  /\ ~ec
  /\ \E n \in left :
       /\ left' = left \ {n}
       /\ ec' = (entries[n] = "unclear")
       /\ listed' = IF entries[n] = "unclear" THEN listed ELSE Append(listed, n)
  /\ UNCHANGED <<dir, entries, pc, req, reply>>

(* The entry is listed whatever the calls that examine it return; the last *)
(* of them, last_write_time, leaves its error in ec.                       *)
ReadEntry ==
  /\ pc = "read"
  /\ ~ec
  /\ \E n \in left :
       /\ left' = left \ {n}
       /\ ec' = (entries[n] = "unclear")
       /\ listed' = Append(listed, n)
  /\ UNCHANGED <<dir, entries, pc, req, reply>>

(* Directories first, then by the bytes of the name.                       *)
Less(s, t) ==
  \E k \in 1 .. Len(t) :
    /\ \A j \in 1 .. k - 1 : j <= Len(s) /\ s[j] = t[j]
    /\ k > Len(s) \/ s[k] < t[k]

IsDir(n) == entries[n] = "dir"

Precedes(m, n) == IF IsDir(m) # IsDir(n) THEN IsDir(m) ELSE Less(m, n)

(* No more entries, or an error of the one before.  std::sort puts what    *)
(* was read into an order in which nothing follows what it precedes.       *)
EndRead ==
  /\ pc = "read"
  /\ ec \/ left = {}
  /\ \E from \in Bijection(DOMAIN listed, DOMAIN listed) :
       /\ listed' = [i \in DOMAIN listed |-> listed[from[i]]]
       /\ \A i, j \in DOMAIN listed : i < j => ~Precedes(listed'[j], listed'[i])
  /\ pc' = "answer"
  /\ UNCHANGED <<dir, entries, req, left, ec, reply>>

(* MyProto::make_file_list_info; dump() throws on a string that is not     *)
(* UTF-8, which ends the session without an answer.                        *)
AnswerJson ==
  /\ pc = "answer"
  /\ req.method = "GET"
  /\ IF Range(listed) \intersect NotUtf8 = {}
     THEN /\ reply' = [i \in DOMAIN listed |-> Item(listed[i])]
          /\ pc' = "done"
     ELSE pc' = "closed" /\ UNCHANGED reply
  /\ UNCHANGED <<dir, entries, req, left, ec, listed>>

(* WebDavProto::get_response.                                              *)
AnswerMultistatus ==
  /\ pc = "answer"
  /\ req.method = "PROPFIND"
  /\ reply' = <<Response(Resolved(req.path), req.path)>>
              \o [i \in DOMAIN listed |->
                    Response(Entry(listed[i]), Append(Base(req.path), listed[i]))]
  /\ pc' = "done"
  /\ UNCHANGED <<dir, entries, req, left, ec, listed>>

Init ==
  /\ dir \in DirPath
  /\ \E S \in SUBSET Name : Cardinality(S) <= MaxEntries /\ entries \in [S -> Kind]
  /\ pc = "idle"
  /\ req = NoRequest
  /\ left = {} /\ ec = FALSE /\ listed = << >> /\ reply = << >>

Next == Get \/ Propfind \/ Start \/ ReadEntry \/ EndRead \/ AnswerJson \/ AnswerMultistatus

Spec == Init /\ [][Next]_vars

-----------------------------------------------------------------------------
(* A name on the path is a backslash, which append_response_properties     *)
(* leaves out.                                                             *)
Skipped(what) == <<Backslash>> \in Range(dir) \/ what = Entry(<<Backslash>>)

(* Every resource is shown under a path that leads back to it: a client    *)
(* that sends an href, or a path of the JSON listing, as the target of its *)
(* next request reaches the entry it was shown, and the path ends in a     *)
(* slash exactly if that is a directory.  The one exception is PROPFIND    *)
(* for a path on which a name is a backslash.                              *)
HrefNamesEntry ==
  \A i \in DOMAIN reply :
    LET shown == reply[i]
    IN  req.method = "GET" \/ ~Skipped(shown.what) =>
          /\ Resolved(RequestPath(shown.href)) = shown.what
          /\ (Last(shown.href) = Slash) = (KindOf(shown.what) = "dir")

(* A listing shows each entry once, directories first and then by name,    *)
(* and it shows all of them, unless one could not be examined: then those  *)
(* the host yielded after it are missing.                                  *)
Unclear == {n \in DOMAIN entries : entries[n] = "unclear"}

Answered == pc = "done" /\ req.method \in {"GET", "PROPFIND"} /\ Exists(Resolved(req.path))

ListingExact ==
  Answered /\ Lists /\ Resolved(req.path) = Self =>
    LET shown == {reply[i].what : i \in DOMAIN reply}
    IN  /\ \A i, j \in DOMAIN reply :
             i < j /\ reply[i].what # Self =>
               /\ reply[j].what # Self
               /\ Precedes(reply[i].what.entry, reply[j].what.entry)
        /\ (\E n \in DOMAIN entries : Entry(n) \notin shown) =>
             \E n \in Unclear : Entry(n) \in shown

(* A resource is the same whether a client finds it in a listing or asks   *)
(* for it alone under the path it was shown: it has the same path and the  *)
(* same properties, though other code reads the entry (list_directory,     *)
(* get_file_entry).  The displayname is that of the listing for a file,    *)
(* and empty for a directory, whose path ends in a slash.                  *)
SameAlone ==
  Answered /\ req.method = "PROPFIND" =>
    \A i \in DOMAIN reply :
      LET shown == reply[i]
          path  == RequestPath(shown.href)
          name  == IF KindOf(shown.what) = "dir" THEN << >> ELSE shown.name
      IN  Exists(shown.what) /\ ~Skipped(shown.what) =>
            /\ Exists(Resolved(path))
            /\ Response(Resolved(path), path) = [shown EXCEPT !.name = name]

(* The names of files survive the way through a URL (the same in every     *)
(* state, so it is looked at in those of an empty directory only).         *)
UrlRoundTrip == pc = "idle" /\ entries = << >> => \A text \in Text : RoundTrips(text)
=============================================================================
