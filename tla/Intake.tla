------------------------------- MODULE Intake -------------------------------
(***************************************************************************)
(* Documents of one tenant: uploads (apps/web/app/api/documents/upload),   *)
(* corrections ([id]/route.ts), links for people without an account        *)
(* (share, share-bulk, packages/db/src/shares.ts, 0014) and the signed     *)
(* addresses behind them (apps/web/lib/file-signing.ts).  An upload looks  *)
(* for the content, stores the file and inserts the row in three steps     *)
(* of their own, so uploads overlap and may stop between any two.          *)
(* Events of the timeline, titles and sizes are left out.                  *)
(***************************************************************************)
EXTENDS Integers, Sequences, FiniteSets, SequencesExt

CONSTANTS Contents,    \* contents of files: equal hashes, equal contents
          FilesOf,     \* upload |-> the contents that it sends, in order
          Given,       \* upload |-> the customer of the form, or Nobody
          Reads,       \* content |-> the type that classification is sure of, or Untyped
          Matches,     \* content |-> the customer whose match is sure, or Nobody
          DocTypes, Parties,
          BulkLimit,   \* documents of one bulk share
          ShareTtl, UrlTtl,      \* life of a link and of a signed address
          LastTick, MaxShares    \* bounds

Nobody == "unassigned"
Untyped == "unclassified"
Never == -1

ASSUME IntakeAssumption ==
  /\ FilesOf \in [DOMAIN FilesOf -> Seq(Contents) \ {<<>>}] /\ Untyped \notin DocTypes
  /\ Given \in [DOMAIN FilesOf -> Parties \cup {Nobody}]
  /\ Reads \in [Contents -> DocTypes \cup {Untyped}] /\ Matches \in [Contents -> Parties \cup {Nobody}]
  /\ BulkLimit \in Nat /\ ShareTtl \in Nat /\ UrlTtl \in Nat /\ LastTick \in Nat /\ MaxShares \in Nat

VARIABLES documents,   \* rows of documents, oldest first
          files,       \* stored files, by key: [content, by, saw]
          uploads,     \* upload |-> [at, file, key, type, party, saw]
          shares,      \* rows of document_shares
          urls,        \* signed addresses that were handed out: [share, until]
          tick         \* now()

intakeVars == <<documents, files, uploads, shares, urls, tick>>

Sent == DOMAIN FilesOf
Rows == DOMAIN documents

IntakeTypeOK ==
  /\ \A i \in Rows : /\ documents[i].content \in Contents /\ documents[i].key \in 0..Len(files)
                     /\ documents[i].type \in DocTypes \cup {Untyped}
                     /\ documents[i].status \in {"filed", "needs_review"}
                     /\ documents[i].party \in Parties \cup {Nobody}
  /\ \A u \in Sent : /\ uploads[u].at \in {"look", "store", "insert", "done", "failed"}
                     /\ uploads[u].file \in 1..Len(FilesOf[u]) /\ uploads[u].saw \in 0..Len(documents)
  /\ \A s \in DOMAIN shares : shares[s].doc \in Rows /\ shares[s].revoked \in Never..LastTick
  /\ \A a \in urls : a.share \in DOMAIN shares
  /\ tick \in 0..LastTick

----------------------------------------------------------------------------
ContentOf(u) == FilesOf[u][uploads[u].file]
Fresh == [at |-> "look", file |-> 1, key |-> 0, type |-> Untyped, party |-> Nobody, saw |-> 0]

IntakeInit ==
  /\ documents = <<>> /\ files = <<>> /\ shares = <<>> /\ urls = {} /\ tick = 0
  /\ uploads = [u \in Sent |-> Fresh]

OrElse(first, second, none) == IF first # none THEN first ELSE second

\* Variant: only what is filed is looked at.
FindFiledByHash(u) ==
  LET Same == {i \in Rows : documents[i].content = ContentOf(u) /\ documents[i].status = "filed"} IN
  /\ uploads[u].at = "look"
  /\ \/ \E i \in Same :
          uploads' = [uploads EXCEPT ![u].at = "insert", ![u].saw = Len(documents),
            ![u].key = documents[i].key, ![u].type = documents[i].type,
            ![u].party = OrElse(Given[u], documents[i].party, Nobody)]
     \/ Same = {} /\ uploads' = [uploads EXCEPT ![u].at = "store", ![u].saw = Len(documents)]
  /\ UNCHANGED <<documents, files, shares, urls, tick>>

(* findDocumentByHash: of the rows with this content any may be returned,  *)
(* and its file, type and customer are taken over.                         *)
FindByHash(u) ==
  LET Same == {i \in Rows : documents[i].content = ContentOf(u)} IN
  /\ uploads[u].at = "look"
  /\ \/ \E i \in Same :
          uploads' = [uploads EXCEPT ![u].at = "insert", ![u].saw = Len(documents),
            ![u].key = documents[i].key, ![u].type = documents[i].type,
            ![u].party = OrElse(Given[u], documents[i].party, Nobody)]
     \/ Same = {} /\ uploads' = [uploads EXCEPT ![u].at = "store", ![u].saw = Len(documents)]
  /\ UNCHANGED <<documents, files, shares, urls, tick>>

(* A new content: the file goes to the storage, the text is classified and *)
(* then matched with a customer, as far as that succeeds.                  *)
StoreFile(u) ==
  /\ uploads[u].at = "store"
  /\ files' = Append(files, [content |-> ContentOf(u), by |-> u, saw |-> uploads[u].saw])
  /\ \E type \in {Reads[ContentOf(u)], Untyped}, match \in {Matches[ContentOf(u)], Nobody} :
       /\ match # Nobody => type = Reads[ContentOf(u)]
       /\ uploads' = [uploads EXCEPT ![u].at = "insert", ![u].key = Len(files'),
            ![u].type = type, ![u].party = OrElse(Given[u], match, Nobody)]
  /\ UNCHANGED <<documents, shares, urls, tick>>

(* The row; then the next file of the request. *)
InsertDocument(u) ==
  LET up == uploads[u] IN
  /\ up.at = "insert"
  /\ documents' = Append(documents,
       [content |-> ContentOf(u), key |-> up.key, type |-> up.type, party |-> up.party,
        status |-> IF up.type = Untyped THEN "needs_review" ELSE "filed"])
  /\ uploads' = [uploads EXCEPT ![u] =
       IF up.file < Len(FilesOf[u]) THEN [Fresh EXCEPT !.file = up.file + 1]
       ELSE [Fresh EXCEPT !.at = "done", !.file = up.file]]
  /\ UNCHANGED <<files, shares, urls, tick>>

(* Any step may throw; rows and files of the request so far stay.          *)
FailUpload(u) ==
  /\ uploads[u].at \in {"look", "store", "insert"}
  /\ uploads' = [uploads EXCEPT ![u].at = "failed"]
  /\ UNCHANGED <<documents, files, shares, urls, tick>>

----------------------------------------------------------------------------
(* PATCH: a customer (or none), and a type, which also ends a review.      *)
AssignDocument ==
  \E i \in Rows, p \in Parties \cup {Nobody} :
    /\ documents' = [documents EXCEPT ![i].party = p]
    /\ UNCHANGED <<files, uploads, shares, urls, tick>>

RetypeDocument ==
  \E i \in Rows, t \in DocTypes :
    /\ documents' = [documents EXCEPT ![i].type = t, ![i].status = "filed"]
    /\ UNCHANGED <<files, uploads, shares, urls, tick>>

(* The list of documents, of everybody or of one customer, and its tiles.  *)
DocumentsPage(parties, statuses) ==
  {i \in Rows : documents[i].party \in parties /\ documents[i].status \in statuses}
DocumentStats ==
  [total |-> Len(documents), needsReview |-> Cardinality({i \in Rows : documents[i].status = "needs_review"})]

----------------------------------------------------------------------------
NewShare(i) == [doc |-> i, expires |-> tick + ShareTtl, revoked |-> Never, views |-> 0]

(* A bulk share takes the first documents of the selection, and one link   *)
(* after the other; a failure leaves those that were made.  One document   *)
(* is the case of the button on its page.                                  *)
ShareDocuments ==
  \E chosen \in SUBSET Rows :
    /\ chosen # {} /\ Cardinality(chosen) <= BulkLimit
    /\ Len(shares) + Cardinality(chosen) <= MaxShares
    /\ \E list \in SetToSeqs(chosen) :
         shares' = shares \o [k \in DOMAIN list |-> NewShare(list[k])]
    /\ UNCHANGED <<documents, files, uploads, urls, tick>>

RevokeShare(s) ==
  /\ shares[s].revoked = Never
  /\ shares' = [shares EXCEPT ![s].revoked = tick]
  /\ UNCHANGED <<documents, files, uploads, urls, tick>>

\* Variant: revocation is not looked at.
LiveUntilExpiry(s) == shares[s].expires > tick

(* share_resolve_token finds the link. *)
Live(s) == shares[s].revoked = Never /\ shares[s].expires > tick

(* The page of a link resolves it for its title and again for its body;    *)
(* what it shows is an address that is good for some minutes.  Of the      *)
(* counter of views it only matters whether there was one.                 *)
ResolveTitle(s) ==
  /\ Live(s) /\ shares' = [shares EXCEPT ![s].views = 1]
  /\ UNCHANGED <<documents, files, uploads, urls, tick>>

OpenShare(s) ==
  /\ Live(s) /\ shares' = [shares EXCEPT ![s].views = 1]
  /\ urls' = urls \cup {[share |-> s, until |-> tick + UrlTtl]}
  /\ UNCHANGED <<documents, files, uploads, tick>>

TickPasses == tick < LastTick /\ tick' = tick + 1 /\ UNCHANGED <<documents, files, uploads, shares, urls>>

(* GET of a signed address. *)
Readable(a) == tick <= a.until /\ documents[shares[a.share].doc].key \in DOMAIN files

UploadNext ==
  \/ \E u \in Sent : FindByHash(u) \/ StoreFile(u) \/ InsertDocument(u) \/ FailUpload(u)
  \/ AssignDocument \/ RetypeDocument
ShareNext ==
  ShareDocuments \/ TickPasses \/ \E s \in DOMAIN shares : RevokeShare(s) \/ ResolveTitle(s) \/ OpenShare(s)

IntakeSpec == IntakeInit /\ [][UploadNext \/ ShareNext]_intakeVars

----------------------------------------------------------------------------
(* "Hash before any processing", so that no content is kept twice: every   *)
(* row has its file, with its content; a file without a row was stored by  *)
(* an upload that failed or is about to insert it; and two files of one    *)
(* content were stored by uploads that overlapped, each having looked      *)
(* before the other's row was there.  What waits for review has no type.   *)
FilesAreAccountedFor ==
  /\ \A i \in Rows :
       /\ documents[i].key \in DOMAIN files /\ files[documents[i].key].content = documents[i].content
       /\ documents[i].status = "needs_review" <=> documents[i].type = Untyped
  /\ \A k \in DOMAIN files :
       \/ \E i \in Rows : documents[i].key = k
       \/ uploads[files[k].by].at = "failed" \/ uploads[files[k].by].key = k
  /\ \A k, j \in DOMAIN files :
       k # j /\ files[k].content = files[j].content =>
         \A i \in 1..files[k].saw : documents[i].key # j

(* A link that was revoked or has expired shows its document for the life  *)
(* of an address at most, whoever opened it before.                        *)
LinksDieSoon ==
  \A a \in urls :
    Readable(a) => LET s == shares[a.share]
                   IN  /\ tick < s.expires + UrlTtl
                       /\ s.revoked # Never => tick <= s.revoked + UrlTtl
=============================================================================
