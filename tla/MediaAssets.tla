----------------------------- MODULE MediaAssets -----------------------------
(***************************************************************************)
(* Uploaded media: records of media, records of assets, and two            *)
(* directories of files that no transaction covers.                        *)
(*                                                                         *)
(* MediaProcessingHandle (resources/media/processing.rs) writes an asset's *)
(* file, then its record, then the media that refers to it, and removes    *)
(* what was replaced afterwards.  Updates of media compare with the copy   *)
(* that was read.  A handler that fails, or is dropped at an await because *)
(* the client hung up, runs the cleanup guards on its stack; a crash runs  *)
(* nothing.  reconcile_abandoned_staging and reconcile_orphan_assets       *)
(* remove what is left, while handlers work.                               *)
(*                                                                         *)
(* A request stands for one call of the API and for the ids (uuids) made   *)
(* for it: of its upload, its pages, a media it creates, a draft it opens. *)
(* Page ids of a draft are its pages' asset ids.  Bytes, types, limits and *)
(* the order of pages are left out; media that only hold a URL own no      *)
(* files.  Who may write where is decided before: a refused request is one *)
(* that fails.  One instance works on the two directories.                 *)
(*                                                                         *)
(* Assumed: an upload is not processed longer than staging_max_age_seconds *)
(* (a day by default), so what a sweep finds old belongs to nobody.        *)
(***************************************************************************)
EXTENDS Naturals, FiniteSets

CONSTANTS
  Requests,  \* each makes one call
  Library,   \* media that are there from the beginning
  Teams, Titles,
  MaxPages,  \* bound on the pages of one upload
  None       \* no media, no team, no title

MediaIds == Library \union Requests
\* The asset <<x, 0>> is the upload of x, <<x, i>> a page made by x.
Assets  == MediaIds \X (0 .. MaxPages)
Upload(r) == <<r, 0>>

ASSUME MediaAssumption ==
  /\ IsFiniteSet(Library \union Requests)
  /\ Library \intersect Requests = {}
  /\ None \notin MediaIds \union Teams \union Titles
  /\ MaxPages \in Nat \ {0}

VARIABLES
  media,   \* media_id -> record of table media
  rows,    \* asset_id -> record of table media_asset
  finals,  \* files in MEDIA_FINAL_DIR, by asset id
  staged,  \* files in MEDIA_STAGING_DIR, by operation id
  active,  \* active_uploads
  req,     \* what each request does
  sweep,   \* what the reconciliation does
  spoilt,  \* history: media whose files were taken by a sweep that came
           \*   before the media did, or after the answer to its write was lost
  stray    \* history: media moved while a request held their former owner

vars == <<media, rows, finals, staged, active, req, sweep, spoilt, stray>>

NoDraft == [rev |-> None, pages |-> {}]
Medium(kind, title, owner, content) ==
  [kind |-> kind, title |-> title, owner |-> owner, content |-> content, draft |-> NoDraft]
NoMedia == Medium("none", None, None, {})
Row(status, m, owner) == [status |-> status, media |-> m, owner |-> owner]
NoRow   == Row("none", None, None)

Exists(m) == media[m].kind # "none"
content_blob_ids(v) == v.content
BlobIds(v) == content_blob_ids(v) \union v.draft.pages
\* The draft, or what staged_pages_from_content makes of the content.
DraftPages(v) == IF v.draft = NoDraft THEN v.content ELSE v.draft.pages

New == [op |-> "none", pc |-> "idle", m |-> None, seen |-> NoMedia, pick |-> {},
        made |-> {}, busy |-> {}, drop |-> {}, trash |-> {}, cut |-> FALSE]
Resting == [pc |-> "idle", stale |-> {}, doomed |-> {}]

Creating == {"create", "duplicate"}
Running == {"uploading", "staged", "ingest", "copy", "promote", "write"}
Over    == {"idle", "done"}

\* What media may hold: a file, or a deck with some pages and perhaps a draft.
InitialPages(x, n) == {<<x, i>> : i \in 1 .. n}
InitialMedia(x) ==
  IF x \notin Library THEN {NoMedia} ELSE
  {v \in [kind : {"image", "av", "deck"}, title : Titles, owner : Teams,
          content : {InitialPages(x, n) : n \in 1 .. MaxPages},
          draft : {NoDraft, [rev |-> x, pages |-> InitialPages(x, MaxPages)]}] :
     v.kind # "deck" => v.content = InitialPages(x, 1) /\ v.draft = NoDraft}

Init ==
  /\ media \in [MediaIds -> UNION {InitialMedia(x) : x \in MediaIds}]
  /\ \A x \in MediaIds : media[x] \in InitialMedia(x)
  /\ rows = [a \in Assets |-> IF a \in BlobIds(media[a[1]])
                              THEN Row("final", a[1], media[a[1]].owner) ELSE NoRow]
  /\ finals = {a \in Assets : rows[a] # NoRow}
  /\ staged = {} /\ active = {}
  /\ req = [r \in Requests |-> New]
  /\ sweep = Resting
  /\ spoilt = {} /\ stray = {}

Go(r, v)     == req' = [req EXCEPT ![r] = v]
Begin(r, v)  == req[r].pc = "idle" /\ Go(r, v)
At(op, pc, m, seen) == [New EXCEPT !.op = op, !.pc = pc, !.m = m, !.seen = seen]

-----------------------------------------------------------------------------
(* Bytes come in: staging, and files in the final directory.               *)

\* upload_staging_for_user up to the stream: the operation is registered
\* before its file is created.
BeginUpload(r) ==
  /\ \E m \in MediaIds : Exists(m) /\ Begin(r, At("upload", "uploading", m, [NoMedia EXCEPT !.owner = media[m].owner]))
  /\ active' = active \union {r}
  /\ staged' = staged \union {r}
  /\ UNCHANGED <<media, rows, finals, sweep, spoilt, stray>>

WithStaging(r) ==
  [rows EXCEPT ![Upload(r)] = Row("staging", req[r].m, req[r].seen.owner)]

create_staging(r) ==
  /\ req[r].pc = "uploading"
  /\ rows' = WithStaging(r)
  /\ active' = active \ {r}
  /\ Go(r, At("upload", "staged", req[r].m, NoMedia))
  /\ UNCHANGED <<media, finals, staged, sweep, spoilt, stray>>

IsStaging(r) == rows[Upload(r)].status = "staging"

\* replace_after_upload_locked up to the processing: the copy that the update
\* will be compared with is read here, and the page to be replaced is found.
ReadMedia(r) ==
  LET m == req[r].m IN
  /\ req[r].pc = "staged" /\ Exists(m) /\ IsStaging(r)
  /\ \E pick \in SUBSET DraftPages(media[m]) :
       /\ Cardinality(pick) <= IF media[m].kind = "deck" THEN 1 ELSE 0
       /\ Go(r, [req[r] EXCEPT !.seen = media[m], !.pick = pick,
                   !.pc = IF media[m].kind = "av" THEN "promote" ELSE "ingest"])
  /\ UNCHANGED <<media, rows, finals, staged, active, sweep, spoilt, stray>>

create_uploaded(r) ==
  /\ \E kind \in {"image", "av", "deck"}, title \in Titles, owner \in Teams :
       Begin(r, At("create", "ingest", r, Medium(kind, title, owner, {})))
  /\ UNCHANGED <<media, rows, finals, staged, active, sweep, spoilt, stray>>

duplicate(r) ==
  /\ \E s \in MediaIds, title \in Titles, owner \in Teams :
       /\ Exists(s) /\ Cardinality(media[s].content) <= MaxPages
       /\ Begin(r, [At("duplicate", "copy", r, Medium(media[s].kind, title, owner, {}))
                      EXCEPT !.pick = media[s].content])
  /\ UNCHANGED <<media, rows, finals, staged, active, sweep, spoilt, stray>>

NextPage(r) == <<r, Cardinality(req[r].made) + 1>>

HasRoomForOne(r) == Cardinality(req[r].made) <= MaxPages  \* mutant: checked too late
HasRoom(r) ==
  Cardinality(req[r].made) < IF req[r].seen.kind = "deck" THEN MaxPages ELSE 1

ingest_final_from_path(r) ==
  /\ req[r].pc = "ingest" /\ req[r].busy = {} /\ HasRoom(r)
  /\ finals' = finals \union {NextPage(r)}
  /\ Go(r, [req[r] EXCEPT !.busy = {NextPage(r)}])
  /\ UNCHANGED <<media, rows, staged, active, sweep, spoilt, stray>>

copy_final_file(r) ==
  /\ req[r].pc = "copy" /\ req[r].busy = {}
  /\ \E page \in req[r].pick \intersect finals :
       Go(r, [req[r] EXCEPT !.busy = {NextPage(r)}, !.pick = @ \ {page}])
  /\ finals' = finals \union {NextPage(r)}
  /\ UNCHANGED <<media, rows, staged, active, sweep, spoilt, stray>>

WithFinal(r) ==
  [a \in Assets |-> IF a \in req[r].busy THEN Row("final", req[r].m, req[r].seen.owner)
                                         ELSE rows[a]]

create_final(r) ==
  /\ req[r].pc \in {"ingest", "copy"} /\ req[r].busy # {}
  /\ rows' = WithFinal(r)
  /\ Go(r, [req[r] EXCEPT !.made = @ \union req[r].busy, !.busy = {}])
  /\ UNCHANGED <<media, finals, staged, active, sweep, spoilt, stray>>

\* promote_staging: the file is moved, then the record is changed if it is
\* still this operation's and staging.
promote_file(r) ==
  /\ req[r].pc = "promote" /\ req[r].busy = {} /\ req[r].made = {}
  /\ IsStaging(r) /\ r \in staged
  /\ staged' = staged \ {r}
  /\ finals' = finals \union {Upload(r)}
  /\ Go(r, [req[r] EXCEPT !.busy = {Upload(r)}])
  /\ UNCHANGED <<media, rows, active, sweep, spoilt, stray>>

WithPromoted(r) ==
  [rows EXCEPT ![Upload(r)].status = IF @ = "staging" THEN "final" ELSE @]

promote_staging(r) ==
  /\ req[r].pc = "promote" /\ req[r].busy # {} /\ IsStaging(r)
  /\ rows' = WithPromoted(r)
  /\ Go(r, [req[r] EXCEPT !.made = req[r].busy, !.busy = {}])
  /\ UNCHANGED <<media, finals, staged, active, sweep, spoilt, stray>>

-----------------------------------------------------------------------------
(* What a handler leaves to its guards and to its end.                     *)

StagingRow(r) == {a \in {Upload(r)} : IsStaging(r)}

\* A handler that only has these rows left to delete, or is over.
Cleaning(trash, cut) ==
  [New EXCEPT !.pc = IF trash = {} THEN "done" ELSE "cleaning", !.trash = trash, !.cut = cut]

Unwind(r, guarded, trash, cut) ==
  /\ finals' = finals \ guarded
  /\ staged' = staged \ {r}
  /\ Go(r, Cleaning(trash, cut))

\* Dropping FinalAssetCleanup and FinalFileCleanup, and the explicit deletion
\* in promote_staging; then cleanup_now.  A duplicate deletes by media instead.
Abort(r, cut) ==
  IF req[r].op = "duplicate"
  THEN /\ finals' = finals \ req[r].busy
       /\ Go(r, [New EXCEPT !.pc = "purge", !.m = r, !.cut = cut])
       /\ UNCHANGED staged
  ELSE Unwind(r, req[r].made \union req[r].busy, req[r].made \union StagingRow(r), cut)

\* The event media_owner_update: with its media's owner, the asset rows change.
Owned(m, owner) ==
  [a \in Assets |-> IF rows[a].media = m /\ owner # media[m].owner
                    THEN [rows[a] EXCEPT !.owner = owner] ELSE rows[a]]

PutSilently(r, v) ==          \* mutant: the assets keep their owner
  media' = [media EXCEPT ![req[r].m] = v] /\ UNCHANGED rows
Put(r, v) ==
  /\ media' = [media EXCEPT ![req[r].m] = v]
  /\ rows' = IF Exists(req[r].m) /\ v # NoMedia THEN Owned(req[r].m, v.owner) ELSE rows

\* The write is answered and the superseded assets are next, or its answer is
\* lost: the connection fails, or the handler is dropped while it waits.  Then
\* the guards run although the write took effect.
Write(r, v, next) ==
  /\ Put(r, v)
  /\ \/ Go(r, next) /\ UNCHANGED <<finals, staged, spoilt>>
     \/ Abort(r, TRUE) /\ spoilt' = spoilt \union {x \in {req[r].m} : req[r].made # {}}

Dropping(drop) == [New EXCEPT !.pc = "dropping", !.drop = drop]

\* update_if_current and delete_if_current: title, content and draft are still
\* those that were read.  The owner is not compared.
IsCurrentAny(r) == Exists(req[r].m)  \* mutant: nothing is compared
IsCurrent(r) ==
  LET now == media[req[r].m] IN
  /\ Exists(req[r].m)
  /\ [now EXCEPT !.owner = req[r].seen.owner] = req[r].seen

\* Requests that will give assets the owner they have read.
HoldsOwner(q) == req[q].pc \in {"uploading", "ingest"} /\ req[q].op = "upload"

Moved(m, owner) ==
  stray' = IF owner = media[m].owner THEN stray
           ELSE (stray \ {m}) \union {x \in {m} : \E q \in Requests : HoldsOwner(q) /\ req[q].m = m}

create_with_id(r) ==
  /\ req[r].op \in Creating /\ req[r].busy = {} /\ req[r].made # {}
  /\ req[r].op = "duplicate" => req[r].pick = {}
  /\ Write(r, [req[r].seen EXCEPT !.content = req[r].made], Dropping({}))
  /\ UNCHANGED <<active, sweep, stray>>

\* Image, video and audio: the content is the new asset.
replace_content(r) ==
  /\ req[r].op = "upload" /\ req[r].busy = {} /\ req[r].made # {}
  /\ req[r].seen.kind # "deck" /\ IsCurrent(r)
  /\ Write(r, [media[req[r].m] EXCEPT !.content = req[r].made, !.draft = NoDraft],
           Dropping(content_blob_ids(req[r].seen)))
  /\ UNCHANGED <<active, sweep, stray>>

\* The draft that was read, or a new one, with the pages in place of pick.
Drafted(r) ==
  [rev   |-> IF req[r].seen.draft = NoDraft THEN r ELSE req[r].seen.draft.rev,
   pages |-> (DraftPages(req[r].seen) \ req[r].pick) \union req[r].made]

add_deck_source(r) ==
  /\ req[r].op = "upload" /\ req[r].busy = {} /\ req[r].made # {}
  /\ req[r].seen.kind = "deck" /\ IsCurrent(r)
  /\ Write(r, [media[req[r].m] EXCEPT !.draft = Drafted(r)],
           Dropping(req[r].pick \ content_blob_ids(req[r].seen)))
  /\ UNCHANGED <<active, sweep, stray>>

-----------------------------------------------------------------------------
(* Media are edited, committed, moved and deleted.                         *)

\* A client commits the draft it knows: a choice of its pages.
ReadToEdit(r) ==
  /\ \E m \in MediaIds, op \in {"begin", "commit", "update", "delete"} :
       /\ Exists(m)
       /\ op \in {"begin", "commit"} => media[m].kind = "deck"
       /\ op = "begin" => media[m].draft = NoDraft
       /\ op = "commit" => media[m].draft # NoDraft
       /\ \E pick \in SUBSET media[m].draft.pages :
            /\ pick = {} <=> op # "commit"
            /\ Begin(r, [At(op, "write", m, media[m]) EXCEPT !.pick = pick])
  /\ UNCHANGED <<media, rows, finals, staged, active, sweep, spoilt, stray>>

begin_deck_revision(r) ==
  /\ req[r].op = "begin" /\ IsCurrent(r)
  /\ Write(r, [media[req[r].m] EXCEPT !.draft = [rev |-> r, pages |-> req[r].seen.content]],
           Dropping({}))
  /\ UNCHANGED <<active, sweep, stray>>

DropsContent(r) == content_blob_ids(req[r].seen) \ req[r].pick  \* mutant: not the draft's
Superseded(r) == BlobIds(req[r].seen) \ req[r].pick

commit_deck(r) ==
  /\ req[r].op = "commit" /\ req[r].pc = "write" /\ IsCurrent(r)
  /\ Write(r, [media[req[r].m] EXCEPT !.content = req[r].pick, !.draft = NoDraft],
           Dropping(Superseded(r)))
  /\ UNCHANGED <<active, sweep, stray>>

\* PUT may change title and owner.
update_current(r) ==
  /\ req[r].op = "update" /\ req[r].pc = "write" /\ IsCurrent(r)
  /\ \E title \in Titles, owner \in Teams :
       /\ Write(r, [media[req[r].m] EXCEPT !.title = title, !.owner = owner], Dropping({}))
       /\ Moved(req[r].m, owner)
  /\ UNCHANGED <<active, sweep>>

delete_current(r) ==
  /\ req[r].op = "delete" /\ req[r].pc = "write" /\ IsCurrent(r)
  /\ Write(r, NoMedia, [New EXCEPT !.pc = "purge", !.m = req[r].m])
  /\ UNCHANGED <<active, sweep, stray>>

\* move_for_user writes the owner without comparing anything.
move_owner(r) ==
  /\ \E m \in MediaIds, owner \in Teams :
       /\ Exists(m) /\ owner # media[m].owner
       /\ Begin(r, [New EXCEPT !.pc = "done"])
       /\ media' = [media EXCEPT ![m].owner = owner]
       /\ rows' = Owned(m, owner)
       /\ Moved(m, owner)
  /\ UNCHANGED <<finals, staged, active, sweep, spoilt>>

-----------------------------------------------------------------------------
(* Cleaning up after success and failure.                                  *)

\* cleanup_final_assets: file, then row, asset after asset.
DropFile(r) ==
  /\ req[r].pc = "dropping" /\ req[r].trash = {}
  /\ \E a \in req[r].drop :
       /\ finals' = finals \ {a}
       /\ Go(r, [req[r] EXCEPT !.drop = @ \ {a}, !.trash = {a}])
  /\ UNCHANGED <<media, rows, staged, active, sweep, spoilt, stray>>

delete_asset_record(r) ==
  /\ \E a \in req[r].trash :
       /\ rows' = [rows EXCEPT ![a] = NoRow]
       /\ \/ req[r].pc = "dropping" /\ Go(r, [req[r] EXCEPT !.trash = @ \ {a}])
          \/ req[r].pc = "cleaning" /\ Go(r, Cleaning(req[r].trash \ {a}, req[r].cut))
  /\ UNCHANGED <<media, finals, staged, active, sweep, spoilt, stray>>

\* StagingAssetCleanup::cleanup_now after a success.
cleanup_now(r) ==
  /\ req[r].pc = "dropping" /\ req[r].drop = {} /\ req[r].trash = {}
  /\ Unwind(r, {}, StagingRow(r), FALSE)
  /\ UNCHANGED <<media, rows, active, sweep, spoilt, stray>>

RowsOf(m) == {a \in Assets : rows[a] # NoRow /\ rows[a].media = m}

\* delete_assets_for_media: the rows with one statement, then their files.
delete_assets_for_media(r) ==
  LET gone == RowsOf(req[r].m) IN
  /\ req[r].pc = "purge"
  /\ rows' = [a \in Assets |-> IF a \in gone THEN NoRow ELSE rows[a]]
  /\ Go(r, [req[r] EXCEPT !.pc = "purging", !.m = None,
              !.drop = {a \in gone : rows[a].status = "final"},
              !.trash = {a \in gone : rows[a].status = "staging"}])
  /\ UNCHANGED <<media, finals, staged, active, sweep, spoilt, stray>>

RemovePurged(r) ==
  /\ req[r].pc = "purging"
  /\ finals' = finals \ req[r].drop
  /\ staged' = {q \in staged : Upload(q) \notin req[r].trash}
  /\ Go(r, Cleaning({}, req[r].cut))
  /\ UNCHANGED <<media, rows, active, sweep, spoilt, stray>>

-----------------------------------------------------------------------------
(* Failures.                                                               *)

\* Anything the handler waits for fails: a file, a processor, a limit, the
\* database before it wrote, a comparison.
Fail(r) ==
  /\ req[r].pc \in Running
  /\ Abort(r, FALSE)
  /\ active' = active \ {r}
  /\ UNCHANGED <<media, rows, sweep, spoilt, stray>>

\* What the statement does that the handler waits for, if anything.
InFlight(r) ==
  CASE req[r].pc = "uploading"                               -> {rows, WithStaging(r)}
    [] req[r].pc \in {"ingest", "copy"}                      -> {rows, WithFinal(r)}
    [] req[r].pc = "promote" /\ req[r].busy # {}             -> {rows, WithPromoted(r)}
    [] OTHER                                                 -> {rows}

\* Files that a guard on the stack removes: neither a promoted file whose
\* record is being changed, nor the finished pages of a duplicate.
Guarded(r) == IF req[r].op = "duplicate" THEN req[r].busy
              ELSE req[r].made \union (IF req[r].pc = "promote" THEN {} ELSE req[r].busy)

\* The client hangs up and the handler is dropped at an await; guards delete
\* files at once and rows in a task of their own.  Nobody unregisters an upload,
\* which may be all that was left to do for it.
Cancel(r) ==
  /\ \/ /\ req[r].pc \in Running
        /\ rows' \in InFlight(r)
        /\ Unwind(r, Guarded(r),
                  IF req[r].pc = "uploading" \/ req[r].op = "duplicate" THEN {}
                  ELSE req[r].made \union StagingRow(r), TRUE)
     \/ /\ req[r].pc = "uploading"
        /\ rows' = WithStaging(r)
        /\ Go(r, Cleaning({}, TRUE))
        /\ UNCHANGED <<finals, staged>>
     \/ /\ req[r].pc = "dropping"
        /\ Unwind(r, {}, StagingRow(r), TRUE)
        /\ UNCHANGED rows
     \/ /\ req[r].pc \in {"cleaning", "purge", "purging"}
        /\ Go(r, Cleaning({}, TRUE))
        /\ UNCHANGED <<rows, finals, staged>>
  /\ UNCHANGED <<media, active, sweep, spoilt, stray>>

\* The server dies and comes back; every handler is gone without its guards.
Crash ==
  /\ req' = [r \in Requests |-> IF req[r].pc \in Over THEN req[r]
                                ELSE Cleaning({}, TRUE)]
  /\ active' = {}
  /\ sweep' = Resting
  /\ UNCHANGED <<media, rows, finals, staged, spoilt, stray>>

-----------------------------------------------------------------------------
(* The reconciliation, at startup and every hour: abandoned staging, then   *)
(* orphans.  What finds nothing to remove is no step.                      *)

\* Only a file nobody wrote to for long is old: the stream of an upload may
\* stall, or its request be over.
OldFile(q) == req[q].pc \in {"uploading", "done"}

Sweeping(stale) ==
  [Resting EXCEPT !.pc = IF stale = {} THEN "idle" ELSE "stale", !.stale = stale]

\* reconcile_abandoned_staging: old files of operations that are not active,
\* then the list of old records.  What is listed belongs to requests that are
\* over, so it does not matter when it is read.  Each is removed file first.
reconcile_abandoned_staging ==
  /\ sweep.pc = "idle"
  /\ \E old   \in SUBSET {q \in staged \ active : OldFile(q)},
        stale \in SUBSET {r \in Requests \ active : IsStaging(r) /\ req[r].pc = "done"} :
       /\ old \union stale # {}
       /\ staged' = staged \ old
       /\ sweep' = Sweeping(stale)
  /\ UNCHANGED <<media, rows, finals, active, req, spoilt, stray>>

DeleteStale ==
  /\ sweep.pc = "stale"
  /\ \E r \in sweep.stale :
       /\ staged' = staged \ {r}
       /\ rows' = [rows EXCEPT ![Upload(r)] = NoRow]
       /\ sweep' = Sweeping(sweep.stale \ {r})
  /\ UNCHANGED <<media, finals, active, req, spoilt, stray>>

Orphans == {a \in Assets : rows[a] # NoRow /\ ~Exists(rows[a].media)}

\* reconcile_orphan_assets.  A media that is being created has rows already.
delete_orphan_assets ==
  /\ sweep.pc = "idle" /\ Orphans # {}
  /\ sweep' = [Resting EXCEPT !.pc = "files",
                 !.doomed = {a \in Orphans : rows[a].status = "final"},
                 !.stale = {r \in Requests : Upload(r) \in Orphans /\ IsStaging(r)}]
  /\ rows' = [a \in Assets |-> IF a \in Orphans THEN NoRow ELSE rows[a]]
  /\ spoilt' = spoilt \union {rows[a].media : a \in Orphans}
  /\ UNCHANGED <<media, finals, staged, active, req, stray>>

RemoveOrphans ==
  /\ sweep.pc = "files"
  /\ finals' = finals \ sweep.doomed
  /\ staged' = staged \ sweep.stale
  /\ sweep' = Resting
  /\ UNCHANGED <<media, rows, active, req, spoilt, stray>>

-----------------------------------------------------------------------------
Handle(r) ==
  \/ BeginUpload(r) \/ create_staging(r) \/ ReadMedia(r)
  \/ create_uploaded(r) \/ duplicate(r)
  \/ ingest_final_from_path(r) \/ copy_final_file(r) \/ create_final(r)
  \/ promote_file(r) \/ promote_staging(r)
  \/ create_with_id(r) \/ replace_content(r) \/ add_deck_source(r)
  \/ ReadToEdit(r) \/ begin_deck_revision(r) \/ commit_deck(r)
  \/ update_current(r) \/ delete_current(r) \/ move_owner(r)
  \/ DropFile(r) \/ delete_asset_record(r) \/ cleanup_now(r)
  \/ delete_assets_for_media(r) \/ RemovePurged(r)
  \/ Fail(r) \/ Cancel(r)

Reconcile ==
  \/ reconcile_abandoned_staging \/ DeleteStale
  \/ delete_orphan_assets \/ RemoveOrphans

Next == Crash \/ Reconcile \/ \E r \in Requests : Handle(r)

Spec == Init /\ [][Next]_vars

-----------------------------------------------------------------------------
Drafts == [rev : MediaIds \union {None}, pages : SUBSET Assets]
Media  == [kind : {"none", "image", "av", "deck"}, title : Titles \union {None},
           owner : Teams \union {None}, content : SUBSET Assets, draft : Drafts]
Rows   == [status : {"none", "staging", "final"}, media : MediaIds \union {None},
           owner : Teams \union {None}]
Handlers ==
  [op : Creating \union {"none", "upload", "begin", "commit", "update", "delete"},
   pc : Running \union Over \union {"dropping", "cleaning", "purge", "purging"},
   m : MediaIds \union {None}, seen : Media, pick : SUBSET Assets,
   made : SUBSET Assets, busy : SUBSET Assets, drop : SUBSET Assets,
   trash : SUBSET Assets, cut : BOOLEAN]

TypeOK ==
  /\ media \in [MediaIds -> Media]
  /\ rows \in [Assets -> Rows]
  /\ finals \subseteq Assets
  /\ staged \subseteq Requests /\ active \subseteq Requests
  /\ req \in [Requests -> Handlers]
  /\ sweep \in [pc : {"idle", "stale", "files"}, stale : SUBSET Requests, doomed : SUBSET Assets]
  /\ spoilt \subseteq MediaIds /\ stray \subseteq MediaIds

Readable(m) ==
  \A a \in BlobIds(media[m]) : /\ a \in finals
                               /\ rows[a].status = "final" /\ rows[a].media = m

\* Whatever a media or its draft refers to is there and is served, through
\* replacements, commits, duplications, deletions, failures, crashes and sweeps
\* in any order (BLC-MEDIA-013, BLC-MEDIA-016, BLC-MAST-014).  Two ways to lose
\* it are in the code, and these are all: a sweep of orphans that runs while
\* the media is created, and a write whose answer is lost.
PublishedIsReadable == \A m \in MediaIds \ spoilt : Readable(m)

\* Assets belong to the team of their media (BLC-MAST-001), so whoever may read
\* a media may read its files; except if the media was moved while a request
\* that had read its former owner was storing files for it.
OwnersAgree ==
  \A m \in MediaIds \ (stray \union spoilt) :
    \A a \in BlobIds(media[m]) : rows[a].owner = media[m].owner

\* When every request has come to its end, failed or not, no handler was dropped
\* or killed and no sweep interfered, there is no file without a record, no
\* record that no media refers to, and nothing staged (BLC-MAST-012, BLC-MAST-014).
NothingLeftOver ==
  (\A r \in Requests : req[r].pc \in Over /\ ~req[r].cut) /\ spoilt = {} =>
    /\ staged = {}
    /\ \A a \in Assets : /\ a \in finals <=> rows[a] # NoRow
                         /\ rows[a] # NoRow => a \in BlobIds(media[rows[a].media])
=============================================================================
