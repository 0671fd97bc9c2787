------------------------- MODULE MediaAssetsProofs --------------------------
(***************************************************************************)
(* What MediaAssets keeps for any media, any requests and any pages.       *)
(*                                                                         *)
(* Two kinds of assets are to be kept: those a media refers to (AllKept)   *)
(* and those a request has made for a media that is there (Ready).  An     *)
(* asset that is about to be removed is marked (Unmarked says it is not);  *)
(* one nobody may miss is LooseFor them.  Frame: a step that takes only    *)
(* such assets away keeps what it does not write itself.                   *)
(*                                                                         *)
(* Whose the assets are (OInv) comes on top: a step that removes records   *)
(* cannot have removed those that IInv' still finds there.                 *)
(*                                                                         *)
(* What is left over (NInv) comes on top as well: as long as nothing       *)
(* disturbs (Undisturbed), whatever is stored is Accounted for by a media  *)
(* or by a request that will remove it, and every step is Tidy.            *)
(***************************************************************************)
EXTENDS MediaAssets, FiniteSetTheorems, TLAPS

Fresh(r) == req[r].pc \in Running \union {"idle"}

\* Assets that a handler is going to remove.
Pending(v) == v.drop \union (IF v.pc = "purging" THEN {} ELSE v.trash)

Unmarked(a) == a \notin sweep.doomed /\ \A q \in Requests : a \notin Pending(req[q])

Kept(a, m) == /\ a \in finals /\ rows[a].status = "final" /\ rows[a].media = m
              /\ Unmarked(a)

AllKept == \A m \in MediaIds \ spoilt : \A a \in BlobIds(media[m]) : Kept(a, m)

Apart == \A m, n \in MediaIds : m # n => BlobIds(media[m]) \intersect BlobIds(media[n]) = {}

Absent == \A m \in MediaIds : ~Exists(m) => media[m] = NoMedia

Blank == \A a \in Assets : rows[a] = NoRow \/ rows[a].media \in MediaIds

\* Nobody knows a request's assets before it has published them.
Unused(r) ==
  Fresh(r) =>
    /\ ~Exists(r)
    /\ \A m \in MediaIds : \A a \in BlobIds(media[m]) : a[1] # r
    /\ \A a \in Assets : a[1] = r /\ a \notin req[r].made =>
         /\ Unmarked(a)
         /\ \/ rows[a].status = "none"
            \/ /\ a = Upload(r) /\ req[r].op = "upload"
               /\ rows[a].status = "staging" /\ rows[a].media = req[r].m

\* The media that the request works on is there, or will be.
Wanted(r) == req[r].m \notin spoilt /\ (req[r].op \in Creating \/ Exists(req[r].m))

Ready(r) ==
  req[r].pc \in Running /\ Wanted(r) =>
    /\ \A a \in req[r].made : Kept(a, req[r].m)
    /\ req[r].busy \subseteq finals

Editing == {"begin", "commit", "update", "delete"}

\* How a handler's record fits its program counter.
WellMade(r, v) ==
  /\ v.pc = "idle" => v = New
  /\ v.pc \in Running => v.drop = {} /\ v.trash = {} /\ v.m \in MediaIds
  /\ \A a \in v.made \union v.busy : a[1] = r
  /\ v.pc \in Running /\ v.op \in Creating =>
       v.m = r /\ v.seen.kind # "none" /\ v.seen.draft = NoDraft
  /\ v.pc \notin {"ingest", "copy", "promote"} => v.made = {} /\ v.busy = {}
  /\ v.pc \in {"uploading", "staged", "promote"} => v.op = "upload"
  /\ v.pc = "ingest" => v.op \in {"create", "upload"}
  /\ v.pc = "copy" <=> v.op = "duplicate"
  /\ v.pc = "promote" => v.busy \union v.made \subseteq {Upload(r)} /\ (v.busy = {} \/ v.made = {})
  /\ v.pc = "copy" => Cardinality(v.made) + Cardinality(v.busy) + Cardinality(v.pick) <= MaxPages
  /\ v.op = "upload" => v.pick \subseteq DraftPages(v.seen)
  /\ v.op = "commit" => v.pick \subseteq v.seen.draft.pages
  /\ v.pc = "write" <=> v.op \in Editing
  /\ v.op \in Creating \union {"upload"} => v.pc \in Running
  /\ v.pc = "purge" => v.m \in MediaIds

\* Nobody works on a media before it has been made.
Target(r) ==
  /\ req[r].pc \in Running /\ req[r].op \notin Creating /\ req[r].m \in Requests => ~Fresh(req[r].m)
  /\ req[r].pc = "purge" => /\ req[r].m \in spoilt \/ ~Exists(req[r].m)
                            /\ req[r].m \in Requests => ~Fresh(req[r].m)

StaleIsOver ==
  \A r \in sweep.stale : sweep.pc = "stale" =>
    req[r].pc = "done" /\ rows[Upload(r)].status # "final"

Whole == /\ AllKept /\ Apart /\ Absent /\ Blank /\ StaleIsOver
         /\ \A r \in Requests : Unused(r) /\ Ready(r) /\ WellMade(r, req[r]) /\ Target(r)

IInv == TypeOK /\ Whole

-----------------------------------------------------------------------------
(* Types.                                                                  *)

LEMMA AssetsFinite ==
  /\ MaxPages \in Nat /\ MaxPages > 0 /\ Requests \subseteq MediaIds /\ None \notin MediaIds
  /\ \A S \in SUBSET Assets : IsFiniteSet(S) /\ Cardinality(S) \in Nat
<1>1. MaxPages \in Nat /\ MaxPages > 0 /\ Requests \subseteq MediaIds /\ None \notin MediaIds
  BY MediaAssumption DEF MediaIds
<1>2. IsFiniteSet(0 .. MaxPages) /\ IsFiniteSet(MediaIds)
  BY <1>1, FS_Interval, MediaAssumption DEF MediaIds
<1>3. IsFiniteSet(Assets)
  BY <1>2, FS_Product DEF Assets
<1>4. \A S \in SUBSET Assets : IsFiniteSet(S)
  BY <1>3, FS_Subset
<1> QED BY <1>1, <1>4, FS_CardinalityType

LEMMA BlobsTyped ==
  /\ NoMedia \in Media /\ BlobIds(NoMedia) = {} /\ ~(NoMedia.kind # "none")
  /\ NoDraft \in Drafts
  /\ \A v \in Media : BlobIds(v) \subseteq Assets /\ DraftPages(v) \subseteq BlobIds(v)
<1>1. NoDraft \in Drafts /\ NoDraft.pages = {}
  BY DEF NoDraft, Drafts
<1>2. NoMedia \in Media /\ BlobIds(NoMedia) = {} /\ ~(NoMedia.kind # "none")
  BY <1>1 DEF NoMedia, Medium, Media, BlobIds, content_blob_ids
<1>3. ASSUME NEW v \in Media PROVE BlobIds(v) \subseteq Assets /\ DraftPages(v) \subseteq BlobIds(v)
  <2>1. v.content \in SUBSET Assets /\ v.draft.pages \in SUBSET Assets
    BY DEF Media, Drafts
  <2> QED BY <2>1 DEF BlobIds, content_blob_ids, DraftPages
<1> QED BY <1>1, <1>2, <1>3

LEMMA AtTyped ==
  /\ New \in Handlers /\ New.pc = "idle" /\ New.made = {} /\ New.busy = {} /\ Pending(New) = {}
  /\ \A op \in Creating \union Editing \union {"none", "upload"}, pc \in Running \union Over,
        m \in MediaIds, seen \in Media :
       /\ At(op, pc, m, seen) \in Handlers /\ At(op, pc, m, seen).op = op
       /\ At(op, pc, m, seen).pc = pc /\ At(op, pc, m, seen).m = m
       /\ At(op, pc, m, seen).seen = seen /\ At(op, pc, m, seen).made = {}
       /\ At(op, pc, m, seen).busy = {} /\ At(op, pc, m, seen).drop = {}
       /\ At(op, pc, m, seen).trash = {} /\ At(op, pc, m, seen).pick = {}
<1>1. NoMedia \in Media
  BY BlobsTyped
<1>2. /\ New \in Handlers /\ New.pc = "idle" /\ New.made = {} /\ New.busy = {}
      /\ New.drop = {} /\ New.trash = {}
  BY <1>1 DEF New, Handlers, Over
<1>3. Pending(New) = {}
  BY <1>2 DEF Pending
<1>4. ASSUME NEW op \in Creating \union Editing \union {"none", "upload"},
             NEW pc \in Running \union Over, NEW m \in MediaIds, NEW seen \in Media
      PROVE  /\ At(op, pc, m, seen) \in Handlers /\ At(op, pc, m, seen).op = op
             /\ At(op, pc, m, seen).pc = pc /\ At(op, pc, m, seen).m = m
             /\ At(op, pc, m, seen).seen = seen /\ At(op, pc, m, seen).made = {}
             /\ At(op, pc, m, seen).busy = {} /\ At(op, pc, m, seen).drop = {}
             /\ At(op, pc, m, seen).trash = {} /\ At(op, pc, m, seen).pick = {}
  BY DEF At, New, Handlers, Editing
<1> QED BY <1>2, <1>3, <1>4

\* A handler that only has these rows left, or is over.
LEMMA CleaningTyped ==
  ASSUME NEW trash \in SUBSET Assets, NEW cut \in BOOLEAN
  PROVE  /\ Cleaning(trash, cut) \in Handlers
         /\ Cleaning(trash, cut).pc \in {"done", "cleaning"}
         /\ Cleaning(trash, cut).op = "none" /\ Cleaning(trash, cut).made = {}
         /\ Cleaning(trash, cut).busy = {} /\ Pending(Cleaning(trash, cut)) = trash
<1>1. NoMedia \in Media
  BY BlobsTyped
<1> QED BY <1>1 DEF Cleaning, New, Handlers, Over, Pending

LEMMA GoTyped ==
  ASSUME TypeOK, NEW r \in Requests, NEW v \in Handlers, Go(r, v)
  PROVE  /\ req' \in [Requests -> Handlers]
         /\ req'[r] = v /\ \A q \in Requests \ {r} : req'[q] = req[q]
BY DEF TypeOK, Go

-----------------------------------------------------------------------------
(* What a step may take away.                                              *)

\* Nobody in Q may miss the asset: no media refers to it, and it is not kept
\* for a request that still has a media to write it to.
LooseFor(Q, a) == /\ \A m \in MediaIds \ spoilt : a \notin BlobIds(media[m])
                  /\ \A q \in Q : Fresh(q) /\ a[1] = q => a \in req[q].made /\ ~Wanted(q)

LEMMA LooseOwn ==
  ASSUME Whole, NEW r \in Requests, NEW a \in Assets, a[1] = r,
         Fresh(r) \/ rows[a].status # "final"
  PROVE  LooseFor(Requests \ {r}, a)
<1>1. ASSUME NEW m \in MediaIds \ spoilt, a \in BlobIds(media[m]) PROVE FALSE
  <2>1. CASE Fresh(r)
    BY <1>1, <2>1 DEF Whole, Unused
  <2>2. CASE rows[a].status # "final"
    BY <1>1, <2>2 DEF Whole, AllKept, Kept
  <2> QED BY <2>1, <2>2
<1> QED BY <1>1 DEF LooseFor

LEMMA LooseMarked ==
  ASSUME Whole, NEW a \in Assets, ~Unmarked(a)
  PROVE  LooseFor(Requests, a)
<1>1. ASSUME NEW m \in MediaIds \ spoilt, a \in BlobIds(media[m]) PROVE FALSE
  BY <1>1 DEF Whole, AllKept, Kept
<1>2. ASSUME NEW q \in Requests, Fresh(q), a[1] = q PROVE a \in req[q].made /\ ~Wanted(q)
  <2>1. a \in req[q].made
    BY <1>2 DEF Whole, Unused
  <2>2. req[q].pc # "idle"
    BY <2>1 DEF Whole, WellMade, New
  <2>3. req[q].pc \in Running
    BY <1>2, <2>2 DEF Fresh
  <2>4. ASSUME Wanted(q) PROVE FALSE
    BY <2>1, <2>3, <2>4 DEF Whole, Ready, Kept
  <2> QED BY <2>1, <2>4
<1> QED BY <1>1, <1>2 DEF LooseFor

\* A record stays, or is removed and was not that of a final asset.
SameRow(a) == \/ rows'[a].status = rows[a].status /\ rows'[a].media = rows[a].media
              \/ rows[a].status # "final" /\ rows'[a].status = "none"

Stays(a) == (a \in finals => a \in finals') /\ SameRow(a) /\ (Unmarked(a) => Unmarked(a)')

\* Apart from media outside N and requests outside Q, a step takes away nothing
\* but what is in T, and T is loose.
Takes(N, Q, T) ==
  /\ N \subseteq MediaIds /\ Q \subseteq Requests /\ T \subseteq Assets
  /\ spoilt \subseteq spoilt'
  /\ \A m \in N : media'[m] = media[m]
  /\ \A q \in Q : req'[q] = req[q]
  /\ \A a \in Assets \ T : Stays(a)
  /\ \A a \in T : /\ \A m \in N \ spoilt' : a \notin BlobIds(media[m])
                 /\ \A q \in Q : Fresh(q) /\ a[1] = q => a \in req[q].made /\ ~Wanted(q)'

\* The media outside N are none of the business of the requests in Q.
Aside(N, Q) ==
  \A m \in MediaIds \ N : \A q \in Q :
    /\ Fresh(q) => m # q /\ \A a \in BlobIds(media'[m]) : a[1] # q
    /\ req[q].pc \in Running /\ req[q].m = m /\ media'[m].kind # "none" =>
         Exists(m) \/ req[q].op \in Creating

LEMMA TypeFacts ==
  ASSUME TypeOK
  PROVE  /\ \A m \in MediaIds : media[m] \in Media /\ BlobIds(media[m]) \subseteq Assets
         /\ \A q \in Requests : /\ req[q] \in Handlers
                                /\ req[q].made \union req[q].busy \subseteq Assets
                                /\ Pending(req[q]) \subseteq Assets
BY BlobsTyped DEF TypeOK, Handlers, Pending

LEMMA Frame ==
  ASSUME TypeOK, Whole, NEW N, NEW Q, NEW T, Takes(N, Q, T), Aside(N, Q)
  PROVE  /\ \A m \in N \ spoilt' : \A a \in BlobIds(media'[m]) : Kept(a, m)'
         /\ \A q \in Q : Unused(q)' /\ Ready(q)'
<1>a. /\ N \subseteq MediaIds /\ Q \subseteq Requests /\ T \subseteq Assets
      /\ spoilt \subseteq spoilt'
      /\ \A m \in N : media'[m] = media[m]
      /\ \A q \in Q : req'[q] = req[q]
  BY DEF Takes
<1>e. /\ \A m \in MediaIds : BlobIds(media[m]) \subseteq Assets
      /\ \A q \in Q : req[q].made \union req[q].busy \subseteq Assets
  BY <1>a, TypeFacts
<1>b. \A a \in Assets \ T : Stays(a)
  BY DEF Takes
<1>c. \A a \in T : /\ \A m \in N \ spoilt' : a \notin BlobIds(media[m])
                   /\ \A q \in Q : Fresh(q) /\ a[1] = q => a \in req[q].made /\ ~Wanted(q)'
  BY DEF Takes
<1>d. \A m \in MediaIds \ N : \A q \in Q :
        /\ Fresh(q) => m # q /\ \A a \in BlobIds(media'[m]) : a[1] # q
        /\ req[q].pc \in Running /\ req[q].m = m /\ media'[m].kind # "none" =>
             Exists(m) \/ req[q].op \in Creating
  BY DEF Aside
<1> USE <1>a, <1>e
<1>1. ASSUME NEW m \in N \ spoilt', NEW a \in BlobIds(media'[m]) PROVE Kept(a, m)'
  <2>1. a \in BlobIds(media[m]) /\ Kept(a, m) /\ a \in Assets \ T
    BY <1>1, <1>c DEF Whole, AllKept
  <2> QED BY <2>1, <1>b DEF Kept, SameRow, Stays
<1>2. ASSUME NEW q \in Q PROVE Unused(q)'
  <2> SUFFICES ASSUME Fresh(q)
               PROVE  /\ ~Exists(q)'
                      /\ \A m \in MediaIds : \A a \in BlobIds(media'[m]) : a[1] # q
                      /\ \A a \in Assets : a[1] = q /\ a \notin req[q].made =>
                           /\ Unmarked(a)'
                           /\ \/ rows'[a].status = "none"
                              \/ /\ a = Upload(q) /\ req[q].op = "upload"
                                 /\ rows'[a].status = "staging" /\ rows'[a].media = req[q].m
    BY DEF Unused, Fresh
  <2>1. Unused(q) /\ q \in MediaIds
    BY AssetsFinite DEF Whole
  <2>2. q \in N
    BY <2>1, <1>d
  <2>3. ~Exists(q)'
    BY <2>1, <2>2 DEF Unused, Exists
  <2>4. \A m \in MediaIds : \A a \in BlobIds(media'[m]) : a[1] # q
    BY <2>1, <1>d DEF Unused
  <2>5. ASSUME NEW a \in Assets, a[1] = q, a \notin req[q].made
        PROVE  /\ Unmarked(a)'
               /\ \/ rows'[a].status = "none"
                  \/ /\ a = Upload(q) /\ req[q].op = "upload"
                     /\ rows'[a].status = "staging" /\ rows'[a].media = req[q].m
    <3>1. a \notin T
      BY <2>5, <1>c
    <3> QED BY <2>1, <2>5, <3>1, <1>b DEF Unused, SameRow, Stays
  <2> QED BY <2>3, <2>4, <2>5
<1>3. ASSUME NEW q \in Q PROVE Ready(q)'
  <2> SUFFICES ASSUME req[q].pc \in Running, Wanted(q)'
               PROVE  (\A a \in req[q].made : Kept(a, req[q].m)') /\ req[q].busy \subseteq finals'
    BY DEF Ready, Kept, Unmarked
  <2>1. Fresh(q) /\ WellMade(q, req[q]) /\ Ready(q)
    BY DEF Whole, Fresh
  <2>2. Wanted(q)
    <3>1. req[q].m \in MediaIds /\ req[q].m \notin spoilt
      BY <2>1 DEF Wanted, WellMade
    <3>2. req[q].op \in Creating \/ Exists(req[q].m)'
      BY DEF Wanted
    <3>3. req[q].op \in Creating \/ Exists(req[q].m)
      BY <3>1, <3>2, <1>d DEF Exists
    <3> QED BY <3>1, <3>3 DEF Wanted
  <2>3. ASSUME NEW a \in req[q].made PROVE Kept(a, req[q].m)'
    <3>1. a \in Assets /\ a[1] = q /\ Kept(a, req[q].m)
      BY <2>1, <2>2 DEF WellMade, Ready
    <3>2. a \notin T
      BY <2>1, <3>1, <1>c
    <3> QED BY <3>1, <3>2, <1>b DEF Kept, SameRow, Stays
  <2>4. ASSUME NEW a \in req[q].busy PROVE a \in finals'
    <3>1. a \in Assets /\ a[1] = q /\ a \in finals
      BY <2>1, <2>2 DEF WellMade, Ready
    <3>2. a \notin T
      BY <2>1, <3>1, <1>c
    <3> QED BY <3>1, <3>2, <1>b DEF Stays
  <2> QED BY <2>3, <2>4
<1> QED BY <1>1, <1>2, <1>3

-----------------------------------------------------------------------------
(* A step of one request.                                                  *)

LEMMA Marks ==
  ASSUME NEW r \in Requests, NEW T \in SUBSET Assets, sweep' = sweep,
         \A q \in Requests \ {r} : req'[q] = req[q],
         Pending(req'[r]) \subseteq Pending(req[r]) \union T
  PROVE  \A a \in Assets \ T : Unmarked(a) => Unmarked(a)'
BY DEF Unmarked

\* Nothing another request knows of its target changes.
OnlyMine(r) ==
  /\ spoilt \subseteq spoilt'
  /\ \A q \in Requests \ {r} : req'[q] = req[q]
  /\ req'[r].pc \in Running \union {"idle"} => Fresh(r)
  /\ \A m \in MediaIds : media'[m].kind # "none" => Exists(m) \/ (m = r /\ Fresh(r))

LEMMA OthersTarget ==
  ASSUME Whole, NEW r \in Requests, OnlyMine(r)
  PROVE  \A q \in Requests \ {r} : WellMade(q, req'[q]) /\ Target(q)'
<1>a. /\ spoilt \subseteq spoilt'
      /\ \A q \in Requests \ {r} : req'[q] = req[q]
      /\ req'[r].pc \in Running \union {"idle"} => Fresh(r)
  BY DEF OnlyMine
<1>b. \A m \in MediaIds : media'[m].kind # "none" => Exists(m) \/ (m = r /\ Fresh(r))
  BY DEF OnlyMine
<1> USE <1>a
<1> SUFFICES ASSUME NEW q \in Requests \ {r} PROVE Target(q)'
  BY DEF Whole
<1>1. Target(q) /\ WellMade(q, req[q]) /\ req'[q] = req[q]
  BY DEF Whole
<1>2. \A x \in Requests : Fresh(x)' => Fresh(x)
  BY DEF Fresh
<1>3. req[q].pc = "purge" => req[q].m \in MediaIds
  BY <1>1 DEF WellMade
<1>4. ASSUME req[q].pc = "purge" PROVE req[q].m \in spoilt' \/ ~Exists(req[q].m)'
  <2>1. req[q].m \in spoilt \/ ~Exists(req[q].m)
    BY <1>1, <1>4 DEF Target
  <2>2. req[q].m = r => ~Fresh(r)
    BY <1>1, <1>4 DEF Target
  <2> QED BY <1>3, <1>4, <2>1, <2>2, <1>b DEF Exists
<1>5. req[q].m \in Requests /\ ~Fresh(req[q].m) => ~Fresh(req[q].m)'
  BY <1>2
<1>6. req'[q].m = req[q].m /\ req'[q].pc = req[q].pc /\ req'[q].op = req[q].op
  BY <1>1
<1> QED BY <1>1, <1>4, <1>5, <1>6 DEF Target, Fresh, Exists

LEMMA StaleKept ==
  ASSUME Whole, TypeOK, sweep' = sweep,
         \A q \in Requests : req[q].pc = "done" => req'[q].pc = "done"
                              /\ (rows'[Upload(q)].status = "final" => rows[Upload(q)].status = "final")
  PROVE  StaleIsOver'
<1> SUFFICES ASSUME NEW q \in sweep.stale, sweep.pc = "stale"
             PROVE  req'[q].pc = "done" /\ rows'[Upload(q)].status # "final"
  BY DEF StaleIsOver, Upload
<1>1. q \in Requests
  BY DEF TypeOK
<1> QED BY <1>1 DEF Whole, StaleIsOver

\* A step that neither writes media nor sweeps: what it takes away is loose.
LEMMA RequestStep ==
  ASSUME TypeOK, Whole, NEW r \in Requests, NEW T \in SUBSET Assets,
         media' = media, spoilt' = spoilt, sweep' = sweep,
         \A q \in Requests \ {r} : req'[q] = req[q],
         req[r].pc # "done", Fresh(r)' => Fresh(r),
         Pending(req'[r]) \subseteq Pending(req[r]) \union T,
         \A a \in Assets \ T : (a \in finals => a \in finals') /\ SameRow(a),
         \A a \in T : LooseFor(Requests \ {r}, a),
         \A a \in Assets : rows'[a].status = "final" => rows[a].status = "final" \/ a[1] = r,
         Blank', Unused(r)', Ready(r)', WellMade(r, req'[r]), Target(r)'
  PROVE  Whole'
<1> DEFINE Q == Requests \ {r}
<1>1. \A a \in Assets \ T : Stays(a)
  BY Marks DEF Stays
<1>2. \A q \in Q : Wanted(q)' <=> Wanted(q)
  BY DEF Wanted, Exists
<1>3. \A a \in T : /\ \A m \in MediaIds \ spoilt' : a \notin BlobIds(media[m])
                   /\ \A q \in Q : Fresh(q) /\ a[1] = q => a \in req[q].made /\ ~Wanted(q)'
  BY <1>2 DEF LooseFor
<1>4. /\ \A m \in MediaIds \ spoilt' : \A a \in BlobIds(media'[m]) : Kept(a, m)'
      /\ \A q \in Q : Unused(q)' /\ Ready(q)'
  <2>1. Takes(MediaIds, Q, T)
    BY <1>1, <1>3 DEF Takes
  <2>2. Aside(MediaIds, Q)
    BY DEF Aside
  <2> HIDE DEF Q
  <2> QED BY <2>1, <2>2, Frame
<1>5. AllKept' /\ Apart' /\ Absent'
  BY <1>4 DEF Whole, AllKept, Apart, Absent, Exists
<1>6. \A q \in Q : WellMade(q, req'[q]) /\ Target(q)'
  <2>1. OnlyMine(r)
    <3>1. req'[r].pc \in Running \union {"idle"} => Fresh(r)
      BY DEF Fresh
    <3>2. \A m \in MediaIds : media'[m].kind # "none" => Exists(m)
      BY DEF Exists
    <3> QED BY <3>1, <3>2 DEF OnlyMine
  <2> QED BY <2>1, OthersTarget
<1>7. StaleIsOver'
  <2>1. \A q \in Requests : req[q].pc = "done" => q # r /\ Upload(q) \in Assets /\ Upload(q)[1] = q
    BY AssetsFinite DEF Upload, Assets
  <2> QED BY <2>1, StaleKept
<1> QED BY <1>4, <1>5, <1>6, <1>7 DEF Whole

\* The request ends and writes a media: what it refers to afterwards was there
\* before or has been made by the request, and nothing of it is taken away.
Publishes(r, m, w, T) ==
  /\ media' = [media EXCEPT ![m] = w] /\ sweep' = sweep /\ spoilt \subseteq spoilt'
  /\ \A q \in Requests \ {r} : req'[q] = req[q]
  /\ req'[r].pc \notin Running \union {"idle"} /\ Pending(req'[r]) \subseteq T
  /\ \A a \in Assets : rows'[a].status = rows[a].status /\ rows'[a].media = rows[a].media
  /\ \A a \in Assets \ T : a \in finals => a \in finals'
  /\ \A a \in T : a \in BlobIds(media[m]) \/ a[1] = r
  /\ BlobIds(w) \subseteq BlobIds(media[m]) \union req[r].made
  /\ m \in spoilt' \/ (BlobIds(w) \intersect T = {}
                       /\ \A a \in BlobIds(w) \intersect req[r].made : Kept(a, m))
  /\ Exists(m) \/ m = r
  /\ w.kind = "none" => w = NoMedia

LEMMA WriteStep ==
  ASSUME TypeOK, Whole, NEW r \in Requests, NEW m \in MediaIds, NEW w \in Media,
         NEW T \in SUBSET Assets, Publishes(r, m, w, T),
         Fresh(r), Blank', WellMade(r, req'[r]), Target(r)'
  PROVE  Whole'
<1>a. /\ media' = [media EXCEPT ![m] = w] /\ sweep' = sweep /\ spoilt \subseteq spoilt'
      /\ \A q \in Requests \ {r} : req'[q] = req[q]
      /\ req'[r].pc \notin Running \union {"idle"} /\ Pending(req'[r]) \subseteq T
      /\ \A a \in Assets : rows'[a].status = rows[a].status /\ rows'[a].media = rows[a].media
      /\ \A a \in Assets \ T : a \in finals => a \in finals'
      /\ \A a \in T : a \in BlobIds(media[m]) \/ a[1] = r
      /\ BlobIds(w) \subseteq BlobIds(media[m]) \union req[r].made
      /\ w.kind = "none" => w = NoMedia
  BY DEF Publishes
<1>b. m \in spoilt' \/ (BlobIds(w) \intersect T = {}
                        /\ \A a \in BlobIds(w) \intersect req[r].made : Kept(a, m))
  BY DEF Publishes
<1>c. Exists(m) \/ m = r
  BY DEF Publishes
<1> USE <1>a, <1>b, <1>c
<1> DEFINE N == MediaIds \ {m}
           Q == Requests \ {r}
<1>1. /\ N \subseteq MediaIds /\ Q \subseteq Requests /\ T \subseteq Assets
      /\ media'[m] = w /\ \A n \in N : media'[n] = media[n]
      /\ \A q \in Q : req'[q] = req[q] /\ q # r
      /\ \A n \in MediaIds : n = m \/ n \in N
  BY DEF TypeOK
<1>2. /\ \A n \in MediaIds : \A a \in BlobIds(media[n]) : a[1] # r /\ \A q \in Q : Fresh(q) => a[1] # q
      /\ \A a \in req[r].made : a[1] = r
      /\ \A q \in Requests : Fresh(q) => ~Exists(q)
  BY <1>1 DEF Whole, Unused, WellMade
<1>3. \A n \in N : BlobIds(media[m]) \intersect BlobIds(media[n]) = {}
  BY <1>1 DEF Whole, Apart
<1> HIDE DEF N, Q
<1>4. \A a \in Assets \ T : Stays(a)
  <2>1. \A a \in Assets \ T : Unmarked(a) => Unmarked(a)'
    BY Marks
  <2> QED BY <2>1 DEF Stays, SameRow
<1>5. Takes(N, Q, T)
  <2>1. ASSUME NEW a \in T
        PROVE  /\ \A n \in N \ spoilt' : a \notin BlobIds(media[n])
               /\ \A q \in Q : Fresh(q) /\ a[1] = q => a \in req[q].made /\ ~Wanted(q)'
    BY <1>1, <1>2, <1>3
  <2> QED BY <1>1, <1>4, <2>1 DEF Takes
<1>6. Aside(N, Q)
  <2> SUFFICES ASSUME NEW q \in Q
               PROVE  /\ Fresh(q) => m # q /\ \A a \in BlobIds(w) : a[1] # q
                      /\ req[q].pc \in Running /\ req[q].m = m => Exists(m) \/ req[q].op \in Creating
    BY <1>1 DEF Aside
  <2>1. ASSUME Fresh(q) PROVE m # q /\ \A a \in BlobIds(w) : a[1] # q
    BY <1>1, <1>2, <2>1
  <2>2. ASSUME req[q].pc \in Running, req[q].m = m, ~Exists(m), req[q].op \notin Creating PROVE FALSE
    BY <1>1, <2>2 DEF Whole, Target
  <2> QED BY <2>1, <2>2
<1>7. /\ \A n \in N \ spoilt' : \A a \in BlobIds(media'[n]) : Kept(a, n)'
      /\ \A q \in Q : Unused(q)' /\ Ready(q)'
  BY <1>5, <1>6, Frame
<1>8. ASSUME m \notin spoilt', NEW a \in BlobIds(w) PROVE Kept(a, m)'
  <2>1. Kept(a, m)
    BY <1>8 DEF Whole, AllKept
  <2>2. a \in Assets \ T
    BY <1>8, BlobsTyped
  <2> QED BY <2>1, <2>2, <1>4 DEF Kept, Stays, SameRow
<1>9. AllKept'
  BY <1>1, <1>7, <1>8 DEF AllKept
<1>10. Apart'
  BY <1>1, <1>2, <1>3 DEF Apart, Whole
<1>11. Absent'
  BY <1>1 DEF Absent, Whole, Exists
<1>12. \A q \in Q : WellMade(q, req'[q]) /\ Target(q)'
  <2>1. OnlyMine(r)
    <3>1. \A n \in MediaIds : media'[n].kind # "none" => Exists(n) \/ (n = r /\ Fresh(r))
      BY <1>1 DEF Exists
    <3> QED BY <3>1 DEF OnlyMine
  <2> QED BY <2>1, OthersTarget DEF Q
<1>13. StaleIsOver'
  <2>1. \A q \in Requests : req[q].pc = "done" => q # r /\ Upload(q) \in Assets
    BY AssetsFinite DEF Upload, Assets, Fresh, Running
  <2> QED BY <2>1, StaleKept
<1>14. Unused(r)' /\ Ready(r)'
  BY DEF Unused, Ready, Fresh
<1> QED BY <1>7, <1>9, <1>10, <1>11, <1>12, <1>13, <1>14 DEF Whole, Q

-----------------------------------------------------------------------------
(* Kinds of steps.                                                         *)

\* A handler that has only removals before it.
Ending(v) == /\ v \in Handlers /\ v.pc \in {"done", "dropping", "cleaning", "purging"}
             /\ v.op = "none" /\ v.made = {} /\ v.busy = {}

LEMMA EndingFits ==
  ASSUME NEW r \in Requests, NEW v, Ending(v), req'[r] = v
  PROVE  /\ WellMade(r, v) /\ Target(r)' /\ Unused(r)' /\ Ready(r)'
         /\ v.pc \notin Running \union {"idle"} /\ ~Fresh(r)'
<1>1. v.pc \notin Running \union {"idle"} /\ v.pc # "purge"
  BY DEF Ending, Running
<1>2. WellMade(r, v)
  BY <1>1 DEF Ending, WellMade, Running, Creating, Editing
<1>3. ~Fresh(r)'
  BY <1>1 DEF Fresh
<1>4. Target(r)' /\ Unused(r)' /\ Ready(r)'
  BY <1>1, <1>3 DEF Target, Unused, Ready
<1> QED BY <1>1, <1>2, <1>3, <1>4

\* It takes away what is loose.
LEMMA EndingStep ==
  ASSUME TypeOK, Whole, NEW r \in Requests, NEW v, Ending(v), Go(r, v), req[r].pc # "done",
         NEW T \in SUBSET Assets,
         media' = media, spoilt' = spoilt, sweep' = sweep,
         Pending(v) \subseteq Pending(req[r]) \union T,
         \A a \in Assets \ T : (a \in finals => a \in finals') /\ SameRow(a),
         \A a \in T : LooseFor(Requests \ {r}, a),
         \A a \in Assets : rows'[a].status = "final" => rows[a].status = "final" \/ a[1] = r,
         Blank'
  PROVE  Whole'
<1>1. v \in Handlers
  BY DEF Ending
<1>2. req'[r] = v /\ \A q \in Requests \ {r} : req'[q] = req[q]
  BY <1>1, GoTyped
<1>3. /\ WellMade(r, req'[r]) /\ Target(r)' /\ Unused(r)' /\ Ready(r)'
      /\ ~Fresh(r)'
  BY <1>2, EndingFits
<1> QED BY <1>2, <1>3, RequestStep

\* A request begins to work on a media that is there, or on its own.
LEMMA BeginningStep ==
  ASSUME TypeOK, Whole, NEW r \in Requests, NEW v \in Handlers, Begin(r, v),
         media' = media, rows' = rows, finals' = finals, spoilt' = spoilt, sweep' = sweep,
         v.pc \in Running, Pending(v) = {}, v.made = {}, v.busy = {}, WellMade(r, v),
         v.op \notin Creating => Exists(v.m)
  PROVE  Whole'
<1>1. Go(r, v) /\ req[r].pc = "idle"
  BY DEF Begin
<1>2. req'[r] = v /\ \A q \in Requests \ {r} : req'[q] = req[q]
  BY <1>1, GoTyped
<1>3. Fresh(r) /\ req[r] = New /\ Unused(r)
  BY <1>1 DEF Fresh, Whole, WellMade
<1>4. \A a \in Assets : Unmarked(a) => Unmarked(a)'
  BY <1>2, Marks
<1>5. Unused(r)'
  <2>1. /\ ~Exists(r)
        /\ \A m \in MediaIds : \A a \in BlobIds(media[m]) : a[1] # r
        /\ \A a \in Assets : a[1] = r => Unmarked(a) /\ rows[a].status = "none"
    BY <1>3 DEF Unused, New
  <2> QED BY <1>2, <1>4, <2>1 DEF Unused, Exists
<1>6. Ready(r)'
  BY <1>2 DEF Ready
<1>7. Target(r)'
  <2>1. \A x \in Requests : Exists(x) => x # r /\ ~Fresh(x)
    BY <1>3 DEF Whole, Unused
  <2>2. req'[r].pc # "purge"
    BY <1>2 DEF Running
  <2> QED BY <1>2, <2>1, <2>2 DEF Target, Fresh
<1>8. Blank'
  BY DEF Whole, Blank
<1>9. \A a \in Assets : (a \in finals => a \in finals') /\ SameRow(a)
  BY DEF SameRow
<1> QED BY <1>1, <1>2, <1>3, <1>5, <1>6, <1>7, <1>8, <1>9, RequestStep

\* It goes on with it, and nothing is taken away.
LEMMA WorkingStep ==
  ASSUME TypeOK, Whole, NEW r \in Requests, NEW v \in Handlers, Go(r, v),
         req[r].pc \in Running, v.pc \in Running, v.op = req[r].op, v.m = req[r].m,
         media' = media, rows' = rows, spoilt' = spoilt, sweep' = sweep,
         finals \subseteq finals',
         Pending(v) = {}, v.made = req[r].made, v.busy \subseteq finals', WellMade(r, v)
  PROVE  Whole'
<1>2. req'[r] = v /\ \A q \in Requests \ {r} : req'[q] = req[q]
  BY GoTyped
<1>3. Fresh(r) /\ Unused(r) /\ Ready(r) /\ Target(r)
  BY DEF Fresh, Whole
<1>4. \A a \in Assets : Unmarked(a) => Unmarked(a)'
  BY <1>2, Marks
<1>5. Unused(r)'
  <2>1. /\ ~Exists(r)
        /\ \A m \in MediaIds : \A a \in BlobIds(media[m]) : a[1] # r
        /\ \A a \in Assets : a[1] = r /\ a \notin req[r].made =>
             /\ Unmarked(a)
             /\ \/ rows[a].status = "none"
                \/ /\ a = Upload(r) /\ req[r].op = "upload"
                   /\ rows[a].status = "staging" /\ rows[a].media = req[r].m
    BY <1>3 DEF Unused
  <2> QED BY <1>2, <1>4, <2>1 DEF Unused, Exists
<1>6. Ready(r)'
  <2> SUFFICES ASSUME Wanted(r)' PROVE \A a \in req[r].made : Kept(a, req[r].m)'
    BY <1>2 DEF Ready, Kept, Unmarked
  <2>1. Wanted(r)
    BY <1>2 DEF Wanted, Exists
  <2>2. \A a \in req[r].made : a \in Assets /\ Kept(a, req[r].m)
    BY <1>3, <2>1, TypeFacts DEF Ready
  <2> QED BY <1>2, <1>4, <2>2 DEF Kept
<1>7. Target(r)'
  BY <1>2, <1>3 DEF Target, Fresh, Running
<1>8. Blank'
  BY DEF Whole, Blank
<1>9. \A a \in Assets : (a \in finals => a \in finals') /\ SameRow(a)
  BY DEF SameRow
<1>10. req[r].pc # "done"
  BY DEF Running
<1> QED BY <1>2, <1>3, <1>5, <1>6, <1>7, <1>8, <1>9, <1>10, RequestStep

\* It gives up: what it made goes, and nobody else knows of it.
Own(r) == req[r].made \union req[r].busy \union StagingRow(r)

LEMMA OwnTyped ==
  ASSUME TypeOK, Whole, NEW r \in Requests
  PROVE  Own(r) \subseteq Assets /\ StagingRow(r) \subseteq Assets /\ \A a \in Own(r) : a[1] = r
<1>1. Upload(r) \in Assets /\ Upload(r)[1] = r
  BY AssetsFinite DEF Upload, Assets
<1> QED BY <1>1, TypeFacts DEF Own, StagingRow, Whole, WellMade

LEMMA AbortTyped ==
  ASSUME TypeOK, Whole, NEW r \in Requests, NEW cut \in BOOLEAN, Abort(r, cut)
  PROVE  /\ finals \ Own(r) \subseteq finals' /\ finals' \subseteq finals
         /\ staged' \subseteq staged
         /\ req' \in [Requests -> Handlers] /\ \A q \in Requests \ {r} : req'[q] = req[q]
         /\ req'[r].pc \notin Running \union {"idle"} /\ Pending(req'[r]) \subseteq Own(r)
         /\ WellMade(r, req'[r])
         /\ req'[r].pc = "purge" => req[r].op = "duplicate" /\ req'[r].m = r
<1>1. CASE req[r].op = "duplicate"
  <2> DEFINE v == [New EXCEPT !.pc = "purge", !.m = r, !.cut = cut]
  <2>1. finals' = finals \ req[r].busy /\ staged' = staged /\ Go(r, v)
    BY <1>1 DEF Abort
  <2>2. /\ v \in Handlers /\ v.pc = "purge" /\ v.m = r /\ v.op = "none"
        /\ v.made = {} /\ v.busy = {} /\ Pending(v) = {}
    BY AtTyped, AssetsFinite DEF New, Handlers, Pending
  <2> HIDE DEF v
  <2>3. req'[r] = v /\ req' \in [Requests -> Handlers] /\ \A q \in Requests \ {r} : req'[q] = req[q]
    BY <2>1, <2>2, GoTyped
  <2>4. WellMade(r, v)
    BY <2>2, AssetsFinite DEF WellMade, Running, Creating, Editing
  <2> QED BY <1>1, <2>1, <2>2, <2>3, <2>4 DEF Own, Running
<1>2. CASE req[r].op # "duplicate"
  <2> DEFINE trash == req[r].made \union StagingRow(r)
             v == Cleaning(trash, cut)
  <2>1. /\ finals' = finals \ (req[r].made \union req[r].busy)
        /\ staged' = staged \ {r} /\ Go(r, v)
    BY <1>2 DEF Abort, Unwind
  <2>2. trash \in SUBSET Assets /\ trash \subseteq Own(r)
    BY OwnTyped DEF Own
  <2> HIDE DEF trash
  <2>3. /\ Ending(v) /\ Pending(v) = trash /\ v \in Handlers
    <3>1. /\ v \in Handlers /\ v.pc \in {"done", "cleaning"} /\ v.op = "none"
          /\ v.made = {} /\ v.busy = {} /\ Pending(v) = trash
      BY <2>2, CleaningTyped
    <3> QED BY <3>1 DEF Ending
  <2> HIDE DEF v
  <2>4. req'[r] = v /\ req' \in [Requests -> Handlers] /\ \A q \in Requests \ {r} : req'[q] = req[q]
    BY <2>1, <2>3, GoTyped
  <2>5. WellMade(r, v) /\ v.pc \notin Running \union {"idle"} /\ v.pc # "purge"
    BY <2>3, <2>4, EndingFits DEF Ending
  <2> QED BY <2>1, <2>2, <2>3, <2>4, <2>5 DEF Own
<1> QED BY <1>1, <1>2

\* The write of a media, whether its answer arrives or not.
LEMMA WritingStep ==
  ASSUME TypeOK, Whole, NEW r \in Requests, NEW w \in Media, NEW next, Write(r, w, next),
         req[r].pc \in Running, req[r].busy = {},
         req[r].op \in Creating \/ Exists(req[r].m),
         req[r].op \in Creating => req[r].made # {},
         BlobIds(w) \subseteq BlobIds(media[req[r].m]) \union req[r].made,
         Pending(next) \subseteq BlobIds(media[req[r].m]),
         BlobIds(w) \intersect Pending(next) = {},
         w.kind = "none" => w = NoMedia,
         \/ Ending(next)
         \/ /\ next \in Handlers /\ WellMade(r, next) /\ next.pc = "purge"
            /\ next.m = req[r].m /\ w = NoMedia /\ req[r].op \notin Creating,
         active' = active, sweep' = sweep, stray' \in SUBSET MediaIds
  PROVE  TypeOK' /\ Whole'
<1>0. PICK m \in MediaIds : m = req[r].m
  BY DEF Whole, WellMade
<1> DEFINE made == req[r].made
<1>1. /\ Fresh(r) /\ Unused(r) /\ Ready(r) /\ Target(r) /\ WellMade(r, req[r])
      /\ m \in MediaIds /\ (Exists(m) \/ m = r) /\ made \subseteq Assets
      /\ m = req[r].m
  BY <1>0, TypeFacts DEF Fresh, Whole, WellMade
<1>2. /\ media' = [media EXCEPT ![m] = w]
      /\ rows' = IF Exists(m) /\ w # NoMedia THEN Owned(m, w.owner) ELSE rows
  BY <1>0 DEF Write, Put
<1>3. /\ rows' \in [Assets -> Rows]
      /\ \A a \in Assets : rows'[a].status = rows[a].status /\ rows'[a].media = rows[a].media
  <2>1. rows \in [Assets -> Rows] /\ w.owner \in Teams \union {None}
    BY DEF TypeOK, Media
  <2>2. /\ Owned(m, w.owner) \in [Assets -> Rows]
        /\ \A a \in Assets : /\ Owned(m, w.owner)[a].status = rows[a].status
                             /\ Owned(m, w.owner)[a].media = rows[a].media
    BY <2>1 DEF Owned, Rows
  <2> QED BY <1>2, <2>1, <2>2
<1>4. Blank'
  <2>1. ASSUME NEW a \in Assets PROVE rows'[a] = NoRow \/ rows'[a].media \in MediaIds
    <3>1. CASE rows[a].media \in MediaIds
      BY <1>3, <3>1
    <3>2. CASE rows[a] = NoRow
      <4>1. rows[a].media # m
        BY <1>1, <3>2, AssetsFinite DEF NoRow, Row
      <4> QED BY <1>2, <3>2, <4>1 DEF Owned
    <3> QED BY <3>1, <3>2 DEF Whole, Blank
  <2> QED BY <2>1 DEF Blank
<1>5. \A a \in BlobIds(w) : m \notin spoilt =>
        /\ a \in made => Kept(a, m)
        /\ a[1] = r => a \in made
  BY <1>1 DEF Ready, Wanted, Unused
<1>6. CASE Go(r, next) /\ UNCHANGED <<finals, staged, spoilt>>
  <2>1. next \in Handlers
    BY DEF Ending
  <2>2. /\ req' \in [Requests -> Handlers]
        /\ req'[r] = next /\ \A q \in Requests \ {r} : req'[q] = req[q]
    BY <1>6, <2>1, GoTyped
  <2>3. WellMade(r, next) /\ next.pc \notin Running \union {"idle"}
    <3>1. CASE Ending(next)
      BY <2>2, <3>1, EndingFits
    <3> QED BY <3>1 DEF Running
  <2>4. Target(r)'
    <3>1. CASE Ending(next)
      BY <2>2, <3>1, EndingFits
    <3>2. CASE next.pc = "purge" /\ next.m = m /\ w = NoMedia /\ req[r].op \notin Creating
      <4>0. media'[m] = NoMedia
        BY <1>1, <1>2, <3>2 DEF TypeOK
      <4>1. ~Exists(m)'
        BY <4>0, BlobsTyped DEF Exists
      <4>2. m \in Requests => m # r /\ ~Fresh(m)
        BY <1>1, <3>2 DEF Target
      <4> QED BY <2>2, <3>2, <4>1, <4>2 DEF Target, Fresh, Running
    <3> QED BY <1>0, <3>1, <3>2
  <2>5. Pending(next) \in SUBSET Assets
    BY <1>1, TypeFacts
  <2>6. Whole'
    <3> DEFINE T == Pending(next)
    <3>1. /\ Pending(req'[r]) \subseteq T /\ req'[r].pc \notin Running \union {"idle"}
          /\ \A a \in Assets \ T : a \in finals => a \in finals'
          /\ \A a \in T : a \in BlobIds(media[m]) \/ a[1] = r
          /\ m \in spoilt' \/ (BlobIds(w) \intersect T = {}
                               /\ \A a \in BlobIds(w) \intersect made : Kept(a, m))
          /\ spoilt \subseteq spoilt'
      BY <1>0, <1>5, <1>6, <2>2, <2>3
    <3>2. WellMade(r, req'[r])
      BY <2>2, <2>3
    <3> HIDE DEF T
    <3>3. Publishes(r, m, w, T)
      BY <1>0, <1>1, <1>2, <1>3, <2>2, <3>1 DEF Publishes
    <3> QED BY <1>1, <1>4, <2>4, <2>5, <3>2, <3>3, WriteStep DEF T
  <2> QED BY <1>1, <1>2, <1>3, <1>6, <2>2, <2>6 DEF TypeOK
<1>7. CASE Abort(r, TRUE) /\ spoilt' = spoilt \union {x \in {m} : made # {}}
  <2> DEFINE T == Own(r)
  <2>1. /\ finals \ T \subseteq finals' /\ finals' \subseteq finals
        /\ staged' \subseteq staged
        /\ req' \in [Requests -> Handlers] /\ \A q \in Requests \ {r} : req'[q] = req[q]
        /\ req'[r].pc \notin Running \union {"idle"} /\ Pending(req'[r]) \subseteq T
        /\ WellMade(r, req'[r])
        /\ req'[r].pc = "purge" => req[r].op = "duplicate" /\ req'[r].m = r
    BY <1>7, AbortTyped
  <2>2. T \in SUBSET Assets /\ \A a \in T : a[1] = r
    BY OwnTyped
  <2>3. Target(r)'
    <3>1. ASSUME req'[r].pc = "purge" PROVE req'[r].m = r /\ r \in spoilt'
      BY <1>1, <1>7, <2>1, <3>1 DEF WellMade, Creating
    <3> QED BY <2>1, <3>1 DEF Target, Fresh
  <2>4. m \in spoilt' \/ (BlobIds(w) \intersect T = {}
                          /\ \A a \in BlobIds(w) \intersect made : Kept(a, m))
    <3> SUFFICES ASSUME made = {} PROVE BlobIds(w) \intersect T = {}
      BY <1>7
    <3> QED BY <1>1, <2>2 DEF Unused
  <2>5. spoilt \subseteq spoilt' /\ spoilt' \subseteq MediaIds
    BY <1>1, <1>7 DEF TypeOK
  <2>6. \A a \in Assets \ T : a \in finals => a \in finals'
    BY <2>1
  <2>7. \A a \in T : a \in BlobIds(media[m]) \/ a[1] = r
    BY <2>2
  <2>8. Whole'
    <3>1. /\ \A q \in Requests \ {r} : req'[q] = req[q]
          /\ req'[r].pc \notin Running \union {"idle"} /\ Pending(req'[r]) \subseteq T
          /\ WellMade(r, req'[r]) /\ T \in SUBSET Assets
      BY <2>1, <2>2
    <3> HIDE DEF T
    <3>2. Publishes(r, m, w, T)
      BY <1>0, <1>1, <1>2, <1>3, <2>4, <2>5, <2>6, <2>7, <3>1 DEF Publishes
    <3> QED BY <1>1, <1>4, <2>3, <3>1, <3>2, WriteStep
  <2> QED BY <1>1, <1>2, <1>3, <2>1, <2>5, <2>8 DEF TypeOK
<1> QED BY <1>0, <1>6, <1>7 DEF Write

-----------------------------------------------------------------------------
(* Bytes come in.                                                          *)

LEMMA BeginUploadKeeps ==
  ASSUME IInv, NEW r \in Requests, BeginUpload(r)
  PROVE  IInv'
<1>1. PICK m \in MediaIds :
        Exists(m) /\ Begin(r, At("upload", "uploading", m, [NoMedia EXCEPT !.owner = media[m].owner]))
  BY DEF BeginUpload
<1> DEFINE seen == [NoMedia EXCEPT !.owner = media[m].owner]
           v == At("upload", "uploading", m, seen)
<1>2. seen \in Media
  BY BlobsTyped DEF IInv, TypeOK, Media, NoMedia, Medium
<1> HIDE DEF seen
<1>3. /\ v \in Handlers /\ v.op = "upload" /\ v.pc = "uploading" /\ v.m = m /\ v.pick = {}
      /\ v.made = {} /\ v.busy = {} /\ v.drop = {} /\ v.trash = {}
  BY <1>2, AtTyped DEF Running
<1> HIDE DEF v
<1>4. WellMade(r, v) /\ Pending(v) = {} /\ v.pc \in Running /\ Exists(v.m)
  BY <1>1, <1>3 DEF WellMade, Pending, Running, Creating, Editing
<1>5. Begin(r, v)
  BY <1>1 DEF v, seen
<1>6. Whole'
  BY <1>3, <1>4, <1>5, BeginningStep DEF IInv, BeginUpload
<1>7. TypeOK'
  BY <1>3, <1>5, GoTyped DEF IInv, TypeOK, BeginUpload, Begin
<1> QED BY <1>6, <1>7 DEF IInv

LEMMA CreateStagingKeeps ==
  ASSUME IInv, NEW r \in Requests, create_staging(r)
  PROVE  IInv'
<1> DEFINE v == At("upload", "staged", req[r].m, NoMedia)
           T == {Upload(r)}
<1>1. /\ TypeOK /\ Whole /\ req[r] \in Handlers /\ WellMade(r, req[r]) /\ Fresh(r)
      /\ req[r].pc = "uploading" /\ req[r].pc \in Running /\ req[r].m \in MediaIds
      /\ req[r].op = "upload" /\ req[r].made = {} /\ req[r].busy = {}
  BY TypeFacts DEF IInv, create_staging, Whole, WellMade, Fresh, Running
<1>2. Go(r, v) /\ rows' = WithStaging(r)
      /\ UNCHANGED <<media, finals, staged, sweep, spoilt, stray>> /\ active' = active \ {r}
  BY DEF create_staging
<1>3. /\ v \in Handlers /\ v.op = "upload" /\ v.pc = "staged" /\ v.m = req[r].m /\ v.pick = {}
      /\ v.made = {} /\ v.busy = {} /\ v.drop = {} /\ v.trash = {}
  <2>1. req[r].m \in MediaIds /\ NoMedia \in Media
    BY <1>1, BlobsTyped
  <2>2. "upload" \in Creating \union Editing \union {"none", "upload"} /\ "staged" \in Running \union Over
    BY DEF Running
  <2> QED BY <2>1, <2>2, AtTyped
<1> HIDE DEF v
<1>4. WellMade(r, v) /\ Pending(v) = {} /\ v.pc \in Running
  BY <1>1, <1>3 DEF WellMade, Pending, Running, Creating, Editing
<1>5. /\ Upload(r) \in Assets /\ Upload(r)[1] = r
      /\ rows' \in [Assets -> Rows] /\ rows'[Upload(r)].status = "staging"
      /\ rows'[Upload(r)].media = req[r].m /\ \A a \in Assets \ T : rows'[a] = rows[a]
  <2>1. Upload(r) \in Assets /\ Upload(r)[1] = r
    BY AssetsFinite DEF Upload, Assets
  <2>2. req[r].seen.owner \in Teams \union {None} /\ rows \in [Assets -> Rows]
    BY <1>1 DEF Handlers, Media, TypeOK
  <2>3. Row("staging", req[r].m, req[r].seen.owner) \in Rows
    BY <1>1, <2>2 DEF Row, Rows
  <2> QED BY <1>2, <2>1, <2>2, <2>3 DEF WithStaging, Row
<1>6. req'[r] = v /\ (\A q \in Requests \ {r} : req'[q] = req[q]) /\ req' \in [Requests -> Handlers]
  BY <1>1, <1>2, <1>3, GoTyped
<1>7. /\ T \subseteq Assets /\ \A a \in T : LooseFor(Requests \ {r}, a)
      /\ \A a \in Assets \ T : (a \in finals => a \in finals') /\ SameRow(a)
      /\ \A a \in Assets : rows'[a].status = "final" => rows[a].status = "final" \/ a[1] = r
  BY <1>1, <1>2, <1>5, LooseOwn DEF SameRow
<1>8. Unused(r)'
  <2>1. /\ ~Exists(r)
        /\ \A m \in MediaIds : \A a \in BlobIds(media[m]) : a[1] # r
        /\ \A a \in Assets : a[1] = r => Unmarked(a)
        /\ \A a \in Assets : a[1] = r /\ a # Upload(r) => rows[a].status = "none"
    BY <1>1 DEF Whole, Unused
  <2>2. \A a \in Assets : Unmarked(a) => Unmarked(a)'
    BY <1>2, <1>4, <1>6, Marks
  <2> QED BY <1>2, <1>3, <1>5, <1>6, <2>1, <2>2 DEF Unused, Exists
<1>9. Ready(r)'
  BY <1>3, <1>6 DEF Ready
<1>10. Target(r)'
  BY <1>1, <1>2, <1>3, <1>6 DEF Target, Fresh, Running, Whole
<1>11. Blank'
  BY <1>1, <1>5 DEF Blank, Whole
<1>12. Fresh(r)' => Fresh(r)
  BY <1>1
<1>13. Whole'
  <2>1. WellMade(r, req'[r]) /\ Pending(req'[r]) \subseteq Pending(req[r]) \union T /\ req[r].pc # "done"
    BY <1>1, <1>4, <1>6
  <2> HIDE DEF T
  <2> QED BY <1>1, <1>2, <1>6, <1>7, <1>8, <1>9, <1>10, <1>11, <1>12, <2>1, RequestStep
<1> QED BY <1>1, <1>2, <1>5, <1>6, <1>13 DEF IInv, TypeOK

LEMMA ReadMediaKeeps ==
  ASSUME IInv, NEW r \in Requests, ReadMedia(r)
  PROVE  IInv'
<1>1. /\ TypeOK /\ Whole /\ req[r] \in Handlers /\ WellMade(r, req[r])
      /\ req[r].pc = "staged" /\ req[r].pc \in Running /\ req[r].m \in MediaIds
      /\ req[r].op = "upload" /\ req[r].made = {} /\ req[r].busy = {}
      /\ req[r].drop = {} /\ req[r].trash = {}
  BY TypeFacts DEF IInv, ReadMedia, Whole, WellMade, Running
<1>2. PICK pick \in SUBSET DraftPages(media[req[r].m]) :
        Go(r, [req[r] EXCEPT !.seen = media[req[r].m], !.pick = pick,
                 !.pc = IF media[req[r].m].kind = "av" THEN "promote" ELSE "ingest"])
  BY DEF ReadMedia
<1> DEFINE v == [req[r] EXCEPT !.seen = media[req[r].m], !.pick = pick,
                   !.pc = IF media[req[r].m].kind = "av" THEN "promote" ELSE "ingest"]
<1>3. media[req[r].m] \in Media /\ pick \in SUBSET Assets /\ pick \subseteq DraftPages(media[req[r].m])
  BY <1>1, TypeFacts, BlobsTyped
<1>4. /\ v \in Handlers /\ v.op = "upload" /\ v.pc \in {"promote", "ingest"} /\ v.m = req[r].m
      /\ v.seen = media[req[r].m] /\ v.pick = pick
      /\ v.made = {} /\ v.busy = {} /\ v.drop = {} /\ v.trash = {}
  BY <1>1, <1>3 DEF Handlers, Running
<1>5. Go(r, v)
  BY <1>2
<1> HIDE DEF v
<1>6. WellMade(r, v) /\ Pending(v) = {} /\ v.pc \in Running
  BY <1>1, <1>3, <1>4 DEF WellMade, Pending, Running, Creating, Editing
<1>7. UNCHANGED <<media, rows, finals, staged, active, sweep, spoilt, stray>>
  BY DEF ReadMedia
<1>8. Whole'
  BY <1>1, <1>4, <1>5, <1>6, <1>7, WorkingStep
<1> QED BY <1>1, <1>4, <1>5, <1>7, <1>8, GoTyped DEF IInv, TypeOK

LEMMA CreateUploadedKeeps ==
  ASSUME IInv, NEW r \in Requests, create_uploaded(r)
  PROVE  IInv'
<1>1. PICK kind \in {"image", "av", "deck"}, title \in Titles, owner \in Teams :
        Begin(r, At("create", "ingest", r, Medium(kind, title, owner, {})))
  BY DEF create_uploaded
<1> DEFINE seen == Medium(kind, title, owner, {})
           v == At("create", "ingest", r, seen)
<1>2. seen \in Media /\ seen.kind # "none" /\ seen.draft = NoDraft
  BY BlobsTyped DEF Media, Medium
<1> HIDE DEF seen
<1>3. /\ v \in Handlers /\ v.op = "create" /\ v.pc = "ingest" /\ v.m = r /\ v.pick = {}
      /\ v.seen = seen /\ v.made = {} /\ v.busy = {} /\ v.drop = {} /\ v.trash = {}
  <2>1. r \in MediaIds /\ seen \in Media
    BY <1>2, AssetsFinite
  <2>2. "create" \in Creating \union Editing \union {"none", "upload"} /\ "ingest" \in Running \union Over
    BY DEF Running, Creating
  <2> QED BY <2>1, <2>2, AtTyped
<1> HIDE DEF v
<1>4. WellMade(r, v) /\ Pending(v) = {} /\ v.pc \in Running /\ v.op \in Creating
  BY <1>2, <1>3, AssetsFinite DEF WellMade, Pending, Running, Creating, Editing
<1>5. Begin(r, v)
  BY <1>1 DEF v, seen
<1>6. UNCHANGED <<media, rows, finals, staged, active, sweep, spoilt, stray>>
  BY DEF create_uploaded
<1>7. Whole'
  BY <1>3, <1>4, <1>5, <1>6, BeginningStep DEF IInv
<1> QED BY <1>3, <1>5, <1>6, <1>7, GoTyped DEF IInv, TypeOK, Begin

LEMMA DuplicateKeeps ==
  ASSUME IInv, NEW r \in Requests, duplicate(r)
  PROVE  IInv'
<1>1. PICK s \in MediaIds, title \in Titles, owner \in Teams :
        /\ Exists(s) /\ Cardinality(media[s].content) <= MaxPages
        /\ Begin(r, [At("duplicate", "copy", r, Medium(media[s].kind, title, owner, {}))
                       EXCEPT !.pick = media[s].content])
  BY DEF duplicate
<1> DEFINE seen == Medium(media[s].kind, title, owner, {})
           v == [At("duplicate", "copy", r, seen) EXCEPT !.pick = media[s].content]
<1>2. /\ seen \in Media /\ seen.kind # "none" /\ seen.draft = NoDraft
      /\ media[s].content \in SUBSET Assets
  <2>1. media[s] \in Media /\ media[s].kind # "none"
    BY <1>1 DEF IInv, TypeOK, Exists
  <2> QED BY <2>1, BlobsTyped DEF Media, Medium
<1> HIDE DEF seen
<1>3. /\ v \in Handlers /\ v.op = "duplicate" /\ v.pc = "copy" /\ v.m = r
      /\ v.pick = media[s].content
      /\ v.seen = seen /\ v.made = {} /\ v.busy = {} /\ v.drop = {} /\ v.trash = {}
  <2> DEFINE u == At("duplicate", "copy", r, seen)
  <2>1. /\ u \in Handlers /\ u.op = "duplicate" /\ u.pc = "copy" /\ u.m = r
        /\ u.seen = seen /\ u.made = {} /\ u.busy = {} /\ u.drop = {} /\ u.trash = {}
    BY <1>2, AtTyped, AssetsFinite DEF Running, Creating
  <2> HIDE DEF u
  <2>2. v = [u EXCEPT !.pick = media[s].content]
    BY DEF u
  <2> QED BY <1>2, <2>1, <2>2 DEF Handlers
<1> HIDE DEF v
<1>4. WellMade(r, v) /\ Pending(v) = {} /\ v.pc \in Running /\ v.op \in Creating
  <2>1. Cardinality(v.made) + Cardinality(v.busy) + Cardinality(v.pick) <= MaxPages
    BY <1>1, <1>2, <1>3, AssetsFinite, FS_EmptySet
  <2> QED BY <1>2, <1>3, <2>1, AssetsFinite DEF WellMade, Pending, Running, Creating, Editing
<1>5. Begin(r, v)
  BY <1>1 DEF v, seen
<1>6. UNCHANGED <<media, rows, finals, staged, active, sweep, spoilt, stray>>
  BY DEF duplicate
<1>7. Whole'
  BY <1>3, <1>4, <1>5, <1>6, BeginningStep DEF IInv
<1> QED BY <1>3, <1>5, <1>6, <1>7, GoTyped DEF IInv, TypeOK, Begin

LEMMA NextPageTyped ==
  ASSUME IInv, NEW r \in Requests, Cardinality(req[r].made) < MaxPages
  PROVE  NextPage(r) \in Assets /\ NextPage(r)[1] = r /\ NextPage(r) # Upload(r)
<1>1. Cardinality(req[r].made) \in Nat
  BY TypeFacts, AssetsFinite DEF IInv
<1>2. Cardinality(req[r].made) + 1 \in 1 .. MaxPages
  BY <1>1, AssetsFinite
<1> QED BY <1>1, <1>2, AssetsFinite DEF NextPage, Upload, Assets

LEMMA IngestKeeps ==
  ASSUME IInv, NEW r \in Requests, ingest_final_from_path(r)
  PROVE  IInv'
<1> DEFINE v == [req[r] EXCEPT !.busy = {NextPage(r)}]
<1>1. /\ TypeOK /\ Whole /\ req[r] \in Handlers /\ WellMade(r, req[r])
      /\ req[r].pc = "ingest" /\ req[r].pc \in Running /\ req[r].drop = {} /\ req[r].trash = {}
  BY TypeFacts DEF IInv, ingest_final_from_path, Whole, WellMade, Running
<1>2. /\ Go(r, v) /\ finals' = finals \union {NextPage(r)} /\ HasRoom(r)
      /\ UNCHANGED <<media, rows, staged, active, sweep, spoilt, stray>>
  BY DEF ingest_final_from_path
<1>3. NextPage(r) \in Assets /\ NextPage(r)[1] = r /\ NextPage(r) # Upload(r)
  <2>1. Cardinality(req[r].made) < MaxPages
    <3>1. Cardinality(req[r].made) \in Nat
      BY TypeFacts, AssetsFinite DEF IInv
    <3> QED BY <1>2, <3>1, AssetsFinite DEF HasRoom
  <2> QED BY <2>1, NextPageTyped
<1>4. /\ v \in Handlers /\ v.busy = {NextPage(r)}
      /\ v.pc = req[r].pc /\ v.op = req[r].op /\ v.m = req[r].m /\ v.seen = req[r].seen
      /\ v.pick = req[r].pick /\ v.made = req[r].made /\ v.drop = {} /\ v.trash = {}
  BY <1>1, <1>3 DEF Handlers
<1> HIDE DEF v
<1>5. WellMade(r, v) /\ Pending(v) = {}
  BY <1>1, <1>3, <1>4 DEF WellMade, Pending, Running
<1>6. v.busy \subseteq finals' /\ finals \subseteq finals'
  BY <1>2, <1>4
<1>7. Whole'
  BY <1>1, <1>2, <1>4, <1>5, <1>6, WorkingStep
<1> QED BY <1>1, <1>2, <1>3, <1>4, <1>7, GoTyped DEF IInv, TypeOK

LEMMA CopyKeeps ==
  ASSUME IInv, NEW r \in Requests, copy_final_file(r)
  PROVE  IInv'
<1>0. PICK page \in req[r].pick \intersect finals :
        Go(r, [req[r] EXCEPT !.busy = {NextPage(r)}, !.pick = @ \ {page}])
  BY DEF copy_final_file
<1> DEFINE v == [req[r] EXCEPT !.busy = {NextPage(r)}, !.pick = @ \ {page}]
<1>1. /\ TypeOK /\ Whole /\ req[r] \in Handlers /\ WellMade(r, req[r])
      /\ req[r].pc = "copy" /\ req[r].pc \in Running /\ req[r].drop = {} /\ req[r].trash = {}
      /\ req[r].busy = {}
  BY TypeFacts DEF IInv, copy_final_file, Whole, WellMade, Running
<1>2. /\ Go(r, v) /\ finals' = finals \union {NextPage(r)}
      /\ UNCHANGED <<media, rows, staged, active, sweep, spoilt, stray>>
  BY <1>0 DEF copy_final_file
<1>3. /\ Cardinality(req[r].made) \in Nat /\ Cardinality(req[r].made) < MaxPages
      /\ Cardinality(req[r].made) + 1 + Cardinality(req[r].pick \ {page}) <= MaxPages
  <2>1. req[r].made \in SUBSET Assets /\ req[r].pick \in SUBSET Assets
    BY <1>1 DEF Handlers
  <2>2. /\ Cardinality(req[r].made) \in Nat /\ Cardinality(req[r].pick) \in Nat
        /\ IsFiniteSet(req[r].pick)
    BY <2>1, AssetsFinite
  <2>3. Cardinality(req[r].made) + 0 + Cardinality(req[r].pick) <= MaxPages
    BY <1>1, FS_EmptySet DEF WellMade
  <2>4. Cardinality(req[r].pick \ {page}) = Cardinality(req[r].pick) - 1 /\ Cardinality(req[r].pick \ {page}) \in Nat
    BY <1>0, <2>1, <2>2, FS_RemoveElement, AssetsFinite
  <2> QED BY <2>2, <2>3, <2>4, AssetsFinite
<1>4. NextPage(r) \in Assets /\ NextPage(r)[1] = r /\ NextPage(r) # Upload(r)
  BY <1>3, NextPageTyped
<1>5. /\ v \in Handlers /\ v.busy = {NextPage(r)} /\ v.pick = req[r].pick \ {page}
      /\ v.pc = req[r].pc /\ v.op = req[r].op /\ v.m = req[r].m /\ v.seen = req[r].seen
      /\ v.made = req[r].made /\ v.drop = {} /\ v.trash = {}
  BY <1>1, <1>4 DEF Handlers
<1> HIDE DEF v
<1>6. WellMade(r, v) /\ Pending(v) = {}
  <2>1. Cardinality(v.made) + Cardinality(v.busy) + Cardinality(v.pick) <= MaxPages
    <3>1. Cardinality({NextPage(r)}) = 1
      BY FS_Singleton
    <3> QED BY <1>3, <1>5, <3>1
  <2>2. v.op = "duplicate" /\ v.pc = "copy"
    BY <1>1, <1>5 DEF WellMade
  <2> QED BY <1>1, <1>4, <1>5, <2>1, <2>2 DEF WellMade, Pending, Running, Editing, Creating
<1>7. v.busy \subseteq finals' /\ finals \subseteq finals'
  BY <1>2, <1>5
<1>8. Whole'
  BY <1>1, <1>2, <1>5, <1>6, <1>7, WorkingStep
<1> QED BY <1>1, <1>2, <1>4, <1>5, <1>8, GoTyped DEF IInv, TypeOK

\* What is made becomes known to the database: create_final, promote_staging.
LEMMA MadeStep ==
  ASSUME TypeOK, Whole, NEW r \in Requests, NEW v \in Handlers, Go(r, v),
         req[r].pc \in Running, v.pc = req[r].pc, v.op = req[r].op, v.m = req[r].m,
         Pending(v) = {}, v.made = req[r].made \union req[r].busy, v.busy = {}, WellMade(r, v),
         media' = media, finals' = finals, spoilt' = spoilt, sweep' = sweep,
         \A a \in Assets : /\ a \in req[r].busy => rows'[a].status = "final" /\ rows'[a].media = req[r].m
                           /\ a \notin req[r].busy => rows'[a] = rows[a]
  PROVE  Whole'
<1> DEFINE T == req[r].busy
<1>1. req'[r] = v /\ \A q \in Requests \ {r} : req'[q] = req[q]
  BY GoTyped
<1>2. /\ Fresh(r) /\ Unused(r) /\ Ready(r) /\ Target(r) /\ req[r].m \in MediaIds
      /\ T \subseteq Assets /\ req[r].made \subseteq Assets /\ \A a \in T : a[1] = r
  BY TypeFacts DEF Fresh, Whole, WellMade
<1>3. \A a \in Assets : Unmarked(a) => Unmarked(a)'
  BY <1>1, Marks
<1>4. Unused(r)'
  <2>1. /\ ~Exists(r)
        /\ \A m \in MediaIds : \A a \in BlobIds(media[m]) : a[1] # r
        /\ \A a \in Assets : a[1] = r /\ a \notin req[r].made =>
             /\ Unmarked(a)
             /\ \/ rows[a].status = "none"
                \/ /\ a = Upload(r) /\ req[r].op = "upload"
                   /\ rows[a].status = "staging" /\ rows[a].media = req[r].m
    BY <1>2 DEF Unused
  <2> QED BY <1>1, <1>3, <2>1 DEF Unused, Exists
<1>5. Ready(r)'
  <2> SUFFICES ASSUME Wanted(r)', NEW a \in req[r].made \union T PROVE Kept(a, req[r].m)'
    BY <1>1 DEF Ready, Kept, Unmarked
  <2>1. Wanted(r)
    BY <1>1 DEF Wanted, Exists
  <2>2. a \in Assets /\ a \in finals /\ Unmarked(a)
    <3>1. CASE a \in req[r].made
      BY <1>2, <2>1, <3>1 DEF Ready, Kept
    <3>2. CASE a \in T /\ a \notin req[r].made
      BY <1>2, <2>1, <3>2 DEF Ready, Unused
    <3> QED BY <3>1, <3>2
  <2>3. rows'[a].status = "final" /\ rows'[a].media = req[r].m
    BY <1>2, <2>1, <2>2 DEF Ready, Kept
  <2> QED BY <1>1, <1>3, <2>2, <2>3 DEF Kept
<1>6. Target(r)'
  BY <1>1, <1>2 DEF Target, Fresh, Running
<1>7. Blank'
  BY <1>2 DEF Whole, Blank
<1>8. /\ \A a \in Assets \ T : (a \in finals => a \in finals') /\ SameRow(a)
      /\ \A a \in T : LooseFor(Requests \ {r}, a)
      /\ \A a \in Assets : rows'[a].status = "final" => rows[a].status = "final" \/ a[1] = r
  BY <1>2, LooseOwn DEF SameRow
<1>9. /\ WellMade(r, req'[r]) /\ Pending(req'[r]) \subseteq Pending(req[r]) \union T
      /\ req[r].pc # "done" /\ (Fresh(r)' => Fresh(r)) /\ T \in SUBSET Assets
  BY <1>1, <1>2 DEF Running
<1> HIDE DEF T
<1> QED BY <1>1, <1>4, <1>5, <1>6, <1>7, <1>8, <1>9, RequestStep

LEMMA CreateFinalKeeps ==
  ASSUME IInv, NEW r \in Requests, create_final(r)
  PROVE  IInv'
<1> DEFINE v == [req[r] EXCEPT !.made = @ \union req[r].busy, !.busy = {}]
<1>1. /\ TypeOK /\ Whole /\ req[r] \in Handlers /\ WellMade(r, req[r])
      /\ req[r].pc \in {"ingest", "copy"} /\ req[r].pc \in Running
      /\ req[r].drop = {} /\ req[r].trash = {} /\ req[r].m \in MediaIds
  BY TypeFacts DEF IInv, create_final, Whole, WellMade, Running
<1>2. /\ Go(r, v) /\ rows' = WithFinal(r)
      /\ UNCHANGED <<media, finals, staged, active, sweep, spoilt, stray>>
  BY DEF create_final
<1>3. /\ v \in Handlers /\ v.busy = {} /\ v.made = req[r].made \union req[r].busy
      /\ v.pc = req[r].pc /\ v.op = req[r].op /\ v.m = req[r].m /\ v.seen = req[r].seen
      /\ v.pick = req[r].pick /\ v.drop = {} /\ v.trash = {}
  BY <1>1 DEF Handlers
<1> HIDE DEF v
<1>4. WellMade(r, v) /\ Pending(v) = {}
  <2>1. ASSUME v.pc = "copy" PROVE Cardinality(v.made) + Cardinality(v.busy) + Cardinality(v.pick) <= MaxPages
    <3>1. /\ req[r].made \in SUBSET Assets /\ req[r].busy \in SUBSET Assets
          /\ req[r].pick \in SUBSET Assets /\ req[r].made \union req[r].busy \in SUBSET Assets
          /\ req[r].made \intersect req[r].busy \in SUBSET Assets
      BY <1>1 DEF Handlers
    <3>2. /\ IsFiniteSet(req[r].made) /\ IsFiniteSet(req[r].busy)
          /\ Cardinality(req[r].made) \in Nat /\ Cardinality(req[r].busy) \in Nat
          /\ Cardinality(req[r].pick) \in Nat /\ Cardinality(req[r].made \union req[r].busy) \in Nat
          /\ Cardinality(req[r].made \intersect req[r].busy) \in Nat
      BY <3>1, AssetsFinite
    <3>3. Cardinality(req[r].made \union req[r].busy) <= Cardinality(req[r].made) + Cardinality(req[r].busy)
      BY <3>2, FS_Union
    <3>4. Cardinality(req[r].made) + Cardinality(req[r].busy) + Cardinality(req[r].pick) <= MaxPages
      BY <1>1, <1>3, <2>1 DEF WellMade
    <3> QED BY <1>3, <3>2, <3>3, <3>4, FS_EmptySet, AssetsFinite
  <2> QED BY <1>1, <1>3, <2>1 DEF WellMade, Pending, Running, Editing, Creating
<1>5. /\ rows' \in [Assets -> Rows]
      /\ \A a \in Assets : /\ a \in req[r].busy => rows'[a].status = "final" /\ rows'[a].media = req[r].m
                           /\ a \notin req[r].busy => rows'[a] = rows[a]
  <2>1. req[r].seen.owner \in Teams \union {None} /\ rows \in [Assets -> Rows]
    BY <1>1 DEF Handlers, Media, TypeOK
  <2>2. /\ Row("final", req[r].m, req[r].seen.owner) \in Rows
        /\ Row("final", req[r].m, req[r].seen.owner).status = "final"
        /\ Row("final", req[r].m, req[r].seen.owner).media = req[r].m
    BY <1>1, <2>1 DEF Row, Rows
  <2> QED BY <1>2, <2>1, <2>2 DEF WithFinal
<1>6. Whole'
  BY <1>1, <1>2, <1>3, <1>4, <1>5, MadeStep
<1> QED BY <1>1, <1>2, <1>3, <1>5, <1>6, GoTyped DEF IInv, TypeOK

LEMMA PromoteFileKeeps ==
  ASSUME IInv, NEW r \in Requests, promote_file(r)
  PROVE  IInv'
<1> DEFINE v == [req[r] EXCEPT !.busy = {Upload(r)}]
<1>1. /\ TypeOK /\ Whole /\ req[r] \in Handlers /\ WellMade(r, req[r])
      /\ req[r].pc = "promote" /\ req[r].pc \in Running /\ req[r].made = {}
      /\ req[r].drop = {} /\ req[r].trash = {}
  BY TypeFacts DEF IInv, promote_file, Whole, WellMade, Running
<1>2. /\ Go(r, v) /\ finals' = finals \union {Upload(r)} /\ staged' = staged \ {r}
      /\ UNCHANGED <<media, rows, active, sweep, spoilt, stray>>
  BY DEF promote_file
<1>3. Upload(r) \in Assets /\ Upload(r)[1] = r
  BY AssetsFinite DEF Upload, Assets
<1>4. /\ v \in Handlers /\ v.busy = {Upload(r)}
      /\ v.pc = req[r].pc /\ v.op = req[r].op /\ v.m = req[r].m /\ v.seen = req[r].seen
      /\ v.pick = req[r].pick /\ v.made = req[r].made /\ v.drop = {} /\ v.trash = {}
  BY <1>1, <1>3 DEF Handlers
<1> HIDE DEF v
<1>5. WellMade(r, v) /\ Pending(v) = {}
  BY <1>1, <1>3, <1>4 DEF WellMade, Pending, Running
<1>6. v.busy \subseteq finals' /\ finals \subseteq finals'
  BY <1>2, <1>4
<1>7. Whole'
  BY <1>1, <1>2, <1>4, <1>5, <1>6, WorkingStep
<1> QED BY <1>1, <1>2, <1>3, <1>4, <1>7, GoTyped DEF IInv, TypeOK

LEMMA PromoteStagingKeeps ==
  ASSUME IInv, NEW r \in Requests, promote_staging(r)
  PROVE  IInv'
<1> DEFINE v == [req[r] EXCEPT !.made = req[r].busy, !.busy = {}]
<1>1. /\ TypeOK /\ Whole /\ req[r] \in Handlers /\ WellMade(r, req[r])
      /\ req[r].pc = "promote" /\ req[r].pc \in Running /\ req[r].op = "upload"
      /\ req[r].drop = {} /\ req[r].trash = {} /\ req[r].m \in MediaIds
      /\ req[r].busy = {Upload(r)} /\ req[r].made = {}
  BY TypeFacts DEF IInv, promote_staging, Whole, WellMade, Running
<1>2. /\ Go(r, v) /\ rows' = WithPromoted(r) /\ IsStaging(r)
      /\ UNCHANGED <<media, finals, staged, active, sweep, spoilt, stray>>
  BY DEF promote_staging
<1>3. /\ v \in Handlers /\ v.busy = {} /\ v.made = req[r].made \union req[r].busy
      /\ v.pc = req[r].pc /\ v.op = req[r].op /\ v.m = req[r].m /\ v.seen = req[r].seen
      /\ v.pick = req[r].pick /\ v.drop = {} /\ v.trash = {}
  BY <1>1 DEF Handlers
<1> HIDE DEF v
<1>4. WellMade(r, v) /\ Pending(v) = {}
  BY <1>1, <1>3 DEF WellMade, Pending, Running, Editing, Creating
<1>5. Upload(r) \in Assets /\ rows[Upload(r)].status = "staging" /\ rows[Upload(r)].media = req[r].m
  <2>1. Upload(r) \in Assets /\ Upload(r)[1] = r
    BY AssetsFinite DEF Upload, Assets
  <2>2. Fresh(r) /\ rows[Upload(r)].status = "staging"
    BY <1>1, <1>2 DEF Fresh, IsStaging
  <2> QED BY <1>1, <2>1, <2>2 DEF Whole, Unused
<1>6. /\ rows' \in [Assets -> Rows]
      /\ \A a \in Assets : /\ a \in req[r].busy => rows'[a].status = "final" /\ rows'[a].media = req[r].m
                           /\ a \notin req[r].busy => rows'[a] = rows[a]
  <2>1. rows \in [Assets -> Rows] /\ rows[Upload(r)] \in Rows
    BY <1>1, <1>5 DEF TypeOK
  <2> QED BY <1>1, <1>2, <1>5, <2>1 DEF WithPromoted, Rows
<1>7. Whole'
  BY <1>1, <1>2, <1>3, <1>4, <1>6, MadeStep
<1> QED BY <1>1, <1>2, <1>3, <1>6, <1>7, GoTyped DEF IInv, TypeOK

-----------------------------------------------------------------------------
(* Media are written.                                                      *)

LEMMA DroppingTyped ==
  ASSUME NEW drop \in SUBSET Assets
  PROVE  Ending(Dropping(drop)) /\ Pending(Dropping(drop)) = drop
<1>1. /\ Dropping(drop) \in Handlers /\ Dropping(drop).pc = "dropping"
      /\ Dropping(drop).op = "none" /\ Dropping(drop).made = {} /\ Dropping(drop).busy = {}
      /\ Dropping(drop).drop = drop /\ Dropping(drop).trash = {}
  BY BlobsTyped DEF Dropping, New, Handlers
<1> QED BY <1>1 DEF Ending, Pending

\* What a request that writes knows.
LEMMA AtWrite ==
  ASSUME IInv, NEW r \in Requests, req[r].op \in Creating \union Editing \union {"upload"}
  PROVE  /\ TypeOK /\ Whole /\ req[r] \in Handlers /\ WellMade(r, req[r])
         /\ req[r].pc \in Running /\ req[r].m \in MediaIds
         /\ req[r].seen \in Media /\ media[req[r].m] \in Media
         /\ req[r].made \in SUBSET Assets /\ req[r].pick \in SUBSET Assets
         /\ req[r].op \in Editing => req[r].made = {} /\ req[r].busy = {}
<1>1. TypeOK /\ Whole /\ req[r] \in Handlers /\ WellMade(r, req[r])
  BY TypeFacts DEF IInv, Whole
<1>2. req[r].pc \in Running
  <2>1. CASE req[r].op \in Editing
    BY <1>1, <2>1 DEF WellMade, Running
  <2> QED BY <1>1, <2>1 DEF WellMade
<1>3. req[r].op \in Editing => req[r].made = {} /\ req[r].busy = {}
  BY <1>1 DEF WellMade
<1> QED BY <1>1, <1>2, <1>3, TypeFacts DEF WellMade, Handlers

\* update_if_current: apart from its owner the media is what was read.
LEMMA Current ==
  ASSUME IInv, NEW r \in Requests, req[r].m \in MediaIds, req[r].seen \in Media, IsCurrent(r)
  PROVE  LET now == media[req[r].m]
             seen == req[r].seen
         IN  /\ Exists(req[r].m) /\ now.kind = seen.kind /\ now.kind # "none"
             /\ now.content = seen.content /\ now.draft = seen.draft
             /\ content_blob_ids(now) = content_blob_ids(seen)
             /\ BlobIds(now) = BlobIds(seen)
<1> DEFINE now == media[req[r].m]
           seen == req[r].seen
<1>1. now \in Media /\ Exists(req[r].m) /\ [now EXCEPT !.owner = seen.owner] = seen
  BY TypeFacts DEF IInv, IsCurrent
<1>2. now.kind = seen.kind /\ now.content = seen.content /\ now.draft = seen.draft
  <2>1. /\ [now EXCEPT !.owner = seen.owner].kind = now.kind
        /\ [now EXCEPT !.owner = seen.owner].content = now.content
        /\ [now EXCEPT !.owner = seen.owner].draft = now.draft
    BY <1>1 DEF Media
  <2> QED BY <1>1, <2>1
<1> QED BY <1>1, <1>2 DEF Exists, content_blob_ids, BlobIds

LEMMA CreateWithIdKeeps ==
  ASSUME IInv, NEW r \in Requests, create_with_id(r)
  PROVE  IInv'
<1> DEFINE w == [req[r].seen EXCEPT !.content = req[r].made]
<1>1. /\ TypeOK /\ Whole /\ req[r] \in Handlers /\ WellMade(r, req[r])
      /\ req[r].pc \in Running /\ req[r].m \in MediaIds /\ req[r].seen \in Media
      /\ req[r].made \in SUBSET Assets
      /\ req[r].op \in Creating /\ req[r].busy = {} /\ req[r].made # {}
  BY AtWrite DEF create_with_id
<1>2. req[r].seen.kind # "none" /\ req[r].seen.draft = NoDraft
  BY <1>1 DEF WellMade
<1>3. /\ w \in Media /\ w.kind # "none" /\ BlobIds(w) = req[r].made
  BY <1>1, <1>2 DEF Media, BlobIds, content_blob_ids, NoDraft
<1>4. Ending(Dropping({})) /\ Pending(Dropping({})) = {}
  BY DroppingTyped
<1>5. Write(r, w, Dropping({})) /\ UNCHANGED <<active, sweep, stray>>
  BY DEF create_with_id
<1> HIDE DEF w
<1>6. stray' \in SUBSET MediaIds
  BY <1>1, <1>5 DEF TypeOK
<1> QED BY <1>1, <1>3, <1>4, <1>5, <1>6, WritingStep DEF IInv

LEMMA ReplaceContentKeeps ==
  ASSUME IInv, NEW r \in Requests, replace_content(r)
  PROVE  IInv'
<1> DEFINE m == req[r].m
           w == [media[m] EXCEPT !.content = req[r].made, !.draft = NoDraft]
           drop == content_blob_ids(req[r].seen)
<1>1. /\ TypeOK /\ Whole /\ req[r] \in Handlers /\ WellMade(r, req[r])
      /\ req[r].pc \in Running /\ m \in MediaIds /\ req[r].seen \in Media /\ media[m] \in Media
      /\ req[r].made \in SUBSET Assets
      /\ req[r].op = "upload" /\ req[r].busy = {} /\ IsCurrent(r)
  BY AtWrite DEF replace_content
<1>2. /\ Exists(m) /\ media[m].kind # "none"
      /\ content_blob_ids(media[m]) = drop
  BY <1>1, Current
<1>3. /\ w \in Media /\ w.kind # "none" /\ BlobIds(w) = req[r].made
  BY <1>1, <1>2, BlobsTyped DEF Media, BlobIds, content_blob_ids, NoDraft
<1>4. drop \subseteq BlobIds(media[m]) /\ drop \in SUBSET Assets
  BY <1>1, <1>2, TypeFacts DEF BlobIds
<1>5. Ending(Dropping(drop)) /\ Pending(Dropping(drop)) = drop
  BY <1>4, DroppingTyped
<1>6. Write(r, w, Dropping(drop)) /\ UNCHANGED <<active, sweep, stray>>
  BY DEF replace_content
<1>7. BlobIds(w) \intersect drop = {}
  <2>1. \A a \in req[r].made : a[1] = r
    BY <1>1 DEF WellMade
  <2>2. \A a \in BlobIds(media[m]) : a[1] # r
    BY <1>1 DEF Whole, Unused, Fresh
  <2> QED BY <1>3, <1>4, <2>1, <2>2
<1>8. req[r].op \notin Creating /\ stray' \in SUBSET MediaIds
  BY <1>1, <1>6 DEF TypeOK, Creating
<1> HIDE DEF w, drop
<1> QED BY <1>1, <1>2, <1>3, <1>4, <1>5, <1>6, <1>7, <1>8, WritingStep DEF IInv

LEMMA AddDeckSourceKeeps ==
  ASSUME IInv, NEW r \in Requests, add_deck_source(r)
  PROVE  IInv'
<1> DEFINE m == req[r].m
           w == [media[m] EXCEPT !.draft = Drafted(r)]
           drop == req[r].pick \ content_blob_ids(req[r].seen)
<1>1. /\ TypeOK /\ Whole /\ req[r] \in Handlers /\ WellMade(r, req[r])
      /\ req[r].pc \in Running /\ m \in MediaIds /\ req[r].seen \in Media /\ media[m] \in Media
      /\ req[r].made \in SUBSET Assets
      /\ req[r].op = "upload" /\ req[r].busy = {} /\ IsCurrent(r)
  BY AtWrite DEF add_deck_source
<1>2. /\ Exists(m) /\ media[m].kind # "none"
      /\ content_blob_ids(media[m]) = content_blob_ids(req[r].seen)
      /\ BlobIds(media[m]) = BlobIds(req[r].seen)
  BY <1>1, Current
<1>3. /\ DraftPages(req[r].seen) \subseteq BlobIds(media[m])
      /\ req[r].pick \subseteq DraftPages(req[r].seen)
      /\ BlobIds(media[m]) \in SUBSET Assets
  BY <1>1, <1>2, BlobsTyped DEF WellMade
<1>4. /\ Drafted(r) \in Drafts
      /\ Drafted(r).pages = (DraftPages(req[r].seen) \ req[r].pick) \union req[r].made
  <2>1. req[r].seen.draft.rev \in MediaIds \union {None} /\ r \in MediaIds
    BY <1>1, AssetsFinite DEF Media, Drafts
  <2> QED BY <1>1, <1>3, <2>1 DEF Drafted, Drafts
<1>5. /\ w \in Media /\ w.kind # "none"
      /\ BlobIds(w) = content_blob_ids(media[m]) \union Drafted(r).pages
  BY <1>1, <1>2, <1>4 DEF Media, BlobIds, content_blob_ids
<1>6. drop \subseteq BlobIds(media[m]) /\ drop \in SUBSET Assets
  BY <1>3
<1>7. Ending(Dropping(drop)) /\ Pending(Dropping(drop)) = drop
  BY <1>6, DroppingTyped
<1>8. Write(r, w, Dropping(drop)) /\ UNCHANGED <<active, sweep, stray>>
  BY DEF add_deck_source
<1>9. BlobIds(w) \intersect drop = {}
  <2>1. \A a \in req[r].made : a[1] = r
    BY <1>1 DEF WellMade
  <2>2. \A a \in BlobIds(media[m]) : a[1] # r
    BY <1>1 DEF Whole, Unused, Fresh
  <2> QED BY <1>2, <1>4, <1>5, <1>6, <2>1, <2>2
<1>10. BlobIds(w) \subseteq BlobIds(media[m]) \union req[r].made
  BY <1>3, <1>4, <1>5 DEF BlobIds
<1>11. req[r].op \notin Creating /\ stray' \in SUBSET MediaIds
  BY <1>1, <1>8 DEF TypeOK, Creating
<1> HIDE DEF w, drop
<1> QED BY <1>1, <1>2, <1>5, <1>6, <1>7, <1>8, <1>9, <1>10, <1>11, WritingStep DEF IInv

LEMMA ReadToEditKeeps ==
  ASSUME IInv, NEW r \in Requests, ReadToEdit(r)
  PROVE  IInv'
<1>0. PICK m \in MediaIds, op \in Editing :
        /\ Exists(m)
        /\ \E pick \in SUBSET media[m].draft.pages :
             Begin(r, [At(op, "write", m, media[m]) EXCEPT !.pick = pick])
  BY DEF ReadToEdit, Editing
<1>1. PICK pick \in SUBSET media[m].draft.pages :
        Begin(r, [At(op, "write", m, media[m]) EXCEPT !.pick = pick])
  BY <1>0
<1> DEFINE v == [At(op, "write", m, media[m]) EXCEPT !.pick = pick]
<1>2. media[m] \in Media /\ pick \in SUBSET Assets
  BY TypeFacts DEF IInv, Media, Drafts
<1>3. /\ v \in Handlers /\ v.op = op /\ v.pc = "write" /\ v.m = m /\ v.pick = pick
      /\ v.seen = media[m] /\ v.made = {} /\ v.busy = {} /\ v.drop = {} /\ v.trash = {}
  <2> DEFINE u == At(op, "write", m, media[m])
  <2>1. /\ u \in Handlers /\ u.op = op /\ u.pc = "write" /\ u.m = m
        /\ u.seen = media[m] /\ u.made = {} /\ u.busy = {} /\ u.drop = {} /\ u.trash = {}
    <3>1. op \in Creating \union Editing \union {"none", "upload"} /\ "write" \in Running \union Over
      BY DEF Running
    <3> QED BY <1>2, <3>1, AtTyped
  <2> HIDE DEF u
  <2>2. v = [u EXCEPT !.pick = pick]
    BY DEF u
  <2> QED BY <1>2, <2>1, <2>2 DEF Handlers
<1>4. Begin(r, v)
  BY <1>1
<1> HIDE DEF v
<1>5. WellMade(r, v) /\ Pending(v) = {} /\ v.pc \in Running
  BY <1>3 DEF WellMade, Pending, Running, Creating, Editing
<1>6. UNCHANGED <<media, rows, finals, staged, active, sweep, spoilt, stray>>
  BY DEF ReadToEdit
<1>7. Whole'
  BY <1>0, <1>3, <1>4, <1>5, <1>6, BeginningStep DEF IInv
<1> QED BY <1>3, <1>4, <1>6, <1>7, GoTyped DEF IInv, TypeOK, Begin

LEMMA BeginRevisionKeeps ==
  ASSUME IInv, NEW r \in Requests, begin_deck_revision(r)
  PROVE  IInv'
<1> DEFINE m == req[r].m
           draft == [rev |-> r, pages |-> req[r].seen.content]
           w == [media[m] EXCEPT !.draft = draft]
<1>0. req[r].op = "begin" /\ req[r].op \in Editing /\ req[r].op \notin Creating /\ IsCurrent(r)
  BY DEF begin_deck_revision, Editing, Creating
<1>1. /\ TypeOK /\ Whole /\ req[r].pc \in Running /\ m \in MediaIds /\ req[r].seen \in Media
      /\ media[m] \in Media /\ req[r].busy = {}
  BY <1>0, AtWrite
<1>2. /\ Exists(m) /\ media[m].kind # "none" /\ media[m].content = req[r].seen.content
  BY <1>0, <1>1, Current
<1>3. draft \in Drafts /\ draft.pages = media[m].content
  BY <1>1, <1>2, AssetsFinite DEF Drafts, Media
<1> HIDE DEF draft
<1>4. w \in Media /\ w.kind # "none" /\ BlobIds(w) \subseteq BlobIds(media[m])
  BY <1>1, <1>2, <1>3 DEF Media, BlobIds, content_blob_ids
<1>5. Ending(Dropping({})) /\ Pending(Dropping({})) = {}
  BY DroppingTyped
<1>6. Write(r, w, Dropping({})) /\ UNCHANGED <<active, sweep, stray>>
  BY DEF begin_deck_revision, draft
<1>7. stray' \in SUBSET MediaIds
  BY <1>1, <1>6 DEF TypeOK
<1> HIDE DEF w
<1> QED BY <1>0, <1>1, <1>2, <1>4, <1>5, <1>6, <1>7, WritingStep DEF IInv

LEMMA CommitDeckKeeps ==
  ASSUME IInv, NEW r \in Requests, commit_deck(r)
  PROVE  IInv'
<1> DEFINE m == req[r].m
           w == [media[m] EXCEPT !.content = req[r].pick, !.draft = NoDraft]
           drop == Superseded(r)
<1>0. req[r].op = "commit" /\ req[r].op \in Editing /\ req[r].op \notin Creating /\ IsCurrent(r)
  BY DEF commit_deck, Editing, Creating
<1>1. /\ TypeOK /\ Whole /\ req[r].pc \in Running /\ m \in MediaIds /\ req[r].seen \in Media
      /\ media[m] \in Media /\ req[r].busy = {} /\ req[r].pick \in SUBSET Assets
      /\ WellMade(r, req[r])
  BY <1>0, AtWrite
<1>2. /\ Exists(m) /\ media[m].kind # "none" /\ BlobIds(media[m]) = BlobIds(req[r].seen)
  BY <1>0, <1>1, Current
<1>3. w \in Media /\ w.kind # "none" /\ BlobIds(w) = req[r].pick
  BY <1>1, <1>2, BlobsTyped DEF Media, BlobIds, content_blob_ids, NoDraft
<1>4. req[r].pick \subseteq BlobIds(media[m])
  BY <1>0, <1>1, <1>2 DEF WellMade, BlobIds
<1>5. drop \subseteq BlobIds(media[m]) /\ drop \in SUBSET Assets /\ drop \intersect req[r].pick = {}
  BY <1>1, <1>2, BlobsTyped DEF Superseded
<1>6. Ending(Dropping(drop)) /\ Pending(Dropping(drop)) = drop
  BY <1>5, DroppingTyped
<1>7. Write(r, w, Dropping(drop)) /\ UNCHANGED <<active, sweep, stray>>
  BY DEF commit_deck
<1>8. stray' \in SUBSET MediaIds
  BY <1>1, <1>7 DEF TypeOK
<1> HIDE DEF w, drop
<1> QED BY <1>0, <1>1, <1>2, <1>3, <1>4, <1>5, <1>6, <1>7, <1>8, WritingStep DEF IInv

LEMMA MovedTyped ==
  ASSUME TypeOK, NEW m \in MediaIds, NEW owner, Moved(m, owner)
  PROVE  stray' \in SUBSET MediaIds
BY DEF TypeOK, Moved

LEMMA UpdateCurrentKeeps ==
  ASSUME IInv, NEW r \in Requests, update_current(r)
  PROVE  IInv'
<1>0. req[r].op = "update" /\ req[r].op \in Editing /\ req[r].op \notin Creating /\ IsCurrent(r)
  BY DEF update_current, Editing, Creating
<1>1. PICK title \in Titles, owner \in Teams :
        /\ Write(r, [media[req[r].m] EXCEPT !.title = title, !.owner = owner], Dropping({}))
        /\ Moved(req[r].m, owner)
  BY DEF update_current
<1> DEFINE m == req[r].m
           w == [media[m] EXCEPT !.title = title, !.owner = owner]
<1>2. /\ TypeOK /\ Whole /\ req[r].pc \in Running /\ m \in MediaIds /\ req[r].seen \in Media
      /\ media[m] \in Media /\ req[r].busy = {}
  BY <1>0, AtWrite
<1>3. Exists(m) /\ media[m].kind # "none"
  BY <1>0, <1>2, Current
<1>4. w \in Media /\ w.kind # "none" /\ BlobIds(w) = BlobIds(media[m])
  BY <1>2, <1>3 DEF Media, BlobIds, content_blob_ids
<1>5. Ending(Dropping({})) /\ Pending(Dropping({})) = {}
  BY DroppingTyped
<1>6. Write(r, w, Dropping({})) /\ UNCHANGED <<active, sweep>>
  BY <1>1 DEF update_current
<1>7. stray' \in SUBSET MediaIds
  BY <1>1, <1>2, MovedTyped
<1> HIDE DEF w
<1> QED BY <1>0, <1>2, <1>3, <1>4, <1>5, <1>6, <1>7, WritingStep DEF IInv

LEMMA DeleteCurrentKeeps ==
  ASSUME IInv, NEW r \in Requests, delete_current(r)
  PROVE  IInv'
<1> DEFINE m == req[r].m
           next == [New EXCEPT !.pc = "purge", !.m = m]
<1>0. req[r].op = "delete" /\ req[r].op \in Editing /\ req[r].op \notin Creating /\ IsCurrent(r)
  BY DEF delete_current, Editing, Creating
<1>1. /\ TypeOK /\ Whole /\ req[r].pc \in Running /\ m \in MediaIds /\ req[r].seen \in Media
      /\ media[m] \in Media /\ req[r].busy = {}
  BY <1>0, AtWrite
<1>2. Exists(m)
  BY <1>0, <1>1, Current
<1>3. NoMedia \in Media /\ BlobIds(NoMedia) = {}
  BY BlobsTyped
<1>4. /\ next \in Handlers /\ next.pc = "purge" /\ next.m = m /\ next.op = "none"
      /\ next.made = {} /\ next.busy = {} /\ next.drop = {} /\ next.trash = {}
  BY <1>1, <1>3 DEF New, Handlers
<1> HIDE DEF next
<1>5. WellMade(r, next) /\ Pending(next) = {}
  BY <1>1, <1>4 DEF WellMade, Pending, Running, Creating, Editing
<1>6. Write(r, NoMedia, next) /\ UNCHANGED <<active, sweep, stray>>
  BY DEF delete_current, next
<1>7. stray' \in SUBSET MediaIds
  BY <1>1, <1>6 DEF TypeOK
<1> QED BY <1>0, <1>1, <1>2, <1>3, <1>4, <1>5, <1>6, <1>7, WritingStep DEF IInv

LEMMA MoveOwnerKeeps ==
  ASSUME IInv, NEW r \in Requests, move_owner(r)
  PROVE  IInv'
<1>1. PICK m \in MediaIds, owner \in Teams :
        /\ Exists(m) /\ Begin(r, [New EXCEPT !.pc = "done"])
        /\ media' = [media EXCEPT ![m].owner = owner]
        /\ rows' = Owned(m, owner) /\ Moved(m, owner)
  BY DEF move_owner
<1> DEFINE v == [New EXCEPT !.pc = "done"]
           w == [media[m] EXCEPT !.owner = owner]
<1>2. /\ TypeOK /\ Whole /\ media[m] \in Media /\ req[r].pc = "idle" /\ Go(r, v) /\ Fresh(r)
      /\ UNCHANGED <<finals, staged, active, sweep, spoilt>>
  BY <1>1, TypeFacts DEF IInv, Begin, move_owner, Fresh
<1>3. w \in Media /\ w.kind # "none" /\ BlobIds(w) = BlobIds(media[m])
  BY <1>1, <1>2 DEF Media, BlobIds, content_blob_ids, Exists
<1>4. media' = [media EXCEPT ![m] = w]
  BY <1>1, <1>2 DEF TypeOK
<1>5. v \in Handlers /\ Ending(v) /\ Pending(v) = {}
  BY BlobsTyped DEF New, Handlers, Ending, Pending, Over
<1> HIDE DEF v, w
<1>6. /\ req' \in [Requests -> Handlers]
      /\ req'[r] = v /\ \A q \in Requests \ {r} : req'[q] = req[q]
  BY <1>2, <1>5, GoTyped
<1>7. WellMade(r, req'[r]) /\ Target(r)' /\ req'[r].pc \notin Running \union {"idle"}
  BY <1>5, <1>6, EndingFits
<1>8. /\ rows' \in [Assets -> Rows]
      /\ \A a \in Assets : rows'[a].status = rows[a].status /\ rows'[a].media = rows[a].media
  <2>1. rows \in [Assets -> Rows]
    BY <1>2 DEF TypeOK
  <2> QED BY <1>1, <2>1 DEF Owned, Rows
<1>9. Blank'
  <2>1. ASSUME NEW a \in Assets PROVE rows'[a] = NoRow \/ rows'[a].media \in MediaIds
    <3>1. CASE rows[a].media \in MediaIds
      BY <1>8, <3>1
    <3>2. CASE rows[a] = NoRow
      <4>1. rows[a].media # m
        BY <3>2, AssetsFinite DEF NoRow, Row
      <4> QED BY <1>1, <3>2, <4>1 DEF Owned
    <3> QED BY <1>2, <3>1, <3>2 DEF Whole, Blank
  <2> QED BY <2>1 DEF Blank
<1>10. Publishes(r, m, w, {})
  <2>1. \A a \in req[r].made : FALSE
    BY <1>2 DEF Whole, WellMade, New
  <2>2. Pending(req'[r]) \subseteq {}
    BY <1>5, <1>6
  <2> QED BY <1>1, <1>2, <1>3, <1>4, <1>6, <1>7, <1>8, <2>1, <2>2 DEF Publishes
<1>11. Whole'
  <2>1. {} \in SUBSET Assets
    OBVIOUS
  <2> QED BY <1>2, <1>3, <1>7, <1>9, <1>10, <2>1, WriteStep
<1>12. stray' \in SUBSET MediaIds
  BY <1>1, <1>2, MovedTyped
<1> QED BY <1>2, <1>3, <1>4, <1>6, <1>8, <1>11, <1>12 DEF IInv, TypeOK

-----------------------------------------------------------------------------
(* Assets are removed.                                                     *)

LEMMA EndingNow ==
  ASSUME IInv, NEW r \in Requests, req[r].pc \in {"dropping", "cleaning", "purging"}
  PROVE  /\ TypeOK /\ Whole /\ req[r] \in Handlers /\ Ending(req[r])
         /\ \A a \in Pending(req[r]) : a \in Assets /\ LooseFor(Requests \ {r}, a)
         /\ req[r].pc # "done"
<1>1. TypeOK /\ Whole /\ req[r] \in Handlers /\ WellMade(r, req[r])
  BY TypeFacts DEF IInv, Whole
<1>2. Ending(req[r])
  BY <1>1 DEF WellMade, Ending, Running, Creating, Editing, Handlers
<1>3. ASSUME NEW a \in Pending(req[r]) PROVE a \in Assets /\ LooseFor(Requests \ {r}, a)
  <2>1. a \in Assets /\ ~Unmarked(a)
    BY <1>1, TypeFacts DEF Unmarked
  <2> QED BY <1>1, <2>1, LooseMarked DEF LooseFor
<1> QED BY <1>1, <1>2, <1>3

LEMMA DropFileKeeps ==
  ASSUME IInv, NEW r \in Requests, DropFile(r)
  PROVE  IInv'
<1>1. PICK a \in req[r].drop :
        finals' = finals \ {a} /\ Go(r, [req[r] EXCEPT !.drop = @ \ {a}, !.trash = {a}])
  BY DEF DropFile
<1> DEFINE v == [req[r] EXCEPT !.drop = @ \ {a}, !.trash = {a}]
           T == {a}
<1>2. /\ req[r].pc = "dropping"
      /\ UNCHANGED <<media, rows, staged, active, sweep, spoilt, stray>>
  BY DEF DropFile
<1>3. /\ TypeOK /\ Whole /\ req[r] \in Handlers /\ Ending(req[r]) /\ req[r].pc # "done"
      /\ \A x \in Pending(req[r]) : x \in Assets /\ LooseFor(Requests \ {r}, x)
  BY <1>2, EndingNow
<1>4. a \in Pending(req[r])
  BY <1>1 DEF Pending
<1>5. Go(r, v) /\ v \in Handlers /\ Ending(v) /\ Pending(v) \subseteq Pending(req[r]) \union T
  BY <1>1, <1>2, <1>3, <1>4 DEF Handlers, Ending, Pending
<1> HIDE DEF v
<1>6. /\ T \in SUBSET Assets /\ \A x \in T : LooseFor(Requests \ {r}, x)
      /\ \A x \in Assets \ T : (x \in finals => x \in finals') /\ SameRow(x)
      /\ \A x \in Assets : rows'[x].status = "final" => rows[x].status = "final" \/ x[1] = r
  BY <1>1, <1>2, <1>3, <1>4 DEF SameRow
<1>7. Blank'
  BY <1>2, <1>3 DEF Whole, Blank
<1> HIDE DEF T
<1>8. Whole'
  BY <1>2, <1>3, <1>5, <1>6, <1>7, EndingStep
<1> QED BY <1>1, <1>2, <1>3, <1>5, <1>8, GoTyped DEF IInv, TypeOK

LEMMA DeleteRecordKeeps ==
  ASSUME IInv, NEW r \in Requests, delete_asset_record(r)
  PROVE  IInv'
<1>1. PICK a \in req[r].trash :
        /\ rows' = [rows EXCEPT ![a] = NoRow]
        /\ \/ req[r].pc = "dropping" /\ Go(r, [req[r] EXCEPT !.trash = @ \ {a}])
           \/ req[r].pc = "cleaning" /\ Go(r, Cleaning(req[r].trash \ {a}, req[r].cut))
  BY DEF delete_asset_record
<1> DEFINE T == {a}
<1>2. UNCHANGED <<media, finals, staged, active, sweep, spoilt, stray>>
  BY DEF delete_asset_record
<1>3. /\ TypeOK /\ Whole /\ req[r] \in Handlers /\ Ending(req[r]) /\ req[r].pc # "done"
      /\ \A x \in Pending(req[r]) : x \in Assets /\ LooseFor(Requests \ {r}, x)
  BY <1>1, EndingNow
<1>4. a \in Pending(req[r]) /\ a \in Assets
  BY <1>1, <1>3 DEF Pending
<1>5. \E v \in Handlers : Go(r, v) /\ Ending(v) /\ Pending(v) \subseteq Pending(req[r])
  <2>1. CASE req[r].pc = "dropping" /\ Go(r, [req[r] EXCEPT !.trash = @ \ {a}])
    <3> DEFINE v == [req[r] EXCEPT !.trash = @ \ {a}]
    <3>1. v \in Handlers /\ Ending(v) /\ Pending(v) \subseteq Pending(req[r])
      BY <1>3, <2>1 DEF Handlers, Ending, Pending
    <3> QED BY <2>1, <3>1
  <2>2. CASE req[r].pc = "cleaning" /\ Go(r, Cleaning(req[r].trash \ {a}, req[r].cut))
    <3> DEFINE trash == req[r].trash \ {a}
               v == Cleaning(trash, req[r].cut)
    <3>1. trash \in SUBSET Assets /\ req[r].cut \in BOOLEAN /\ trash \subseteq Pending(req[r])
      BY <1>3, <2>2 DEF Handlers, Pending
    <3> HIDE DEF trash
    <3>2. /\ v \in Handlers /\ v.pc \in {"done", "cleaning"} /\ v.op = "none"
          /\ v.made = {} /\ v.busy = {} /\ Pending(v) = trash
      BY <3>1, CleaningTyped
    <3>3. Go(r, v)
      BY <2>2 DEF trash
    <3> QED BY <3>1, <3>2, <3>3 DEF Ending
  <2> QED BY <1>1, <2>1, <2>2
<1>6. PICK v \in Handlers : Go(r, v) /\ Ending(v) /\ Pending(v) \subseteq Pending(req[r])
  BY <1>5
<1>7. NoRow \in Rows /\ NoRow.status = "none" /\ rows \in [Assets -> Rows]
  BY <1>3 DEF NoRow, Row, Rows, TypeOK
<1>8. rows' \in [Assets -> Rows] /\ rows'[a] = NoRow /\ \A x \in Assets \ T : rows'[x] = rows[x]
  BY <1>1, <1>4, <1>7
<1>9. /\ T \in SUBSET Assets /\ \A x \in T : LooseFor(Requests \ {r}, x)
      /\ \A x \in Assets \ T : (x \in finals => x \in finals') /\ SameRow(x)
      /\ \A x \in Assets : rows'[x].status = "final" => rows[x].status = "final" \/ x[1] = r
  BY <1>2, <1>3, <1>4, <1>7, <1>8 DEF SameRow
<1>10. Blank'
  BY <1>3, <1>8 DEF Whole, Blank
<1> HIDE DEF T
<1>11. Whole'
  BY <1>2, <1>3, <1>6, <1>9, <1>10, EndingStep
<1> QED BY <1>2, <1>3, <1>6, <1>8, <1>11, GoTyped DEF IInv, TypeOK

\* A handler ends without taking anything away, or with its own staged upload.
LEMMA LeavingStep ==
  ASSUME TypeOK, Whole, NEW r \in Requests, NEW trash \in SUBSET StagingRow(r),
         NEW cut \in BOOLEAN, Go(r, Cleaning(trash, cut)), req[r].pc # "done",
         UNCHANGED <<media, rows, finals, active, sweep, spoilt, stray>>,
         staged' \subseteq staged
  PROVE  IInv'
<1> DEFINE v == Cleaning(trash, cut)
<1>1. trash \in SUBSET Assets /\ \A a \in trash : a[1] = r /\ rows[a].status # "final"
  BY OwnTyped, AssetsFinite DEF StagingRow, IsStaging, Upload
<1>2. /\ v \in Handlers /\ v.pc \in {"done", "cleaning"} /\ v.op = "none"
      /\ v.made = {} /\ v.busy = {} /\ Pending(v) = trash
  BY <1>1, CleaningTyped
<1> HIDE DEF v
<1>3. Ending(v) /\ Go(r, v)
  BY <1>2 DEF Ending, v
<1>4. \A a \in trash : LooseFor(Requests \ {r}, a)
  BY <1>1, LooseOwn
<1>5. /\ Pending(v) \subseteq Pending(req[r]) \union trash
      /\ \A a \in Assets \ trash : (a \in finals => a \in finals') /\ SameRow(a)
      /\ \A a \in Assets : rows'[a].status = "final" => rows[a].status = "final" \/ a[1] = r
  BY <1>2 DEF SameRow
<1>6. Blank'
  BY DEF Whole, Blank
<1>7. Whole'
  BY <1>1, <1>3, <1>4, <1>5, <1>6, EndingStep
<1> QED BY <1>2, <1>3, <1>7, GoTyped DEF IInv, TypeOK

LEMMA CleanupNowKeeps ==
  ASSUME IInv, NEW r \in Requests, cleanup_now(r)
  PROVE  IInv'
<1>1. /\ req[r].pc # "done" /\ Unwind(r, {}, StagingRow(r), FALSE)
      /\ UNCHANGED <<media, rows, active, sweep, spoilt, stray>>
  BY DEF cleanup_now
<1> QED BY <1>1, LeavingStep DEF IInv, Unwind

LEMMA PurgeKeeps ==
  ASSUME IInv, NEW r \in Requests, delete_assets_for_media(r)
  PROVE  IInv'
<1>0. PICK m : m = req[r].m
  OBVIOUS
<1> DEFINE gone == RowsOf(m)
           T == {a \in gone : rows[a].status = "final"}
           S == {a \in gone : rows[a].status = "staging"}
           v == [req[r] EXCEPT !.pc = "purging", !.m = None, !.drop = T, !.trash = S]
<1>1. /\ req[r].pc = "purge" /\ rows' = [a \in Assets |-> IF a \in gone THEN NoRow ELSE rows[a]]
      /\ Go(r, v) /\ UNCHANGED <<media, finals, staged, active, sweep, spoilt, stray>>
  BY <1>0 DEF delete_assets_for_media
<1>2. /\ TypeOK /\ Whole /\ req[r] \in Handlers /\ WellMade(r, req[r]) /\ Target(r)
      /\ m \in MediaIds /\ rows \in [Assets -> Rows]
  BY <1>0, <1>1, TypeFacts DEF IInv, Whole, WellMade, TypeOK
<1>3. /\ \A a \in gone : a \in Assets /\ rows[a].media = m
      /\ T \in SUBSET Assets /\ S \in SUBSET Assets
  BY DEF RowsOf
<1>4. NoRow \in Rows /\ NoRow.status = "none"
  BY DEF NoRow, Row, Rows
<1> HIDE DEF gone
<1>5. v \in Handlers /\ Ending(v) /\ Pending(v) = T
  <2>1. req[r].op = "none" /\ req[r].made = {} /\ req[r].busy = {}
    BY <1>1, <1>2 DEF WellMade, Handlers, Running, Creating, Editing
  <2> HIDE DEF T, S
  <2> QED BY <1>2, <1>3, <2>1 DEF Handlers, Ending, Pending
<1> HIDE DEF v
<1>6. rows' \in [Assets -> Rows]
  BY <1>1, <1>2, <1>4
<1>7. \A a \in Assets \ T : (a \in finals => a \in finals') /\ SameRow(a)
  BY <1>1, <1>4 DEF SameRow
<1>8. \A a \in Assets : rows'[a].status = "final" => rows[a].status = "final" \/ a[1] = r
  BY <1>1, <1>4
<1>9. ASSUME NEW a \in T PROVE LooseFor(Requests \ {r}, a)
  <2>0. (m \in spoilt \/ ~Exists(m)) /\ (m \in Requests => ~Fresh(m))
    BY <1>0, <1>1, <1>2 DEF Target
  <2>1. ASSUME NEW n \in MediaIds \ spoilt, a \in BlobIds(media[n]) PROVE FALSE
    <3>1. rows[a].media = n /\ n = m
      BY <1>2, <1>3, <2>1 DEF Whole, AllKept, Kept
    <3>2. media[n] = NoMedia
      BY <1>2, <2>0, <3>1 DEF Whole, Absent
    <3> QED BY <2>1, <3>2, BlobsTyped
  <2>2. ASSUME NEW q \in Requests \ {r}, Fresh(q), a[1] = q PROVE a \in req[q].made /\ ~Wanted(q)
    <3>1. a \in Assets /\ rows[a].status = "final" /\ rows[a].media = m
      BY <1>3
    <3>2. a \in req[q].made
      BY <1>2, <2>2, <3>1 DEF Whole, Unused
    <3>3. WellMade(q, req[q]) /\ Ready(q)
      BY <1>2 DEF Whole
    <3>4. req[q].pc \in Running
      <4>1. req[q].pc # "idle"
        BY <3>2, <3>3 DEF WellMade, New
      <4> QED BY <2>2, <4>1 DEF Fresh
    <3>5. ASSUME Wanted(q) PROVE FALSE
      <4>1. req[q].m = m
        BY <3>1, <3>2, <3>3, <3>4, <3>5 DEF Ready, Kept
      <4>2. req[q].op \in Creating => m = q
        BY <3>3, <3>4, <4>1 DEF WellMade
      <4> QED BY <2>0, <2>2, <3>5, <4>1, <4>2 DEF Wanted
    <3> QED BY <3>2, <3>5
  <2> QED BY <2>1, <2>2 DEF LooseFor
<1>10. Blank'
  BY <1>1, <1>2 DEF Whole, Blank
<1>11. Whole'
  <2>1. req[r].pc # "done" /\ Pending(v) \subseteq Pending(req[r]) \union T
    BY <1>1, <1>5
  <2> HIDE DEF T
  <2> QED BY <1>1, <1>2, <1>3, <1>5, <1>7, <1>8, <1>9, <1>10, <2>1, EndingStep
<1> QED BY <1>1, <1>2, <1>5, <1>6, <1>11, GoTyped DEF IInv, TypeOK

LEMMA RemovePurgedKeeps ==
  ASSUME IInv, NEW r \in Requests, RemovePurged(r)
  PROVE  IInv'
<1> DEFINE v == Cleaning({}, req[r].cut)
           T == req[r].drop
<1>1. /\ req[r].pc = "purging" /\ finals' = finals \ T /\ Go(r, v)
      /\ staged' = {q \in staged : Upload(q) \notin req[r].trash}
      /\ UNCHANGED <<media, rows, active, sweep, spoilt, stray>>
  BY DEF RemovePurged
<1>2. /\ TypeOK /\ Whole /\ req[r] \in Handlers /\ req[r].pc # "done"
      /\ \A x \in Pending(req[r]) : x \in Assets /\ LooseFor(Requests \ {r}, x)
  BY <1>1, EndingNow
<1>3. /\ v \in Handlers /\ v.pc \in {"done", "cleaning"} /\ v.op = "none"
      /\ v.made = {} /\ v.busy = {} /\ Pending(v) = {}
  <2>1. req[r].cut \in BOOLEAN
    BY <1>2 DEF Handlers
  <2> QED BY <2>1, CleaningTyped
<1> HIDE DEF v
<1>4. Ending(v)
  BY <1>3 DEF Ending
<1>5. T \in SUBSET Assets /\ \A x \in T : LooseFor(Requests \ {r}, x)
  BY <1>2 DEF Pending
<1>6. /\ \A x \in Assets \ T : (x \in finals => x \in finals') /\ SameRow(x)
      /\ \A x \in Assets : rows'[x].status = "final" => rows[x].status = "final" \/ x[1] = r
      /\ Pending(v) \subseteq Pending(req[r]) \union T
  BY <1>1, <1>3 DEF SameRow
<1>7. Blank'
  BY <1>1, <1>2 DEF Whole, Blank
<1>8. Whole'
  BY <1>1, <1>2, <1>4, <1>5, <1>6, <1>7, EndingStep
<1> QED BY <1>1, <1>2, <1>3, <1>8, GoTyped DEF IInv, TypeOK

LEMMA FailKeeps ==
  ASSUME IInv, NEW r \in Requests, Fail(r)
  PROVE  IInv'
<1> DEFINE T == Own(r)
<1>1. /\ req[r].pc \in Running /\ Abort(r, FALSE) /\ active' = active \ {r}
      /\ UNCHANGED <<media, rows, sweep, spoilt, stray>>
  BY DEF Fail
<1>2. TypeOK /\ Whole /\ Fresh(r) /\ ~Exists(r)
  BY <1>1 DEF IInv, Whole, Unused, Fresh
<1>3. /\ finals \ T \subseteq finals' /\ finals' \subseteq finals
      /\ staged' \subseteq staged
      /\ req' \in [Requests -> Handlers] /\ \A q \in Requests \ {r} : req'[q] = req[q]
      /\ req'[r].pc \notin Running \union {"idle"} /\ Pending(req'[r]) \subseteq T
      /\ WellMade(r, req'[r])
      /\ req'[r].pc = "purge" => req[r].op = "duplicate" /\ req'[r].m = r
  BY <1>1, <1>2, AbortTyped
<1>4. T \in SUBSET Assets /\ \A a \in T : LooseFor(Requests \ {r}, a)
  BY <1>2, OwnTyped, LooseOwn
<1>5. /\ \A a \in Assets \ T : (a \in finals => a \in finals') /\ SameRow(a)
      /\ \A a \in Assets : rows'[a].status = "final" => rows[a].status = "final" \/ a[1] = r
      /\ Pending(req'[r]) \subseteq Pending(req[r]) \union T
      /\ req[r].pc # "done"
  BY <1>1, <1>3 DEF SameRow, Running
<1>6. Target(r)' /\ Unused(r)' /\ Ready(r)' /\ (Fresh(r)' => Fresh(r))
  BY <1>1, <1>2, <1>3 DEF Target, Unused, Ready, Fresh, Exists
<1>7. Blank'
  BY <1>1, <1>2 DEF Whole, Blank
<1>8. \A q \in Requests \ {r} : req'[q] = req[q]
  BY <1>3
<1>9. WellMade(r, req'[r])
  BY <1>3
<1> HIDE DEF T
<1>10. Whole'
  BY <1>1, <1>2, <1>4, <1>5, <1>6, <1>7, <1>8, <1>9, RequestStep
<1> QED BY <1>1, <1>2, <1>3, <1>10 DEF IInv, TypeOK

\* What the statement under way may do to the rows.
LEMMA InFlightRows ==
  ASSUME IInv, NEW r \in Requests, req[r].pc \in Running, NEW next \in InFlight(r)
  PROVE  /\ next \in [Assets -> Rows]
         /\ \A a \in Assets : \/ next[a] = rows[a]
                              \/ a[1] = r /\ (next[a] = NoRow \/ next[a].media \in MediaIds)
<1>1. /\ TypeOK /\ req[r] \in Handlers /\ WellMade(r, req[r]) /\ req[r].m \in MediaIds
      /\ rows \in [Assets -> Rows] /\ Upload(r) \in Assets /\ Upload(r)[1] = r
      /\ rows[Upload(r)] = NoRow \/ rows[Upload(r)].media \in MediaIds
  <2>1. Upload(r) \in Assets /\ Upload(r)[1] = r
    BY AssetsFinite DEF Upload, Assets
  <2> QED BY <2>1, TypeFacts DEF IInv, Whole, WellMade, TypeOK, Blank
<1>2. /\ \A status \in {"staging", "final"} :
           /\ Row(status, req[r].m, req[r].seen.owner) \in Rows
           /\ Row(status, req[r].m, req[r].seen.owner).media = req[r].m
  BY <1>1 DEF Handlers, Media, Row, Rows
<1>3. CASE next = rows
  BY <1>1, <1>3
<1>4. CASE next = WithStaging(r)
  BY <1>1, <1>2, <1>4 DEF WithStaging
<1>5. CASE next = WithFinal(r)
  <2>1. \A a \in req[r].busy : a[1] = r
    BY <1>1 DEF WellMade
  <2> QED BY <1>1, <1>2, <1>5, <2>1 DEF WithFinal
<1>6. CASE next = WithPromoted(r)
  <2>1. rows[Upload(r)] \in Rows
    BY <1>1
  <2>2. /\ next \in [Assets -> Rows]
        /\ \A a \in Assets \ {Upload(r)} : next[a] = rows[a]
        /\ next[Upload(r)].media = rows[Upload(r)].media
    BY <1>1, <1>6, <2>1 DEF WithPromoted, Rows
  <2>3. CASE rows[Upload(r)].status = "staging"
    BY <1>1, <2>2, <2>3 DEF NoRow, Row
  <2>4. CASE rows[Upload(r)].status # "staging"
    BY <1>1, <1>6, <2>1, <2>2, <2>4 DEF WithPromoted, Rows
  <2> QED BY <1>1, <2>2, <2>3, <2>4
<1> QED BY <1>3, <1>4, <1>5, <1>6 DEF InFlight

\* Dropped at an await: the statement may have taken effect, the guards run.
LEMMA DroppedStep ==
  ASSUME IInv, NEW r \in Requests, req[r].pc \in Running,
         rows' \in [Assets -> Rows],
         \A a \in Assets : \/ rows'[a] = rows[a]
                           \/ a[1] = r /\ (rows'[a] = NoRow \/ rows'[a].media \in MediaIds),
         NEW v \in Handlers, Ending(v), Go(r, v), Pending(v) \subseteq Own(r),
         finals \ Own(r) \subseteq finals', finals' \subseteq finals, staged' \subseteq staged,
         UNCHANGED <<media, active, sweep, spoilt, stray>>
  PROVE  IInv'
<1> DEFINE T == {a \in Assets : a[1] = r}
<1>1. TypeOK /\ Whole /\ Fresh(r) /\ req[r].pc # "done"
  BY DEF IInv, Fresh, Running
<1>2. Own(r) \subseteq T
  BY <1>1, OwnTyped
<1>3. T \in SUBSET Assets /\ \A a \in T : LooseFor(Requests \ {r}, a)
  BY <1>1, LooseOwn
<1>4. /\ \A a \in Assets \ T : (a \in finals => a \in finals') /\ SameRow(a)
      /\ \A a \in Assets : rows'[a].status = "final" => rows[a].status = "final" \/ a[1] = r
      /\ Pending(v) \subseteq Pending(req[r]) \union T
  BY <1>2 DEF SameRow
<1>5. Blank'
  BY <1>1 DEF Whole, Blank
<1> HIDE DEF T
<1>6. Whole'
  BY <1>1, <1>3, <1>4, <1>5, EndingStep
<1> QED BY <1>1, <1>6, GoTyped DEF IInv, TypeOK

LEMMA CancelKeeps ==
  ASSUME IInv, NEW r \in Requests, Cancel(r)
  PROVE  IInv'
<1>0. TypeOK /\ Whole /\ UNCHANGED <<media, active, sweep, spoilt, stray>>
  BY DEF IInv, Cancel
<1>1. ASSUME req[r].pc \in Running, rows' \in InFlight(r),
             Unwind(r, Guarded(r),
                    IF req[r].pc = "uploading" \/ req[r].op = "duplicate" THEN {}
                    ELSE req[r].made \union StagingRow(r), TRUE)
      PROVE  IInv'
  <2> DEFINE trash == IF req[r].pc = "uploading" \/ req[r].op = "duplicate" THEN {}
                      ELSE req[r].made \union StagingRow(r)
             v == Cleaning(trash, TRUE)
  <2>1. trash \subseteq Own(r) /\ trash \in SUBSET Assets /\ Guarded(r) \subseteq Own(r)
    BY <1>0, OwnTyped DEF Own, Guarded
  <2> HIDE DEF trash
  <2>2. /\ v \in Handlers /\ v.pc \in {"done", "cleaning"} /\ v.op = "none"
        /\ v.made = {} /\ v.busy = {} /\ Pending(v) = trash
    BY <2>1, CleaningTyped
  <2>3. Go(r, v) /\ finals' = finals \ Guarded(r) /\ staged' = staged \ {r}
    BY <1>1 DEF Unwind, trash
  <2> HIDE DEF v
  <2>4. Ending(v) /\ finals \ Own(r) \subseteq finals' /\ finals' \subseteq finals
        /\ staged' \subseteq staged
    BY <2>1, <2>2, <2>3 DEF Ending
  <2>5. /\ rows' \in [Assets -> Rows]
        /\ \A a \in Assets : \/ rows'[a] = rows[a]
                             \/ a[1] = r /\ (rows'[a] = NoRow \/ rows'[a].media \in MediaIds)
    BY <1>1, InFlightRows
  <2> QED BY <1>0, <1>1, <2>1, <2>2, <2>3, <2>4, <2>5, DroppedStep
<1>2. ASSUME req[r].pc = "uploading", rows' = WithStaging(r), Go(r, Cleaning({}, TRUE)),
             UNCHANGED <<finals, staged>>
      PROVE  IInv'
  <2> DEFINE v == Cleaning({}, TRUE)
  <2>1. /\ v \in Handlers /\ v.pc \in {"done", "cleaning"} /\ v.op = "none"
        /\ v.made = {} /\ v.busy = {} /\ Pending(v) = {}
    BY CleaningTyped
  <2> HIDE DEF v
  <2>2. Go(r, v) /\ Ending(v) /\ req[r].pc \in Running /\ rows' \in InFlight(r)
    BY <1>2, <2>1 DEF Ending, v, Running, InFlight
  <2>3. /\ rows' \in [Assets -> Rows]
        /\ \A a \in Assets : \/ rows'[a] = rows[a]
                             \/ a[1] = r /\ (rows'[a] = NoRow \/ rows'[a].media \in MediaIds)
    BY <2>2, InFlightRows
  <2>4. Pending(v) \subseteq Own(r) /\ finals \ Own(r) \subseteq finals' /\ finals' \subseteq finals
        /\ staged' \subseteq staged
    BY <1>2, <2>1
  <2> QED BY <1>0, <2>1, <2>2, <2>3, <2>4, DroppedStep
<1>3. ASSUME req[r].pc = "dropping", Unwind(r, {}, StagingRow(r), TRUE), rows' = rows
      PROVE  IInv'
  BY <1>0, <1>3, LeavingStep DEF Unwind
<1>4. ASSUME req[r].pc \in {"cleaning", "purge", "purging"}, Go(r, Cleaning({}, TRUE)),
             UNCHANGED <<rows, finals, staged>>
      PROVE  IInv'
  <2>1. {} \in SUBSET StagingRow(r) /\ req[r].pc # "done"
    BY <1>4
  <2> QED BY <1>0, <1>4, <2>1, LeavingStep
<1> QED BY <1>1, <1>2, <1>3, <1>4 DEF Cancel

-----------------------------------------------------------------------------
(* The server dies; the reconciliation.                                    *)

\* A step of the sweep or of a crash: media stay, all requests in Q go on.
LEMMA CommonStep ==
  ASSUME TypeOK, Whole, NEW T \in SUBSET Assets, media' = media, req' = req,
         spoilt \subseteq spoilt', finals \ T \subseteq finals', finals' \subseteq finals,
         \A a \in Assets \ T : SameRow(a) /\ (a \in sweep'.doomed => a \in sweep.doomed),
         \A a \in T : /\ \A m \in MediaIds \ spoilt' : a \notin BlobIds(media[m])
                      /\ \A q \in Requests : Fresh(q) /\ a[1] = q => a \in req[q].made /\ ~Wanted(q)',
         Blank', StaleIsOver'
  PROVE  Whole'
<1>1. \A a \in Assets \ T : Stays(a)
  BY DEF Stays, Unmarked
<1>2. Takes(MediaIds, Requests, T)
  BY <1>1, AssetsFinite DEF Takes
<1>3. Aside(MediaIds, Requests)
  BY DEF Aside
<1>4. /\ \A m \in MediaIds \ spoilt' : \A a \in BlobIds(media'[m]) : Kept(a, m)'
      /\ \A q \in Requests : Unused(q)' /\ Ready(q)'
  BY <1>2, <1>3, Frame
<1>5. AllKept' /\ Apart' /\ Absent'
  BY <1>4 DEF Whole, AllKept, Apart, Absent, Exists
<1>6. \A q \in Requests : WellMade(q, req'[q]) /\ Target(q)'
  BY DEF Whole, Target, Fresh, Exists
<1> QED BY <1>4, <1>5, <1>6 DEF Whole

LEMMA StaleStagingKeeps ==
  ASSUME IInv, reconcile_abandoned_staging
  PROVE  IInv'
<1>1. TypeOK /\ Whole /\ UNCHANGED <<media, rows, finals, active, req, spoilt, stray>>
  BY DEF IInv, reconcile_abandoned_staging
<1>2. PICK stale \in SUBSET {r \in Requests \ active : IsStaging(r) /\ req[r].pc = "done"} :
        /\ sweep' = Sweeping(stale)
        /\ \E old \in SUBSET {q \in staged \ active : OldFile(q)} : staged' = staged \ old
  BY DEF reconcile_abandoned_staging
<1>3. /\ sweep' \in [pc : {"idle", "stale", "files"}, stale : SUBSET Requests, doomed : SUBSET Assets]
      /\ sweep'.doomed = {} /\ sweep'.stale = stale /\ staged' \subseteq staged
  BY <1>2 DEF Sweeping, Resting
<1>4. StaleIsOver'
  BY <1>1, <1>2, <1>3 DEF StaleIsOver, IsStaging
<1>5. Blank'
  BY <1>1 DEF Whole, Blank
<1>6. Whole'
  <2>1. /\ \A a \in Assets \ {} : SameRow(a) /\ (a \in sweep'.doomed => a \in sweep.doomed)
        /\ finals \ {} \subseteq finals' /\ finals' \subseteq finals /\ spoilt \subseteq spoilt'
        /\ {} \in SUBSET Assets
    BY <1>1, <1>3 DEF SameRow
  <2> QED BY <1>1, <1>4, <1>5, <2>1, CommonStep
<1> QED BY <1>1, <1>3, <1>6 DEF IInv, TypeOK

LEMMA DeleteStaleKeeps ==
  ASSUME IInv, DeleteStale
  PROVE  IInv'
<1>1. TypeOK /\ Whole /\ UNCHANGED <<media, finals, active, req, spoilt, stray>> /\ sweep.pc = "stale"
  BY DEF IInv, DeleteStale
<1>2. PICK r \in sweep.stale :
        /\ staged' = staged \ {r} /\ rows' = [rows EXCEPT ![Upload(r)] = NoRow]
        /\ sweep' = Sweeping(sweep.stale \ {r})
  BY DEF DeleteStale
<1>3. r \in Requests /\ Upload(r) \in Assets /\ rows[Upload(r)].status # "final"
  BY <1>1, <1>2, AssetsFinite DEF TypeOK, Whole, StaleIsOver, Upload, Assets
<1>4. /\ sweep' \in [pc : {"idle", "stale", "files"}, stale : SUBSET Requests, doomed : SUBSET Assets]
      /\ sweep'.doomed = {} /\ sweep'.stale = sweep.stale \ {r} /\ staged' \subseteq staged
  BY <1>1, <1>2 DEF Sweeping, Resting, TypeOK
<1>5. NoRow \in Rows /\ NoRow.status = "none" /\ rows \in [Assets -> Rows]
  BY <1>1 DEF NoRow, Row, Rows, TypeOK
<1>6. rows' \in [Assets -> Rows] /\ rows'[Upload(r)] = NoRow /\ \A a \in Assets \ {Upload(r)} : rows'[a] = rows[a]
  BY <1>2, <1>3, <1>5
<1>7. StaleIsOver'
  <2> SUFFICES ASSUME NEW q \in sweep.stale PROVE req[q].pc = "done" /\ rows'[Upload(q)].status # "final"
    BY <1>1, <1>4 DEF StaleIsOver, Upload
  <2>1. q \in Requests /\ Upload(q) \in Assets /\ req[q].pc = "done" /\ rows[Upload(q)].status # "final"
    BY <1>1, AssetsFinite DEF TypeOK, Whole, StaleIsOver, Upload, Assets
  <2> QED BY <1>5, <1>6, <2>1
<1>8. Blank'
  BY <1>1, <1>6 DEF Whole, Blank
<1>9. Whole'
  <2>1. /\ \A a \in Assets \ {} : SameRow(a) /\ (a \in sweep'.doomed => a \in sweep.doomed)
        /\ finals \ {} \subseteq finals' /\ finals' \subseteq finals /\ spoilt \subseteq spoilt'
        /\ {} \in SUBSET Assets
    BY <1>1, <1>3, <1>4, <1>5, <1>6 DEF SameRow
  <2> QED BY <1>1, <1>7, <1>8, <2>1, CommonStep
<1> QED BY <1>1, <1>4, <1>6, <1>9 DEF IInv, TypeOK

LEMMA DeleteOrphansKeeps ==
  ASSUME IInv, delete_orphan_assets
  PROVE  IInv'
<1> DEFINE T == {a \in Orphans : rows[a].status = "final"}
<1>1. /\ TypeOK /\ Whole /\ UNCHANGED <<media, finals, staged, active, req, stray>>
      /\ rows' = [a \in Assets |-> IF a \in Orphans THEN NoRow ELSE rows[a]]
      /\ spoilt' = spoilt \union {rows[a].media : a \in Orphans}
      /\ sweep' = [Resting EXCEPT !.pc = "files", !.doomed = T,
                     !.stale = {r \in Requests : Upload(r) \in Orphans /\ IsStaging(r)}]
  BY DEF IInv, delete_orphan_assets
<1>2. \A a \in Orphans : a \in Assets /\ rows[a].media \in MediaIds \intersect spoilt'
  BY <1>1 DEF Orphans, Whole, Blank
<1>3. T \in SUBSET Assets /\ spoilt \subseteq spoilt' /\ spoilt' \subseteq MediaIds
  BY <1>1, <1>2 DEF TypeOK
<1>4. /\ sweep' \in [pc : {"idle", "stale", "files"}, stale : SUBSET Requests, doomed : SUBSET Assets]
      /\ sweep'.pc = "files" /\ sweep'.doomed = T
  BY <1>1, <1>3 DEF Resting
<1>5. NoRow \in Rows /\ NoRow.status = "none" /\ rows \in [Assets -> Rows]
  BY <1>1 DEF NoRow, Row, Rows, TypeOK
<1>6. rows' \in [Assets -> Rows]
  BY <1>1, <1>5
<1>7. StaleIsOver'
  BY <1>4 DEF StaleIsOver
<1>8. Blank'
  BY <1>1 DEF Whole, Blank
<1>9. \A a \in Assets \ T : SameRow(a) /\ (a \in sweep'.doomed => a \in sweep.doomed)
  BY <1>1, <1>4, <1>5 DEF SameRow
<1>10. ASSUME NEW a \in T
       PROVE  /\ \A m \in MediaIds \ spoilt' : a \notin BlobIds(media[m])
              /\ \A q \in Requests : Fresh(q) /\ a[1] = q => a \in req[q].made /\ ~Wanted(q)'
  <2>0. a \in Assets /\ rows[a].status = "final" /\ rows[a].media \in spoilt'
    BY <1>2
  <2>1. ASSUME NEW m \in MediaIds \ spoilt', a \in BlobIds(media[m]) PROVE FALSE
    BY <1>1, <1>3, <2>0, <2>1 DEF Whole, AllKept, Kept
  <2>2. ASSUME NEW q \in Requests, Fresh(q), a[1] = q PROVE a \in req[q].made /\ ~Wanted(q)'
    <3>1. a \in req[q].made
      BY <1>1, <2>0, <2>2 DEF Whole, Unused
    <3>2. WellMade(q, req[q]) /\ Ready(q)
      BY <1>1 DEF Whole
    <3>3. req[q].pc \in Running
      <4>1. req[q].pc # "idle"
        BY <3>1, <3>2 DEF WellMade, New
      <4> QED BY <2>2, <4>1 DEF Fresh
    <3>4. ASSUME Wanted(q)' PROVE FALSE
      <4>1. Wanted(q) /\ req[q].m \notin spoilt'
        BY <1>1, <1>3, <3>4 DEF Wanted, Exists
      <4>2. rows[a].media = req[q].m
        BY <3>1, <3>2, <3>3, <4>1 DEF Ready, Kept
      <4> QED BY <2>0, <4>1, <4>2
    <3> QED BY <3>1, <3>4
  <2> QED BY <2>1, <2>2
<1>11. Whole'
  <2>1. finals \ T \subseteq finals' /\ finals' \subseteq finals /\ media' = media /\ req' = req
    BY <1>1
  <2> HIDE DEF T
  <2> QED BY <1>1, <1>3, <1>7, <1>8, <1>9, <1>10, <2>1, CommonStep
<1> QED BY <1>1, <1>3, <1>4, <1>6, <1>11 DEF IInv, TypeOK

LEMMA RemoveOrphansKeeps ==
  ASSUME IInv, RemoveOrphans
  PROVE  IInv'
<1> DEFINE T == sweep.doomed
<1>1. /\ TypeOK /\ Whole /\ UNCHANGED <<media, rows, active, req, spoilt, stray>>
      /\ finals' = finals \ T /\ staged' = staged \ sweep.stale /\ sweep' = Resting
  BY DEF IInv, RemoveOrphans
<1>2. /\ sweep' \in [pc : {"idle", "stale", "files"}, stale : SUBSET Requests, doomed : SUBSET Assets]
      /\ sweep'.doomed = {} /\ sweep'.stale = {} /\ T \in SUBSET Assets
  BY <1>1 DEF Resting, TypeOK
<1>3. StaleIsOver' /\ Blank'
  BY <1>1, <1>2 DEF StaleIsOver, Whole, Blank
<1>4. ASSUME NEW a \in T
      PROVE  /\ \A m \in MediaIds \ spoilt' : a \notin BlobIds(media[m])
             /\ \A q \in Requests : Fresh(q) /\ a[1] = q => a \in req[q].made /\ ~Wanted(q)'
  <2>1. LooseFor(Requests, a)
    BY <1>1, <1>2, LooseMarked DEF Unmarked
  <2>2. \A q \in Requests : Wanted(q)' <=> Wanted(q)
    BY <1>1 DEF Wanted, Exists
  <2> QED BY <1>1, <2>1, <2>2 DEF LooseFor
<1>5. Whole'
  <2>1. /\ finals \ T \subseteq finals' /\ finals' \subseteq finals /\ media' = media /\ req' = req
        /\ spoilt \subseteq spoilt'
        /\ \A a \in Assets \ T : SameRow(a) /\ (a \in sweep'.doomed => a \in sweep.doomed)
    BY <1>1, <1>2 DEF SameRow
  <2> HIDE DEF T
  <2> QED BY <1>1, <1>2, <1>3, <1>4, <2>1, CommonStep
<1> QED BY <1>1, <1>2, <1>5 DEF IInv, TypeOK

LEMMA CrashKeeps ==
  ASSUME IInv, Crash
  PROVE  IInv'
<1> DEFINE v == Cleaning({}, TRUE)
           Q == {q \in Requests : req[q].pc \in Over}
<1>1. /\ TypeOK /\ Whole /\ UNCHANGED <<media, rows, finals, staged, spoilt, stray>>
      /\ req' = [r \in Requests |-> IF req[r].pc \in Over THEN req[r] ELSE v]
      /\ active' = {} /\ sweep' = Resting
  BY DEF IInv, Crash
<1>2. /\ v \in Handlers /\ v.pc \in {"done", "cleaning"} /\ v.op = "none"
      /\ v.made = {} /\ v.busy = {} /\ Pending(v) = {}
  BY CleaningTyped
<1> HIDE DEF v
<1>3. Ending(v)
  BY <1>2 DEF Ending
<1>4. /\ req' \in [Requests -> Handlers] /\ Q \subseteq Requests
      /\ \A q \in Q : req'[q] = req[q]
      /\ \A q \in Requests \ Q : req'[q] = v
  BY <1>1, <1>2 DEF TypeOK
<1>5. /\ sweep' \in [pc : {"idle", "stale", "files"}, stale : SUBSET Requests, doomed : SUBSET Assets]
      /\ sweep'.doomed = {} /\ sweep'.stale = {}
  BY <1>1 DEF Resting
<1>6. StaleIsOver' /\ Blank'
  BY <1>1, <1>5 DEF StaleIsOver, Whole, Blank
<1>7. \A q \in Requests : req'[q].pc = "purge" => req'[q] = req[q] /\ q \in Q
  BY <1>2, <1>4
<1>8. \A q \in Requests : Fresh(q)' => Fresh(q)
  BY <1>2, <1>4 DEF Fresh, Running
<1> HIDE DEF Q
<1>9. \A a \in Assets \ {} : Stays(a)
  BY <1>1, <1>2, <1>4, <1>5 DEF Stays, Unmarked, SameRow
<1>10. Takes(MediaIds, Q, {}) /\ Aside(MediaIds, Q)
  BY <1>1, <1>4, <1>9 DEF Takes, Aside
<1>11. /\ \A m \in MediaIds \ spoilt' : \A a \in BlobIds(media'[m]) : Kept(a, m)'
       /\ \A q \in Q : Unused(q)' /\ Ready(q)'
  BY <1>1, <1>10, Frame
<1>12. AllKept' /\ Apart' /\ Absent'
  BY <1>1, <1>11 DEF Whole, AllKept, Apart, Absent, Exists
<1>13. \A q \in Requests \ Q : Unused(q)' /\ Ready(q)' /\ WellMade(q, req'[q]) /\ Target(q)'
  BY <1>3, <1>4, EndingFits
<1>14. \A q \in Q : WellMade(q, req'[q]) /\ Target(q)'
  <2> SUFFICES ASSUME NEW q \in Q PROVE Target(q)'
    BY <1>1, <1>4 DEF Whole
  <2>1. Target(q) /\ req'[q] = req[q] /\ q \in Requests
    BY <1>1, <1>4 DEF Whole
  <2> QED BY <1>1, <1>8, <2>1 DEF Target, Exists
<1>15. Whole'
  BY <1>4, <1>6, <1>11, <1>12, <1>13, <1>14 DEF Whole
<1> QED BY <1>1, <1>4, <1>5, <1>15 DEF IInv, TypeOK

-----------------------------------------------------------------------------
(* Whose the assets are.                                                   *)

\* The owner of the media that the request works on, or makes.
OwnerOf(r) == IF req[r].op \in Creating THEN req[r].seen.owner ELSE media[req[r].m].owner

Owning(r) ==
  req[r].pc \in Running /\ Wanted(r) /\ req[r].m \notin stray =>
    /\ \A a \in req[r].made : rows[a].owner = OwnerOf(r)
    /\ HoldsOwner(r) => req[r].seen.owner = media[req[r].m].owner
    /\ req[r].op = "upload" /\ IsStaging(r) =>
         rows[Upload(r)].owner = media[req[r].m].owner

OInv == IInv /\ OwnersAgree /\ \A r \in Requests : Owning(r)

\* The records of media in M stay or go; those of r's own assets may change.
Steady(M, r) ==
  /\ M \subseteq MediaIds /\ spoilt \subseteq spoilt'
  /\ \A m \in M : m \in stray => m \in stray'
  /\ \A m \in M : \A a \in Assets : rows'[a].media = m =>
       \/ rows'[a] = rows[a] \/ rows'[a].status = "none"
       \/ r \in Requests /\ Fresh(r) /\ a[1] = r

LEMMA SteadyMedia ==
  ASSUME OInv, IInv', NEW r, NEW M, Steady(M, r), NEW m \in M, m \notin stray' \union spoilt',
         media'[m].owner = media[m].owner,
         NEW a \in BlobIds(media[m]), a \in BlobIds(media'[m])
  PROVE  rows'[a].owner = media'[m].owner
<1>1. m \in MediaIds /\ m \notin stray \union spoilt /\ Whole
  BY DEF Steady, OInv, IInv
<1>2. a \in Assets
  BY <1>1, TypeFacts DEF OInv, IInv
<1>3. rows'[a].status = "final" /\ rows'[a].media = m
  BY <1>1 DEF IInv, Whole, AllKept, Kept
<1>4. ~(r \in Requests /\ Fresh(r) /\ a[1] = r)
  BY <1>1 DEF Whole, Unused
<1>5. rows'[a] = rows[a]
  BY <1>2, <1>3, <1>4 DEF Steady
<1> QED BY <1>1, <1>5 DEF OInv, OwnersAgree

\* The records of a request that is not r and goes on with a media in M.
LEMMA SteadyRows ==
  ASSUME IInv', NEW r, NEW M, Steady(M, r),
         NEW q \in Requests, q # r, req'[q] = req[q], req[q].pc \in Running,
         Wanted(q)', req[q].m \in M
  PROVE  /\ \A a \in req[q].made : rows'[a] = rows[a]
         /\ req[q].op = "upload" /\ IsStaging(q)' => rows'[Upload(q)] = rows[Upload(q)]
<1>1. /\ Whole' /\ WellMade(q, req[q]) /\ Ready(q)' /\ Unused(q)' /\ Fresh(q)'
      /\ req[q].made \subseteq Assets /\ Upload(q) \in Assets /\ Upload(q)[1] = q
  <2>1. Upload(q) \in Assets /\ Upload(q)[1] = q
    BY AssetsFinite DEF Upload, Assets
  <2>2. req'[q].made \in SUBSET Assets
    BY DEF IInv, TypeOK, Handlers
  <2> QED BY <2>1, <2>2 DEF IInv, Whole, Fresh
<1>2. ASSUME NEW a \in req[q].made
      PROVE  rows'[a].status = "final" /\ rows'[a].media = req[q].m /\ a[1] = q
  BY <1>1 DEF WellMade, Ready, Kept
<1>3. ASSUME req[q].op = "upload", IsStaging(q)'
      PROVE  rows'[Upload(q)] = rows[Upload(q)]
  <2>1. rows'[Upload(q)].status = "staging"
    BY <1>3 DEF IsStaging, Upload
  <2>2. Upload(q) \notin req[q].made
    BY <1>2, <2>1
  <2>3. rows'[Upload(q)].media = req[q].m
    BY <1>1, <2>1, <2>2 DEF Unused
  <2> QED BY <1>1, <2>1, <2>3 DEF Steady
<1>4. ASSUME NEW a \in req[q].made PROVE rows'[a] = rows[a]
  BY <1>1, <1>2, <1>4 DEF Steady
<1> QED BY <1>3, <1>4

LEMMA SteadyRequest ==
  ASSUME OInv, IInv', NEW r, NEW M, Steady(M, r),
         NEW q \in Requests, q # r, req'[q] = req[q], req[q].pc \in Running => req[q].m \in M,
         \/ req[q].op \in Creating
         \/ media'[req[q].m].owner = media[req[q].m].owner /\ Exists(req[q].m)
         \/ ~Exists(req[q].m)'
  PROVE  Owning(q)'
<1> SUFFICES ASSUME req[q].pc \in Running, Wanted(q)', req[q].m \notin stray'
             PROVE  /\ \A a \in req[q].made : rows'[a].owner = OwnerOf(q)'
                    /\ HoldsOwner(q) => req[q].seen.owner = media'[req[q].m].owner
                    /\ req[q].op = "upload" /\ IsStaging(q)' =>
                         rows'[Upload(q)].owner = media'[req[q].m].owner
  BY DEF Owning, HoldsOwner, Upload, IsStaging
<1>1. /\ \A a \in req[q].made : rows'[a] = rows[a]
      /\ req[q].op = "upload" /\ IsStaging(q)' => rows'[Upload(q)] = rows[Upload(q)]
  BY SteadyRows
<1>2. req[q].m \in M /\ req[q].m \notin stray /\ req[q].m \notin spoilt
  BY DEF Steady, Wanted
<1>3. \/ req[q].op \in Creating
      \/ media'[req[q].m].owner = media[req[q].m].owner /\ Exists(req[q].m)
  BY DEF Wanted
<1>4. Wanted(q)
  BY <1>2, <1>3 DEF Wanted
<1>5. OwnerOf(q)' = OwnerOf(q)
  BY <1>3 DEF OwnerOf
<1>6. /\ \A a \in req[q].made : rows[a].owner = OwnerOf(q)
      /\ HoldsOwner(q) => req[q].seen.owner = media[req[q].m].owner
      /\ req[q].op = "upload" /\ IsStaging(q) => rows[Upload(q)].owner = media[req[q].m].owner
  BY <1>2, <1>4 DEF OInv, Owning
<1>7. HoldsOwner(q) \/ req[q].op = "upload" => req[q].op \notin Creating
  BY DEF HoldsOwner, Creating
<1>8. req[q].op = "upload" /\ IsStaging(q)' => IsStaging(q)
  BY <1>1 DEF IsStaging, Upload
<1> QED BY <1>1, <1>3, <1>5, <1>6, <1>7, <1>8

\* A step that moves no media, whose request is r, if any.
LEMMA Unmoved ==
  ASSUME OInv, IInv', NEW r, Steady(MediaIds, r),
         \A m \in MediaIds : media'[m].owner = media[m].owner \/ ~Exists(m) \/ ~Exists(m)',
         \A q \in Requests : q # r => req'[q] = req[q] \/ req'[q].pc \notin Running,
         \A m \in MediaIds : Exists(m)' => Exists(m) \/ (r \in Requests /\ Fresh(r) /\ m = r),
         \A m \in MediaIds \ (stray' \union spoilt') :
           \A a \in BlobIds(media'[m]) \ BlobIds(media[m]) : rows'[a].owner = media'[m].owner,
         r \in Requests => Owning(r)'
  PROVE  OInv'
<1>1. ASSUME NEW m \in MediaIds \ (stray' \union spoilt'), NEW a \in BlobIds(media'[m])
      PROVE  rows'[a].owner = media'[m].owner
  <2>1. CASE a \in BlobIds(media[m])
    <3>1. Exists(m)
      BY <2>1, BlobsTyped DEF OInv, IInv, Whole, Absent
    <3>2. Exists(m)'
      BY <1>1, BlobsTyped DEF IInv, Whole, Absent
    <3> QED BY <2>1, <3>1, <3>2, SteadyMedia
  <2> QED BY <1>1, <2>1
<1>2. ASSUME NEW q \in Requests, q # r PROVE Owning(q)'
  <2>1. CASE req'[q].pc \notin Running
    BY <2>1 DEF Owning
  <2>2. CASE req'[q] = req[q] /\ req[q].pc \in Running
    <3>1. req[q].m \in MediaIds /\ Target(q)
      BY <2>2 DEF OInv, IInv, Whole, WellMade
    <3>2. req[q].op \in Creating \/ Exists(req[q].m) \/ ~Exists(req[q].m)'
      BY <2>2, <3>1 DEF Target
    <3> QED BY <1>2, <2>2, <3>1, <3>2, SteadyRequest
  <2> QED BY <1>2, <2>1, <2>2
<1>3. OwnersAgree'
  BY <1>1 DEF OwnersAgree
<1> QED BY <1>2, <1>3 DEF OInv

\* Media and histories stay; the request's own records may change.
LEMMA Quiet ==
  ASSUME OInv, IInv', NEW r, media' = media, stray' = stray, spoilt \subseteq spoilt',
         \A a \in Assets : \/ rows'[a] = rows[a] \/ rows'[a].status = "none"
                           \/ r \in Requests /\ Fresh(r) /\ a[1] = r,
         \A q \in Requests : q # r => req'[q] = req[q] \/ req'[q].pc \notin Running,
         r \in Requests => Owning(r)'
  PROVE  OInv'
<1>1. Steady(MediaIds, r)
  BY DEF Steady
<1>2. \A m \in MediaIds : Exists(m)' => Exists(m) \/ (r \in Requests /\ Fresh(r) /\ m = r)
  BY DEF Exists
<1>3. \A m \in MediaIds : media'[m].owner = media[m].owner \/ ~Exists(m) \/ ~Exists(m)'
  OBVIOUS
<1>4. \A m \in MediaIds \ (stray' \union spoilt') :
        \A a \in BlobIds(media'[m]) \ BlobIds(media[m]) : rows'[a].owner = media'[m].owner
  OBVIOUS
<1> QED BY <1>1, <1>2, <1>3, <1>4, Unmoved

\* A media is moved, with the assets that are known to be its own.
LEMMA MovingStep ==
  ASSUME OInv, IInv', NEW r \in Requests, NEW m \in MediaIds, Exists(m), NEW owner,
         NEW w, w.owner = owner, BlobIds(w) = BlobIds(media[m]),
         media' = [media EXCEPT ![m] = w], rows' = Owned(m, owner), Moved(m, owner),
         spoilt \subseteq spoilt',
         \A q \in Requests \ {r} : req'[q] = req[q], req'[r].pc \notin Running
  PROVE  OInv'
<1>1. /\ TypeOK /\ Whole /\ rows \in [Assets -> Rows] /\ None \notin Requests
      /\ media'[m] = w /\ \A x \in MediaIds \ {m} : media'[x] = media[x]
  BY AssetsFinite DEF OInv, IInv, TypeOK
<1>2. Owning(r)'
  BY DEF Owning
<1>3. CASE owner = media[m].owner
  <2>1. rows' = rows /\ stray' = stray
    BY <1>1, <1>3 DEF Owned, Moved
  <2>2. Steady(MediaIds, r)
    BY <2>1 DEF Steady
  <2>3. \A x \in MediaIds : media'[x].owner = media[x].owner \/ ~Exists(x) \/ ~Exists(x)'
    BY <1>1, <1>3
  <2>4. \A x \in MediaIds : Exists(x)' => Exists(x) \/ (r \in Requests /\ Fresh(r) /\ x = r)
    BY <1>1 DEF Exists
  <2>5. \A x \in MediaIds : BlobIds(media'[x]) = BlobIds(media[x])
    BY <1>1
  <2>6. \A x \in MediaIds \ (stray' \union spoilt') :
          \A a \in BlobIds(media'[x]) \ BlobIds(media[x]) : rows'[a].owner = media'[x].owner
    BY <2>5
  <2>7. \A q \in Requests : q # r => req'[q] = req[q] \/ req'[q].pc \notin Running
    OBVIOUS
  <2> QED BY <1>2, <2>2, <2>3, <2>4, <2>6, <2>7, Unmoved
<1>4. CASE owner # media[m].owner
  <2> DEFINE M == MediaIds \ {m}
  <2>1. /\ \A a \in Assets : /\ rows'[a].media = rows[a].media
                             /\ rows[a].media = m => rows'[a].owner = owner
                             /\ rows[a].media # m => rows'[a] = rows[a]
    BY <1>1, <1>4 DEF Owned, Rows
  <2>2. stray' = (stray \ {m}) \union {x \in {m} : \E q \in Requests : HoldsOwner(q) /\ req[q].m = m}
    BY <1>4 DEF Moved
  <2>3. Steady(M, r)
    BY <2>1, <2>2 DEF Steady
  <2>4. ASSUME NEW x \in MediaIds \ (stray' \union spoilt'), NEW a \in BlobIds(media'[x])
        PROVE  rows'[a].owner = media'[x].owner
    <3>1. CASE x = m
      <4>1. a \in Assets /\ rows[a].media = m
        BY <1>1, <2>4, <3>1, TypeFacts DEF Whole, AllKept, Kept
      <4> QED BY <1>1, <2>1, <3>1, <4>1
    <3>2. CASE x # m
      <4>1. media'[x] = media[x] /\ x \in M
        BY <1>1, <2>4, <3>2
      <4> HIDE DEF M
      <4> QED BY <2>3, <2>4, <4>1, SteadyMedia
    <3> QED BY <3>1, <3>2
  <2>5. ASSUME NEW q \in Requests \ {r}, req[q].m # m PROVE Owning(q)'
    <3>1. WellMade(q, req[q]) /\ req'[q] = req[q] /\ q # r
      BY <1>1, <2>5 DEF Whole
    <3>2. req[q].pc \in Running => req[q].m \in M /\ media'[req[q].m] = media[req[q].m]
      BY <1>1, <2>5, <3>1 DEF WellMade
    <3>3. CASE req[q].pc \notin Running
      BY <3>1, <3>3 DEF Owning
    <3>4. CASE req[q].pc \in Running
      <4>1. \/ media'[req[q].m].owner = media[req[q].m].owner /\ Exists(req[q].m)
            \/ ~Exists(req[q].m)'
        BY <3>2, <3>4 DEF Exists
      <4> HIDE DEF M
      <4> QED BY <2>3, <3>1, <3>2, <4>1, SteadyRequest
    <3> QED BY <3>3, <3>4
  <2>6. ASSUME NEW q \in Requests \ {r}, req[q].m = m PROVE Owning(q)'
    <3> SUFFICES ASSUME req[q].pc \in Running, Wanted(q)', m \notin stray'
                 PROVE  /\ \A a \in req[q].made : rows'[a].owner = OwnerOf(q)'
                        /\ ~HoldsOwner(q)
                        /\ req[q].op = "upload" /\ IsStaging(q)' => rows'[Upload(q)].owner = owner
      BY <1>1, <2>6 DEF Owning, HoldsOwner, Upload, IsStaging
    <3>1. /\ WellMade(q, req[q]) /\ Unused(q) /\ req'[q] = req[q] /\ Fresh(q)
          /\ WellMade(q, req[q]) /\ Ready(q)' /\ Unused(q)' /\ Fresh(q)'
      BY <1>1 DEF Whole, Fresh, IInv
    <3>2. /\ req[q].made \subseteq Assets /\ Upload(q) \in Assets /\ Upload(q)[1] = q
      <4>1. Upload(q) \in Assets /\ Upload(q)[1] = q
        BY AssetsFinite DEF Upload, Assets
      <4> QED BY <1>1, <4>1, TypeFacts
    <3>3. req[q].op \notin Creating
      BY <2>6, <3>1 DEF WellMade, Unused
    <3>4. OwnerOf(q)' = owner
      BY <1>1, <2>6, <3>1, <3>3 DEF OwnerOf
    <3>5. ASSUME NEW a \in req[q].made
          PROVE  rows'[a].owner = owner /\ rows'[a].status = "final"
      <4>1. rows'[a].media = m /\ rows'[a].status = "final"
        BY <2>6, <3>1 DEF Ready, Kept
      <4> QED BY <2>1, <3>2, <4>1
    <3>6. ~HoldsOwner(q)
      BY <2>2, <2>6
    <3>7. ASSUME req[q].op = "upload", IsStaging(q)'
          PROVE  rows'[Upload(q)].owner = owner
      <4>1. rows'[Upload(q)].status = "staging"
        BY <3>7 DEF IsStaging, Upload
      <4>2. Upload(q) \notin req[q].made
        BY <3>5, <4>1
      <4>3. rows'[Upload(q)].media = m
        BY <2>6, <3>1, <3>2, <4>1, <4>2 DEF Unused
      <4> QED BY <2>1, <3>2, <4>3
    <3> QED BY <3>4, <3>5, <3>6, <3>7
  <2>7. OwnersAgree'
    BY <2>4 DEF OwnersAgree
  <2> QED BY <1>2, <2>5, <2>6, <2>7 DEF OInv
<1> QED BY <1>3, <1>4

\* A write that moves nothing: what is new in the media is the request's own.
LEMMA WritingOwners ==
  ASSUME OInv, IInv', NEW r \in Requests, NEW w, NEW next, Write(r, w, next),
         req[r].pc \in Running, req[r].op \in Creating \/ Exists(req[r].m),
         w = NoMedia \/ w.owner = OwnerOf(r),
         BlobIds(w) \subseteq BlobIds(media[req[r].m]) \union req[r].made,
         next.pc \notin Running, stray' = stray
  PROVE  OInv'
<1>0. PICK m \in MediaIds : m = req[r].m
  BY DEF OInv, IInv, Whole, WellMade
<1>1. /\ TypeOK /\ Whole /\ WellMade(r, req[r]) /\ Unused(r) /\ Fresh(r) /\ Target(r)
      /\ media'[m] = w /\ \A x \in MediaIds \ {m} : media'[x] = media[x]
      /\ spoilt \subseteq spoilt'
  BY <1>0 DEF OInv, IInv, Whole, TypeOK, Fresh, Write, Put
<1>2. req'[r].pc \notin Running /\ \A q \in Requests \ {r} : req'[q] = req[q]
  <2>1. CASE Go(r, next)
    BY <1>1, <2>1 DEF Go, TypeOK
  <2>2. CASE Abort(r, TRUE)
    BY <1>1, <2>2, AbortTyped
  <2> QED BY <2>1, <2>2 DEF Write
<1>3. req[r].op \in Creating => m = r /\ ~Exists(m) /\ media[m] = NoMedia
  BY <1>0, <1>1 DEF WellMade, Unused, Whole, Absent
<1>4. rows' = rows
  <2>1. CASE Exists(m) /\ w # NoMedia
    <3>1. w.owner = media[m].owner
      BY <1>0, <1>3, <2>1 DEF OwnerOf
    <3> QED BY <1>0, <1>1, <2>1, <3>1 DEF Write, Put, Owned, TypeOK
  <2> QED BY <1>0, <2>1 DEF Write, Put
<1>5. Steady(MediaIds, r) /\ Owning(r)'
  BY <1>1, <1>2, <1>4 DEF Steady, Owning
<1>6. \A x \in MediaIds : media'[x].owner = media[x].owner \/ ~Exists(x) \/ ~Exists(x)'
  <2>1. CASE w = NoMedia
    BY <1>1, <2>1, BlobsTyped DEF Exists
  <2>2. CASE w # NoMedia
    BY <1>0, <1>1, <1>3, <2>2 DEF Exists, OwnerOf
  <2> QED BY <2>1, <2>2
<1>7. \A x \in MediaIds : Exists(x)' => Exists(x) \/ (r \in Requests /\ Fresh(r) /\ x = r)
  BY <1>0, <1>1, <1>3 DEF Exists
<1>8. ASSUME NEW x \in MediaIds \ (stray' \union spoilt'), NEW a \in BlobIds(media'[x]) \ BlobIds(media[x])
      PROVE  rows'[a].owner = media'[x].owner
  <2>1. x = m /\ a \in req[r].made
    BY <1>0, <1>1, <1>8
  <2>2. Wanted(r) /\ m \notin stray
    BY <1>0, <1>1, <1>8, <2>1 DEF Wanted
  <2>3. rows[a].owner = OwnerOf(r)
    BY <1>0, <2>1, <2>2 DEF OInv, Owning
  <2>4. w # NoMedia
    BY <1>1, <1>8, <2>1, BlobsTyped
  <2> QED BY <1>1, <1>4, <2>1, <2>3, <2>4
<1>9. \A q \in Requests : q # r => req'[q] = req[q] \/ req'[q].pc \notin Running
  BY <1>2
<1> QED BY <1>5, <1>6, <1>7, <1>8, <1>9, Unmoved

\* A request begins: it has made nothing, and an upload has read the owner.
LEMMA BeginOwners ==
  ASSUME OInv, IInv', NEW r \in Requests,
         BeginUpload(r) \/ create_uploaded(r) \/ duplicate(r) \/ ReadToEdit(r)
  PROVE  OInv'
<1>1. /\ TypeOK /\ Whole /\ WellMade(r, req[r]) /\ Unused(r) /\ WellMade(r, req'[r])
  BY DEF OInv, IInv, Whole
<1>2. UNCHANGED <<media, rows, spoilt, stray>> /\ req[r].pc = "idle"
  BY DEF BeginUpload, create_uploaded, duplicate, ReadToEdit, Begin
<1>3. \A q \in Requests \ {r} : req'[q] = req[q]
  BY <1>1 DEF BeginUpload, create_uploaded, duplicate, ReadToEdit, Begin, Go, TypeOK
<1>4. ~IsStaging(r)
  <2>1. Upload(r) \in Assets /\ Upload(r)[1] = r
    BY AssetsFinite DEF Upload, Assets
  <2>2. req[r].made = {} /\ req[r].op # "upload" /\ Fresh(r)
    BY <1>1, <1>2 DEF WellMade, New, Fresh
  <2> QED BY <1>1, <2>1, <2>2 DEF Unused, IsStaging
<1>5. req'[r].made = {} /\ (HoldsOwner(r)' => req'[r].seen.owner = media[req'[r].m].owner)
  <2>1. CASE BeginUpload(r)
    <3>1. PICK m \in MediaIds :
            Begin(r, At("upload", "uploading", m, [NoMedia EXCEPT !.owner = media[m].owner]))
      BY <2>1 DEF BeginUpload
    <3>2. media[m].owner \in Teams \union {None}
      BY <1>1 DEF TypeOK, Media
    <3>3. /\ [NoMedia EXCEPT !.owner = media[m].owner] \in Media
          /\ [NoMedia EXCEPT !.owner = media[m].owner].owner = media[m].owner
      BY <3>2, BlobsTyped DEF Media
    <3> DEFINE seen == [NoMedia EXCEPT !.owner = media[m].owner]
               v == At("upload", "uploading", m, seen)
    <3>4. v.m = m /\ v.made = {} /\ v.seen.owner = media[m].owner
      <4>1. seen.owner = media[m].owner
        BY <3>3
      <4> HIDE DEF seen
      <4> QED BY <4>1 DEF At, New
    <3> HIDE DEF v
    <3>5. req'[r] = v
      BY <1>1, <3>1 DEF Begin, Go, TypeOK, v
    <3> QED BY <3>4, <3>5
  <2>2. CASE create_uploaded(r)
    <3>1. PICK kind \in {"image", "av", "deck"}, title \in Titles, owner \in Teams :
            Begin(r, At("create", "ingest", r, Medium(kind, title, owner, {})))
      BY <2>2 DEF create_uploaded
    <3>2. req'[r] = At("create", "ingest", r, Medium(kind, title, owner, {}))
      BY <1>1, <3>1 DEF Begin, Go, TypeOK
    <3> QED BY <3>2 DEF At, New, HoldsOwner
  <2>3. CASE duplicate(r)
    <3>1. PICK s \in MediaIds, title \in Titles, owner \in Teams :
            Begin(r, [At("duplicate", "copy", r, Medium(media[s].kind, title, owner, {}))
                        EXCEPT !.pick = media[s].content])
      BY <2>3 DEF duplicate
    <3>2. req'[r] = [At("duplicate", "copy", r, Medium(media[s].kind, title, owner, {}))
                        EXCEPT !.pick = media[s].content]
      BY <1>1, <3>1 DEF Begin, Go, TypeOK
    <3> QED BY <3>2 DEF At, New, HoldsOwner
  <2>4. CASE ReadToEdit(r)
    <3>1. PICK m \in MediaIds, op \in Editing :
            \E pick \in SUBSET media[m].draft.pages :
              Begin(r, [At(op, "write", m, media[m]) EXCEPT !.pick = pick])
      BY <2>4 DEF ReadToEdit, Editing
    <3>2. PICK pick : req'[r] = [At(op, "write", m, media[m]) EXCEPT !.pick = pick]
      BY <1>1, <3>1 DEF Begin, Go, TypeOK
    <3> QED BY <3>2 DEF At, New, HoldsOwner
  <2> QED BY <2>1, <2>2, <2>3, <2>4
<1>6. Owning(r)'
  BY <1>2, <1>4, <1>5 DEF Owning, IsStaging, Upload
<1>7. \A q \in Requests : q # r => req'[q] = req[q] \/ req'[q].pc \notin Running
  BY <1>3
<1> QED BY <1>2, <1>6, <1>7, Quiet

\* The record of an upload has the owner that was read.
LEMMA CreateStagingOwners ==
  ASSUME OInv, IInv', NEW r \in Requests, create_staging(r)
  PROVE  OInv'
<1>1. /\ TypeOK /\ Whole /\ WellMade(r, req[r]) /\ Fresh(r) /\ rows \in [Assets -> Rows]
      /\ req[r].pc = "uploading" /\ req[r].m \in MediaIds /\ req[r].op = "upload"
      /\ Upload(r) \in Assets /\ Upload(r)[1] = r
      /\ UNCHANGED <<media, spoilt, stray>>
  <2>1. Upload(r) \in Assets /\ Upload(r)[1] = r
    BY AssetsFinite DEF Upload, Assets
  <2> QED BY <2>1 DEF OInv, IInv, Whole, TypeOK, WellMade, Fresh, Running, create_staging
<1>2. /\ \A a \in Assets \ {Upload(r)} : rows'[a] = rows[a]
      /\ rows'[Upload(r)].owner = req[r].seen.owner
  BY <1>1 DEF create_staging, WithStaging, Row
<1>3. /\ req'[r] = At("upload", "staged", req[r].m, NoMedia)
      /\ \A q \in Requests : q # r => req'[q] = req[q] \/ req'[q].pc \notin Running
  BY <1>1 DEF create_staging, Go, TypeOK
<1>4. req'[r].made = {} /\ req'[r].m = req[r].m /\ req'[r].pc = "staged" /\ req'[r].op = "upload"
  BY <1>3 DEF At, New
<1>5. ASSUME Wanted(r)', req[r].m \notin stray
      PROVE  rows'[Upload(r)].owner = media[req[r].m].owner
  <2>1. Wanted(r) /\ HoldsOwner(r)
    BY <1>1, <1>4, <1>5 DEF Wanted, HoldsOwner, Exists, Creating
  <2>2. req[r].seen.owner = media[req[r].m].owner
    BY <1>1, <1>5, <2>1 DEF OInv, Owning, Running
  <2> QED BY <1>2, <2>2
<1>6. Owning(r)'
  <2> SUFFICES ASSUME Wanted(r)', req'[r].m \notin stray'
               PROVE  /\ \A a \in req'[r].made : rows'[a].owner = OwnerOf(r)'
                      /\ ~HoldsOwner(r)'
                      /\ rows'[Upload(r)].owner = media'[req'[r].m].owner
    BY DEF Owning, Upload
  <2> QED BY <1>1, <1>4, <1>5 DEF HoldsOwner
<1>7. \A a \in Assets : \/ rows'[a] = rows[a] \/ rows'[a].status = "none"
                        \/ r \in Requests /\ Fresh(r) /\ a[1] = r
  BY <1>1, <1>2
<1> QED BY <1>1, <1>3, <1>6, <1>7, Quiet

LEMMA ReadMediaOwners ==
  ASSUME OInv, IInv', NEW r \in Requests, ReadMedia(r)
  PROVE  OInv'
<1>1. /\ TypeOK /\ Whole /\ WellMade(r, req[r]) /\ req[r] \in Handlers
      /\ req[r].pc = "staged" /\ UNCHANGED <<media, rows, spoilt, stray>>
  BY DEF OInv, IInv, Whole, TypeOK, ReadMedia
<1>2. PICK pick \in SUBSET DraftPages(media[req[r].m]) :
        Go(r, [req[r] EXCEPT !.seen = media[req[r].m], !.pick = pick,
                 !.pc = IF media[req[r].m].kind = "av" THEN "promote" ELSE "ingest"])
  BY DEF ReadMedia
<1>3. /\ req'[r].seen = media[req[r].m] /\ req'[r].m = req[r].m /\ req'[r].made = {}
      /\ req'[r].op = req[r].op /\ req[r].op = "upload"
  <2>1. req[r].made = {} /\ req[r].op = "upload"
    BY <1>1 DEF WellMade
  <2> QED BY <1>1, <1>2, <2>1 DEF Go, TypeOK, Handlers
<1>4. Owning(r)'
  <2> SUFFICES ASSUME Wanted(r)', req'[r].m \notin stray'
               PROVE  /\ req'[r].seen.owner = media'[req'[r].m].owner
                      /\ IsStaging(r)' => rows'[Upload(r)].owner = media'[req'[r].m].owner
    BY <1>3 DEF Owning, Upload
  <2>1. Wanted(r) /\ req[r].pc \in Running /\ req[r].m \notin stray
    BY <1>1, <1>3 DEF Wanted, Exists, Running
  <2>2. IsStaging(r) => rows[Upload(r)].owner = media[req[r].m].owner
    BY <1>3, <2>1 DEF OInv, Owning
  <2> QED BY <1>1, <1>3, <2>2 DEF IsStaging, Upload
<1>5. \A q \in Requests : q # r => req'[q] = req[q] \/ req'[q].pc \notin Running
  BY <1>1, <1>2 DEF Go, TypeOK
<1> QED BY <1>1, <1>4, <1>5, Quiet

\* A file is stored, and its record is not there yet.
LEMMA FileOwners ==
  ASSUME OInv, IInv', NEW r \in Requests,
         ingest_final_from_path(r) \/ copy_final_file(r) \/ promote_file(r)
  PROVE  OInv'
<1>1. /\ TypeOK /\ req[r] \in Handlers /\ UNCHANGED <<media, rows, spoilt, stray>>
  BY DEF OInv, IInv, TypeOK, ingest_final_from_path, copy_final_file, promote_file
<1>2. /\ req'[r].op = req[r].op /\ req'[r].pc = req[r].pc /\ req'[r].m = req[r].m
      /\ req'[r].seen = req[r].seen /\ req'[r].made = req[r].made
  <2>1. CASE ingest_final_from_path(r)
    <3>1. req'[r] = [req[r] EXCEPT !.busy = {NextPage(r)}]
      BY <1>1, <2>1 DEF ingest_final_from_path, Go, TypeOK
    <3> QED BY <1>1, <3>1 DEF Handlers
  <2>2. CASE copy_final_file(r)
    <3>1. PICK page : req'[r] = [req[r] EXCEPT !.busy = {NextPage(r)}, !.pick = @ \ {page}]
      BY <1>1, <2>2 DEF copy_final_file, Go, TypeOK
    <3> QED BY <1>1, <3>1 DEF Handlers
  <2>3. CASE promote_file(r)
    <3>1. req'[r] = [req[r] EXCEPT !.busy = {Upload(r)}]
      BY <1>1, <2>3 DEF promote_file, Go, TypeOK
    <3> QED BY <1>1, <3>1 DEF Handlers
  <2> QED BY <2>1, <2>2, <2>3
<1>3. \A q \in Requests : q # r => req'[q] = req[q] \/ req'[q].pc \notin Running
  BY <1>1 DEF ingest_final_from_path, copy_final_file, promote_file, Go, TypeOK
<1>4. Owning(r)'
  <2>1. Owning(r)
    BY DEF OInv
  <2> QED BY <1>1, <1>2, <2>1
    DEF Owning, Wanted, Exists, OwnerOf, HoldsOwner, IsStaging, Upload
<1> QED BY <1>1, <1>3, <1>4, Quiet

LEMMA CreateFinalOwners ==
  ASSUME OInv, IInv', NEW r \in Requests, create_final(r)
  PROVE  OInv'
<1>1. /\ TypeOK /\ Whole /\ WellMade(r, req[r]) /\ req[r] \in Handlers /\ Fresh(r)
      /\ req[r].pc \in {"ingest", "copy"} /\ UNCHANGED <<media, spoilt, stray>>
      /\ rows' = WithFinal(r) /\ Owning(r)
  BY DEF OInv, IInv, Whole, TypeOK, Fresh, Running, create_final
<1>2. /\ req[r].made \in SUBSET Assets /\ req[r].busy \in SUBSET Assets
      /\ Upload(r) \in Assets /\ \A a \in req[r].busy : a[1] = r
  BY <1>1, AssetsFinite DEF Handlers, Upload, Assets, WellMade
<1>3. /\ \A a \in Assets \ req[r].busy : rows'[a] = rows[a]
      /\ \A a \in req[r].busy : rows'[a].owner = req[r].seen.owner /\ rows'[a].status = "final"
  BY <1>1, <1>2 DEF WithFinal, Row
<1>4. /\ req'[r].op = req[r].op /\ req'[r].pc = req[r].pc /\ req'[r].m = req[r].m
      /\ req'[r].seen = req[r].seen /\ req'[r].made = req[r].made \union req[r].busy
  <2>1. req'[r] = [req[r] EXCEPT !.made = @ \union req[r].busy, !.busy = {}]
    BY <1>1 DEF create_final, Go, TypeOK
  <2> QED BY <1>1, <2>1 DEF Handlers
<1>5. \A q \in Requests : q # r => req'[q] = req[q] \/ req'[q].pc \notin Running
  BY <1>1 DEF create_final, Go, TypeOK
<1>6. Owning(r)'
  <2> SUFFICES ASSUME Wanted(r)', req[r].m \notin stray
               PROVE  /\ \A a \in req'[r].made : rows'[a].owner = OwnerOf(r)'
                      /\ HoldsOwner(r)' => req'[r].seen.owner = media'[req'[r].m].owner
                      /\ req'[r].op = "upload" /\ IsStaging(r)' =>
                           rows'[Upload(r)].owner = media'[req'[r].m].owner
    BY <1>1, <1>4 DEF Owning
  <2>1. Wanted(r) /\ req[r].pc \in Running
    BY <1>1, <1>4 DEF Wanted, Exists, Running
  <2>2. /\ \A a \in req[r].made : rows[a].owner = OwnerOf(r)
        /\ HoldsOwner(r) => req[r].seen.owner = media[req[r].m].owner
        /\ req[r].op = "upload" /\ IsStaging(r) => rows[Upload(r)].owner = media[req[r].m].owner
    BY <1>1, <2>1 DEF Owning
  <2>3. OwnerOf(r)' = OwnerOf(r) /\ (HoldsOwner(r)' <=> HoldsOwner(r))
    BY <1>1, <1>4 DEF OwnerOf, HoldsOwner
  <2>4. req[r].seen.owner = OwnerOf(r)
    <3>1. CASE req[r].op \in Creating
      BY <3>1 DEF OwnerOf
    <3>2. CASE req[r].op \notin Creating
      <4>1. req[r].op = "upload" /\ req[r].pc = "ingest"
        BY <1>1, <3>2 DEF WellMade, Creating
      <4> QED BY <2>2, <3>2, <4>1 DEF HoldsOwner, OwnerOf
    <3> QED BY <3>1, <3>2
  <2>5. \A a \in req'[r].made : rows'[a].owner = OwnerOf(r)'
    BY <1>2, <1>3, <1>4, <2>2, <2>3, <2>4
  <2>6. ASSUME req[r].op = "upload", IsStaging(r)'
        PROVE  rows'[Upload(r)].owner = media'[req'[r].m].owner
    <3>1. rows'[Upload(r)].status = "staging"
      BY <2>6 DEF IsStaging, Upload
    <3>2. rows'[Upload(r)] = rows[Upload(r)]
      BY <1>2, <1>3, <3>1
    <3> QED BY <1>1, <1>4, <2>2, <2>6, <3>1, <3>2 DEF IsStaging
  <2> QED BY <1>1, <1>4, <2>2, <2>3, <2>5, <2>6
<1>7. \A a \in Assets : \/ rows'[a] = rows[a] \/ rows'[a].status = "none"
                        \/ r \in Requests /\ Fresh(r) /\ a[1] = r
  BY <1>1, <1>2, <1>3
<1> QED BY <1>1, <1>5, <1>6, <1>7, Quiet

LEMMA PromoteOwners ==
  ASSUME OInv, IInv', NEW r \in Requests, promote_staging(r)
  PROVE  OInv'
<1>1. /\ TypeOK /\ Whole /\ WellMade(r, req[r]) /\ req[r] \in Handlers /\ Fresh(r)
      /\ req[r].pc = "promote" /\ req[r].op = "upload" /\ UNCHANGED <<media, spoilt, stray>>
      /\ rows' = WithPromoted(r) /\ Owning(r) /\ IsStaging(r)
  BY DEF OInv, IInv, Whole, TypeOK, Fresh, Running, promote_staging, WellMade
<1>2. /\ req[r].busy \subseteq {Upload(r)} /\ Upload(r) \in Assets /\ Upload(r)[1] = r
      /\ rows \in [Assets -> Rows]
  BY <1>1, AssetsFinite DEF Upload, Assets, WellMade, TypeOK
<1>3. /\ \A a \in Assets \ {Upload(r)} : rows'[a] = rows[a]
      /\ rows'[Upload(r)].owner = rows[Upload(r)].owner /\ rows'[Upload(r)].status # "staging"
  BY <1>1, <1>2 DEF WithPromoted, Rows
<1>4. /\ req'[r].op = req[r].op /\ req'[r].pc = req[r].pc /\ req'[r].m = req[r].m
      /\ req'[r].made = req[r].busy
  <2>1. req'[r] = [req[r] EXCEPT !.made = req[r].busy, !.busy = {}]
    BY <1>1 DEF promote_staging, Go, TypeOK
  <2> QED BY <1>1, <2>1 DEF Handlers
<1>5. \A q \in Requests : q # r => req'[q] = req[q] \/ req'[q].pc \notin Running
  BY <1>1 DEF promote_staging, Go, TypeOK
<1>6. Owning(r)'
  <2> SUFFICES ASSUME Wanted(r)', req[r].m \notin stray, NEW a \in req[r].busy
               PROVE  rows'[a].owner = OwnerOf(r)'
    BY <1>1, <1>3, <1>4 DEF Owning, HoldsOwner, IsStaging, Upload
  <2>1. Wanted(r) /\ req[r].pc \in Running /\ a = Upload(r) /\ req[r].op \notin Creating
    BY <1>1, <1>2, <1>4 DEF Wanted, Exists, Running, Creating
  <2>2. rows[Upload(r)].owner = media[req[r].m].owner
    BY <1>1, <2>1 DEF Owning
  <2> QED BY <1>1, <1>3, <1>4, <2>1, <2>2 DEF OwnerOf
<1>7. \A a \in Assets : \/ rows'[a] = rows[a] \/ rows'[a].status = "none"
                        \/ r \in Requests /\ Fresh(r) /\ a[1] = r
  BY <1>1, <1>2, <1>3
<1> QED BY <1>1, <1>5, <1>6, <1>7, Quiet

\* The writes that keep the owner.
LEMMA WriterOwners ==
  ASSUME OInv, IInv', NEW r \in Requests,
         \/ create_with_id(r) \/ replace_content(r) \/ add_deck_source(r)
         \/ begin_deck_revision(r) \/ commit_deck(r) \/ delete_current(r)
  PROVE  OInv'
<1> DEFINE m == req[r].m
<1>0. req[r].op \in Creating \union Editing \union {"upload"}
  BY DEF create_with_id, replace_content, add_deck_source, begin_deck_revision, commit_deck,
     delete_current, Editing
<1>1. /\ TypeOK /\ Whole /\ req[r] \in Handlers /\ WellMade(r, req[r])
      /\ req[r].pc \in Running /\ m \in MediaIds /\ req[r].seen \in Media /\ media[m] \in Media
      /\ req[r].made \in SUBSET Assets /\ req[r].pick \in SUBSET Assets
      /\ OwnerOf(r) = IF req[r].op \in Creating THEN req[r].seen.owner ELSE media[m].owner
  BY <1>0, AtWrite DEF OInv, OwnerOf
<1>2. \A drop : Dropping(drop).pc \notin Running
  BY DEF Dropping, New, Running
<1>3. ASSUME IsCurrent(r)
      PROVE  /\ Exists(m) /\ media[m].content = req[r].seen.content
             /\ media[m].draft = req[r].seen.draft /\ BlobIds(media[m]) = BlobIds(req[r].seen)
  BY <1>1, <1>3, Current DEF OInv
<1>4. CASE create_with_id(r)
  <2> DEFINE w == [req[r].seen EXCEPT !.content = req[r].made]
  <2>1. Write(r, w, Dropping({})) /\ stray' = stray /\ req[r].op \in Creating
    BY <1>4 DEF create_with_id
  <2>2. w.owner = OwnerOf(r) /\ BlobIds(w) = req[r].made
    BY <1>1, <2>1 DEF Media, WellMade, BlobIds, content_blob_ids, NoDraft
  <2> HIDE DEF w
  <2> QED BY <1>1, <1>2, <2>1, <2>2, WritingOwners
<1>5. CASE replace_content(r)
  <2> DEFINE w == [media[m] EXCEPT !.content = req[r].made, !.draft = NoDraft]
             drop == content_blob_ids(req[r].seen)
  <2>1. /\ Write(r, w, Dropping(drop)) /\ stray' = stray /\ req[r].op = "upload"
        /\ Exists(m) /\ req[r].op \notin Creating
    BY <1>3, <1>5 DEF replace_content, Creating
  <2>2. w.owner = OwnerOf(r) /\ BlobIds(w) = req[r].made
    BY <1>1, <2>1, BlobsTyped DEF Media, BlobIds, content_blob_ids, NoDraft
  <2> HIDE DEF w, drop
  <2> QED BY <1>1, <1>2, <2>1, <2>2, WritingOwners
<1>6. CASE add_deck_source(r)
  <2> DEFINE w == [media[m] EXCEPT !.draft = Drafted(r)]
             drop == req[r].pick \ content_blob_ids(req[r].seen)
  <2>1. /\ Write(r, w, Dropping(drop)) /\ stray' = stray /\ req[r].op = "upload"
        /\ Exists(m) /\ req[r].op \notin Creating /\ BlobIds(media[m]) = BlobIds(req[r].seen)
    BY <1>3, <1>6 DEF add_deck_source, Creating
  <2>2. w.owner = OwnerOf(r) /\ BlobIds(w) = media[m].content \union Drafted(r).pages
    BY <1>1, <2>1 DEF Media, BlobIds, content_blob_ids
  <2>3. Drafted(r).pages \subseteq BlobIds(media[m]) \union req[r].made
    BY <1>1, <2>1, BlobsTyped DEF Drafted
  <2>4. BlobIds(w) \subseteq BlobIds(media[m]) \union req[r].made
    BY <2>2, <2>3 DEF BlobIds, content_blob_ids
  <2> HIDE DEF w, drop
  <2> QED BY <1>1, <1>2, <2>1, <2>2, <2>4, WritingOwners
<1>7. CASE begin_deck_revision(r)
  <2> DEFINE draft == [rev |-> r, pages |-> req[r].seen.content]
             w == [media[m] EXCEPT !.draft = draft]
  <2>1. /\ Write(r, w, Dropping({})) /\ stray' = stray /\ Exists(m)
        /\ req[r].op \notin Creating /\ req[r].seen.content = media[m].content
    BY <1>3, <1>7 DEF begin_deck_revision, Creating
  <2>2. draft.pages = media[m].content
    BY <2>1
  <2> HIDE DEF draft
  <2>3. w.owner = OwnerOf(r) /\ BlobIds(w) \subseteq BlobIds(media[m])
    BY <1>1, <2>1, <2>2 DEF Media, BlobIds, content_blob_ids
  <2> HIDE DEF w
  <2> QED BY <1>1, <1>2, <2>1, <2>3, WritingOwners
<1>8. CASE commit_deck(r)
  <2> DEFINE w == [media[m] EXCEPT !.content = req[r].pick, !.draft = NoDraft]
  <2>1. /\ Write(r, w, Dropping(Superseded(r))) /\ stray' = stray /\ Exists(m)
        /\ req[r].op \notin Creating /\ req[r].op = "commit"
        /\ req[r].seen.draft = media[m].draft
    BY <1>3, <1>8 DEF commit_deck, Creating
  <2>2. req[r].pick \subseteq BlobIds(media[m])
    BY <1>1, <2>1 DEF WellMade, BlobIds
  <2>3. w.owner = OwnerOf(r) /\ BlobIds(w) = req[r].pick
    BY <1>1, <2>1, BlobsTyped DEF Media, BlobIds, content_blob_ids, NoDraft
  <2> HIDE DEF w
  <2> QED BY <1>1, <1>2, <2>1, <2>2, <2>3, WritingOwners
<1>9. CASE delete_current(r)
  <2> DEFINE next == [New EXCEPT !.pc = "purge", !.m = m]
  <2>1. /\ Write(r, NoMedia, next) /\ stray' = stray /\ Exists(m)
        /\ BlobIds(NoMedia) = {}
    BY <1>3, <1>9, BlobsTyped DEF delete_current
  <2>2. next.pc \notin Running
    BY DEF New, Running
  <2> HIDE DEF next
  <2> QED BY <1>1, <2>1, <2>2, WritingOwners
<1> QED BY <1>4, <1>5, <1>6, <1>7, <1>8, <1>9

LEMMA MoverOwners ==
  ASSUME OInv, IInv', NEW r \in Requests, update_current(r) \/ move_owner(r)
  PROVE  OInv'
<1>1. TypeOK /\ Whole
  BY DEF OInv, IInv
<1>2. CASE update_current(r)
  <2> DEFINE m == req[r].m
  <2>1. PICK title \in Titles, owner \in Teams :
          /\ Write(r, [media[m] EXCEPT !.title = title, !.owner = owner], Dropping({}))
          /\ Moved(m, owner)
    BY <1>2 DEF update_current
  <2> DEFINE w == [media[m] EXCEPT !.title = title, !.owner = owner]
  <2>2. /\ m \in MediaIds /\ media[m] \in Media /\ req[r].seen \in Media
        /\ req[r].pc \in Running /\ IsCurrent(r)
    BY <1>2, AtWrite DEF update_current, OInv, Editing
  <2>3. Exists(m)
    BY <2>2, Current DEF OInv
  <2>4. w.owner = owner /\ BlobIds(w) = BlobIds(media[m]) /\ w # NoMedia
    BY <2>2, <2>3, BlobsTyped DEF Media, BlobIds, content_blob_ids, Exists
  <2>5. Dropping({}).pc \notin Running
    BY DEF Dropping, New, Running
  <2>6. Write(r, w, Dropping({})) /\ Moved(m, owner)
    BY <2>1
  <2> HIDE DEF w
  <2>7. /\ media' = [media EXCEPT ![m] = w] /\ rows' = Owned(m, owner) /\ spoilt \subseteq spoilt'
        /\ Go(r, Dropping({})) \/ Abort(r, TRUE)
    BY <2>3, <2>4, <2>6 DEF Write, Put
  <2>8. req'[r].pc \notin Running /\ \A q \in Requests \ {r} : req'[q] = req[q]
    <3>1. CASE Go(r, Dropping({}))
      BY <1>1, <2>5, <3>1 DEF Go, TypeOK
    <3>2. CASE Abort(r, TRUE)
      BY <1>1, <3>2, AbortTyped
    <3> QED BY <2>7, <3>1, <3>2
  <2>9. PICK x \in MediaIds : x = m
    BY <2>2
  <2> HIDE DEF m
  <2> QED BY <2>3, <2>4, <2>6, <2>7, <2>8, <2>9, MovingStep
<1>3. CASE move_owner(r)
  <2>1. PICK m \in MediaIds, owner \in Teams :
          /\ Exists(m) /\ Begin(r, [New EXCEPT !.pc = "done"])
          /\ media' = [media EXCEPT ![m].owner = owner]
          /\ rows' = Owned(m, owner) /\ Moved(m, owner)
    BY <1>3 DEF move_owner
  <2> DEFINE w == [media[m] EXCEPT !.owner = owner]
  <2>2. media' = [media EXCEPT ![m] = w] /\ media[m] \in Media /\ spoilt' = spoilt
    BY <1>1, <1>3, <2>1 DEF TypeOK, move_owner
  <2>3. w.owner = owner /\ BlobIds(w) = BlobIds(media[m])
    BY <2>2 DEF Media, BlobIds, content_blob_ids
  <2> HIDE DEF w
  <2>4. req'[r] = [New EXCEPT !.pc = "done"] /\ \A q \in Requests \ {r} : req'[q] = req[q]
    BY <1>1, <2>1 DEF Begin, Go, TypeOK
  <2>5. req'[r].pc \notin Running
    BY <2>4 DEF New, Running
  <2> QED BY <2>1, <2>2, <2>3, <2>4, <2>5, MovingStep
<1> QED BY <1>2, <1>3

\* What removes files and records, and what ends a handler.
LEMMA EndingOwners ==
  ASSUME OInv, IInv', NEW r \in Requests,
         \/ DropFile(r) \/ delete_asset_record(r) \/ cleanup_now(r)
         \/ delete_assets_for_media(r) \/ RemovePurged(r) \/ Fail(r) \/ Cancel(r)
  PROVE  OInv'
<1>1. /\ TypeOK /\ Whole /\ req[r] \in Handlers /\ NoRow.status = "none"
      /\ \A trash, cut : Cleaning(trash, cut).pc \notin Running
  BY DEF OInv, IInv, TypeOK, NoRow, Row, Cleaning, New, Running
<1>2. UNCHANGED <<media, spoilt, stray>>
  BY DEF DropFile, delete_asset_record, cleanup_now, delete_assets_for_media, RemovePurged, Fail,
     Cancel
<1>3. req'[r].pc \notin Running /\ \A q \in Requests \ {r} : req'[q] = req[q]
  <2>1. CASE Fail(r)
    BY <1>1, <2>1, AbortTyped DEF Fail
  <2>2. CASE DropFile(r) \/ delete_asset_record(r) \/ delete_assets_for_media(r)
    <3>1. CASE DropFile(r)
      <4>1. PICK a : Go(r, [req[r] EXCEPT !.drop = @ \ {a}, !.trash = {a}])
        BY <3>1 DEF DropFile
      <4>2. req'[r] = [req[r] EXCEPT !.drop = @ \ {a}, !.trash = {a}]
        BY <1>1, <4>1 DEF Go, TypeOK
      <4>3. req'[r].pc = req[r].pc /\ \A q \in Requests \ {r} : req'[q] = req[q]
        BY <1>1, <4>1, <4>2 DEF Go, TypeOK, Handlers
      <4> QED BY <3>1, <4>3 DEF DropFile, Running
    <3>2. CASE delete_asset_record(r)
      <4>1. PICK a : \/ req[r].pc = "dropping" /\ Go(r, [req[r] EXCEPT !.trash = @ \ {a}])
                     \/ Go(r, Cleaning(req[r].trash \ {a}, req[r].cut))
        BY <3>2 DEF delete_asset_record
      <4>2. CASE req[r].pc = "dropping" /\ Go(r, [req[r] EXCEPT !.trash = @ \ {a}])
        <5>1. req'[r] = [req[r] EXCEPT !.trash = @ \ {a}]
          BY <1>1, <4>2 DEF Go, TypeOK
        <5> QED BY <1>1, <4>2, <5>1 DEF Go, TypeOK, Handlers, Running
      <4>3. CASE Go(r, Cleaning(req[r].trash \ {a}, req[r].cut))
        BY <1>1, <4>3 DEF Go, TypeOK
      <4> QED BY <4>1, <4>2, <4>3
    <3>3. CASE delete_assets_for_media(r)
      <4>1. PICK drop, trash :
              Go(r, [req[r] EXCEPT !.pc = "purging", !.m = None, !.drop = drop, !.trash = trash])
        BY <3>3 DEF delete_assets_for_media
      <4>2. req'[r] = [req[r] EXCEPT !.pc = "purging", !.m = None, !.drop = drop, !.trash = trash]
        BY <1>1, <4>1 DEF Go, TypeOK
      <4> QED BY <1>1, <4>1, <4>2 DEF Go, TypeOK, Handlers, Running
    <3> QED BY <2>2, <3>1, <3>2, <3>3
  <2>3. CASE cleanup_now(r) \/ RemovePurged(r) \/ Cancel(r)
    <3>1. PICK trash, cut : Go(r, Cleaning(trash, cut))
      BY <2>3 DEF cleanup_now, RemovePurged, Cancel, Unwind
    <3> QED BY <1>1, <3>1 DEF Go, TypeOK
  <2> QED BY <2>1, <2>2, <2>3
<1>4. \A a \in Assets : \/ rows'[a] = rows[a] \/ rows'[a].status = "none"
                        \/ r \in Requests /\ Fresh(r) /\ a[1] = r
  <2>1. CASE DropFile(r) \/ cleanup_now(r) \/ RemovePurged(r) \/ Fail(r)
    BY <2>1 DEF DropFile, cleanup_now, RemovePurged, Fail
  <2>2. CASE delete_asset_record(r) \/ delete_assets_for_media(r)
    BY <1>1, <2>2 DEF delete_asset_record, delete_assets_for_media, TypeOK
  <2>3. CASE Cancel(r)
    <3>1. CASE rows' = rows
      BY <3>1
    <3>2. CASE req[r].pc \in Running /\ rows' \in InFlight(r)
      BY <3>2, InFlightRows DEF Fresh, OInv
    <3>3. CASE req[r].pc = "uploading" /\ rows' = WithStaging(r)
      <4>1. req[r].pc \in Running /\ rows' \in InFlight(r)
        BY <3>3 DEF Running, InFlight
      <4> QED BY <4>1, InFlightRows DEF Fresh, OInv
    <3> QED BY <2>3, <3>1, <3>2, <3>3 DEF Cancel
  <2> QED BY <2>1, <2>2, <2>3
<1>5. Owning(r)' /\ \A q \in Requests : q # r => req'[q] = req[q] \/ req'[q].pc \notin Running
  BY <1>3 DEF Owning
<1> QED BY <1>2, <1>4, <1>5, Quiet

LEMMA SweepOwners ==
  ASSUME OInv, IInv', Crash \/ Reconcile
  PROVE  OInv'
<1>1. TypeOK /\ NoRow.status = "none" /\ Cleaning({}, TRUE).pc \notin Running /\ None \notin Requests
  BY AssetsFinite DEF OInv, IInv, NoRow, Row, Cleaning, New, Running
<1>2. media' = media /\ stray' = stray /\ spoilt \subseteq spoilt'
  BY DEF Crash, Reconcile, reconcile_abandoned_staging, DeleteStale, delete_orphan_assets,
     RemoveOrphans
<1>3. \A a \in Assets : rows'[a] = rows[a] \/ rows'[a].status = "none"
  BY <1>1 DEF Crash, Reconcile, reconcile_abandoned_staging, DeleteStale, delete_orphan_assets,
     RemoveOrphans, TypeOK
<1>4. \A q \in Requests : req'[q] = req[q] \/ req'[q].pc \notin Running
  BY <1>1 DEF Crash, Reconcile, reconcile_abandoned_staging, DeleteStale, delete_orphan_assets,
     RemoveOrphans
<1> QED BY <1>1, <1>2, <1>3, <1>4, Quiet

-----------------------------------------------------------------------------
(* What is left over: definitions, and a step that stays tidy.             *)

\* Nobody was dropped or killed, and no sweep or lost answer interfered.
Undisturbed == spoilt = {} /\ \A r \in Requests : ~req[r].cut

\* The request answers for its staging file and its staging row.
Holds(q) == (req[q].pc \in Running /\ req[q].op = "upload") \/ req[q].pc = "dropping"

\* The request answers for the row: it has made it, or is going to delete it.
ClaimedBy(q, a) ==
  \/ req[q].pc \in Running /\ a \in req[q].made
  \/ Holds(q) /\ a = Upload(q) /\ rows[a].status = "staging"
  \/ req[q].pc \in {"dropping", "cleaning"} /\ a \in req[q].trash
  \/ req[q].pc = "dropping" /\ a \in req[q].drop
  \/ req[q].pc = "purge" /\ rows[a].media = req[q].m

Claimed(a) == \/ a \in BlobIds(media[rows[a].media])
              \/ \E q \in Requests : ClaimedBy(q, a)

\* A file without a final row is being written or being removed.
StoredBy(q, a) == \/ a \in req[q].busy
                  \/ req[q].pc = "purging" /\ a \in req[q].drop

Stored(a) == rows[a].status = "final" \/ \E q \in Requests : StoredBy(q, a)

\* Rows go after their files, except for those that are purged.
Emptied(q) == /\ req[q].pc \in {"dropping", "cleaning"} => req[q].trash \intersect finals = {}
              /\ req[q].pc = "purging" => \A a \in req[q].drop : rows[a] = NoRow

Accounted == /\ \A q \in staged : Holds(q)
             /\ \A a \in Assets : rows[a] # NoRow => Claimed(a)
             /\ \A a \in finals : Stored(a)
             /\ \A q \in Requests : Emptied(q)

\* Only decks have drafts.
Plain(m) == media[m].kind # "deck" => media[m].draft = NoDraft

\* What a request knows beyond WellMade; its pages are numbered as they come.
Known(r) ==
  /\ req[r].cut => req[r].pc \in {"cleaning", "purge", "purging", "done"}
  /\ req[r].op = "begin" => req[r].seen.draft = NoDraft
  /\ req[r].op \in {"begin", "commit"} => req[r].seen.kind = "deck"
  /\ req[r].pc \in {"ingest", "copy"} =>
       /\ req[r].made = InitialPages(r, Cardinality(req[r].made))
       /\ req[r].busy \subseteq {NextPage(r)}

NInv == /\ IInv /\ (\A m \in MediaIds : Plain(m)) /\ (\A r \in Requests : Known(r))
        /\ (Undisturbed => Accounted)

\* A step of r, if r is a request: what it answered for it still does, or
\* somebody's media does; what is new is its own.
Tidy(r) ==
  /\ \A q \in staged' : IF q = r THEN Holds(q)' ELSE q \in staged
  /\ \A a \in Assets : rows'[a] # NoRow =>
       \/ r \in Requests /\ ClaimedBy(r, a)'
       \/ a \in BlobIds(media'[rows'[a].media])
       \/ /\ rows[a] # NoRow
          /\ rows'[a].status = rows[a].status /\ rows'[a].media = rows[a].media
          /\ a \notin BlobIds(media[rows[a].media])
          /\ ~(r \in Requests /\ ClaimedBy(r, a))
  /\ \A a \in finals' :
       \/ rows'[a].status = "final"
       \/ r \in Requests /\ StoredBy(r, a)'
       \/ /\ a \in finals /\ rows[a].status # "final"
          /\ ~(r \in Requests /\ StoredBy(r, a))
  /\ \A a \in finals' \ finals : Unmarked(a)
  /\ \A a \in Assets : rows[a] = NoRow /\ rows'[a] # NoRow => Unmarked(a)
  /\ r \in Requests => Emptied(r)'

LEMMA TidyStep ==
  ASSUME TypeOK, TypeOK', Accounted, NEW r, Tidy(r),
         \A q \in Requests : q # r => req'[q] = req[q]
  PROVE  Accounted'
<1>1. finals \subseteq Assets /\ finals' \subseteq Assets /\ staged \subseteq Requests
      /\ staged' \subseteq Requests
  BY DEF TypeOK
<1>2. ASSUME NEW q \in staged' PROVE Holds(q)'
  <2>1. CASE q = r
    BY <1>2, <2>1 DEF Tidy
  <2>2. CASE q # r
    <3>1. q \in staged /\ req'[q] = req[q]
      BY <1>1, <1>2, <2>2 DEF Tidy
    <3> QED BY <3>1 DEF Accounted, Holds
  <2> QED BY <2>1, <2>2
<1>3. ASSUME NEW a \in Assets, rows'[a] # NoRow PROVE Claimed(a)'
  <2>1. CASE r \in Requests /\ ClaimedBy(r, a)'
    BY <2>1 DEF Claimed
  <2>2. CASE a \in BlobIds(media'[rows'[a].media])
    BY <2>2 DEF Claimed
  <2>3. CASE /\ rows[a] # NoRow
             /\ rows'[a].status = rows[a].status /\ rows'[a].media = rows[a].media
             /\ a \notin BlobIds(media[rows[a].media])
             /\ ~(r \in Requests /\ ClaimedBy(r, a))
    <3>1. PICK q \in Requests : ClaimedBy(q, a)
      BY <2>3 DEF Accounted, Claimed
    <3>2. req'[q] = req[q]
      BY <2>3, <3>1
    <3>3. ClaimedBy(q, a)'
      BY <2>3, <3>1, <3>2 DEF ClaimedBy, Holds, Upload
    <3> QED BY <3>3 DEF Claimed
  <2> QED BY <1>3, <2>1, <2>2, <2>3 DEF Tidy
<1>4. ASSUME NEW a \in finals' PROVE Stored(a)'
  <2>1. CASE rows'[a].status = "final"
    BY <2>1 DEF Stored
  <2>2. CASE r \in Requests /\ StoredBy(r, a)'
    BY <2>2 DEF Stored
  <2>3. CASE /\ a \in finals /\ rows[a].status # "final"
             /\ ~(r \in Requests /\ StoredBy(r, a))
    <3>1. PICK q \in Requests : StoredBy(q, a)
      BY <2>3 DEF Accounted, Stored
    <3>2. req'[q] = req[q]
      BY <2>3, <3>1
    <3>3. StoredBy(q, a)'
      BY <3>1, <3>2 DEF StoredBy
    <3> QED BY <3>3 DEF Stored
  <2> QED BY <1>4, <2>1, <2>2, <2>3 DEF Tidy
<1>5. ASSUME NEW q \in Requests PROVE Emptied(q)'
  <2>1. CASE q = r
    BY <1>5, <2>1 DEF Tidy
  <2>2. CASE q # r
    <3>1. req'[q] = req[q] /\ Emptied(q)
      BY <1>5, <2>2 DEF Accounted
    <3>2. req[q].pc \in {"dropping", "cleaning"} => req[q].trash \intersect finals' = {}
      BY <1>5, <3>1 DEF Tidy, Unmarked, Pending, Emptied
    <3>3. ASSUME req[q].pc = "purging", NEW a \in req[q].drop PROVE rows'[a] = NoRow
      <4>1. rows[a] = NoRow /\ ~Unmarked(a)
        BY <1>5, <3>1, <3>3 DEF Emptied, Unmarked, Pending
      <4>2. a \in Assets
        BY <1>5, <3>3 DEF TypeOK, Handlers
      <4> QED BY <4>1, <4>2 DEF Tidy
    <3> QED BY <3>1, <3>2, <3>3 DEF Emptied
  <2> QED BY <2>1, <2>2
<1> QED BY <1>2, <1>3, <1>4, <1>5 DEF Accounted

LEMMA LeftStep ==
  ASSUME NInv, IInv', NEW r, spoilt \subseteq spoilt',
         \A q \in Requests : q # r => req'[q] = req[q],
         r \in Requests => Known(r)' /\ (req[r].cut => req'[r].cut),
         \A m \in MediaIds : Plain(m)',
         Undisturbed /\ Undisturbed' /\ Accounted => Tidy(r)
  PROVE  NInv'
<1>1. \A q \in Requests : Known(q)'
  <2> SUFFICES ASSUME NEW q \in Requests, q # r PROVE Known(q)'
    OBVIOUS
  <2>1. req'[q] = req[q] /\ Known(q)
    BY DEF NInv
  <2> QED BY <2>1 DEF Known, NextPage
<1>2. ASSUME Undisturbed' PROVE Accounted'
  <2>1. Undisturbed
    BY <1>2 DEF Undisturbed
  <2>2. Accounted /\ TypeOK /\ TypeOK'
    BY <2>1 DEF NInv, IInv
  <2> QED BY <1>2, <2>1, <2>2, TidyStep
<1> QED BY <1>1, <1>2 DEF NInv

\* A handler that creates no pages and edits nothing.
LEMMA KnownElse ==
  ASSUME IInv', NEW r \in Requests, req'[r].pc \notin {"write", "ingest", "copy"},
         req'[r].cut => req'[r].pc \in {"cleaning", "purge", "purging", "done"}
  PROVE  Known(r)'
<1>1. WellMade(r, req'[r])
  BY DEF IInv, Whole
<1>2. req'[r].op \notin {"begin", "commit"}
  BY <1>1 DEF WellMade, Editing
<1> QED BY <1>2 DEF Known

LEMMA PlainStays ==
  ASSUME NInv, media' = media
  PROVE  \A m \in MediaIds : Plain(m)'
BY DEF NInv, Plain

\* A step of r that leaves the media alone.
LEMMA TidyHere ==
  ASSUME NEW r \in Requests, media' = media,
         \A q \in staged' : IF q = r THEN Holds(q)' ELSE q \in staged,
         \A a \in Assets : rows'[a] # NoRow =>
           \/ ClaimedBy(r, a)'
           \/ /\ rows[a] # NoRow
              /\ rows'[a].status = rows[a].status /\ rows'[a].media = rows[a].media
              /\ ~ClaimedBy(r, a),
         \A a \in finals' :
           \/ rows'[a].status = "final"
           \/ StoredBy(r, a)'
           \/ a \in finals /\ rows[a].status # "final" /\ ~StoredBy(r, a),
         \A a \in finals' \ finals : Unmarked(a),
         \A a \in Assets : rows[a] = NoRow /\ rows'[a] # NoRow => Unmarked(a),
         Emptied(r)'
  PROVE  Tidy(r)
<1>1. ASSUME NEW a \in Assets, rows'[a] # NoRow
      PROVE  \/ r \in Requests /\ ClaimedBy(r, a)'
             \/ a \in BlobIds(media'[rows'[a].media])
             \/ /\ rows[a] # NoRow
                /\ rows'[a].status = rows[a].status /\ rows'[a].media = rows[a].media
                /\ a \notin BlobIds(media[rows[a].media])
                /\ ~(r \in Requests /\ ClaimedBy(r, a))
  <2>1. CASE a \in BlobIds(media[rows'[a].media])
    BY <2>1
  <2>2. CASE a \notin BlobIds(media[rows'[a].media])
    BY <1>1, <2>2
  <2> QED BY <2>1, <2>2
<1> QED BY <1>1 DEF Tidy

\* The pages of an upload are numbered from 1.
LEMMA PagesNumbered ==
  ASSUME NEW r
  PROVE  /\ InitialPages(r, Cardinality({})) = {}
         /\ \A n \in Nat : /\ <<r, n + 1>> \notin InitialPages(r, n)
                           /\ InitialPages(r, n) \union {<<r, n + 1>>} = InitialPages(r, n + 1)
<1>1. InitialPages(r, Cardinality({})) = {}
  BY FS_EmptySet DEF InitialPages
<1>2. ASSUME NEW n \in Nat
      PROVE  /\ <<r, n + 1>> \notin InitialPages(r, n)
             /\ InitialPages(r, n) \union {<<r, n + 1>>} = InitialPages(r, n + 1)
  BY DEF InitialPages
<1> QED BY <1>1, <1>2

LEMMA BeginLeft ==
  ASSUME NInv, IInv', NEW r \in Requests, NEW v \in Handlers, Begin(r, v),
         v.pc \in Running, v.made = {}, v.busy = {}, ~v.cut,
         UNCHANGED <<media, rows, finals, spoilt>>,
         staged' = staged \/ (staged' = staged \union {r} /\ v.op = "upload"),
         v.op = "begin" => v.seen.draft = NoDraft,
         v.op \in {"begin", "commit"} => v.seen.kind = "deck"
  PROVE  NInv'
<1>1. /\ TypeOK /\ Whole /\ Go(r, v) /\ req[r] = New
      /\ req'[r] = v /\ \A q \in Requests : q # r => req'[q] = req[q]
  BY GoTyped DEF NInv, IInv, Begin, Whole, WellMade
<1>2. Known(r)' /\ (req[r].cut => req'[r].cut)
  BY <1>1, PagesNumbered DEF Known, New
<1>3. ASSUME Accounted PROVE Tidy(r)
  <2>1. r \notin staged
    BY <1>1, <1>3 DEF Accounted, Holds, New, Running
  <2>2. \A q \in staged' : IF q = r THEN Holds(q)' ELSE q \in staged
    BY <1>1, <2>1 DEF Holds
  <2>3. \A a : ~ClaimedBy(r, a) /\ ~StoredBy(r, a)
    BY <1>1 DEF ClaimedBy, StoredBy, Holds, New, Running
  <2>4. Emptied(r)'
    BY <1>1 DEF Emptied, Running
  <2>5. \A a \in Assets : rows'[a] # NoRow =>
           \/ ClaimedBy(r, a)'
           \/ /\ rows[a] # NoRow
              /\ rows'[a].status = rows[a].status /\ rows'[a].media = rows[a].media
              /\ ~ClaimedBy(r, a)
    BY <2>3
  <2>6. \A a \in finals' :
           \/ rows'[a].status = "final"
           \/ StoredBy(r, a)'
           \/ a \in finals /\ rows[a].status # "final" /\ ~StoredBy(r, a)
    BY <2>3
  <2> QED BY <2>2, <2>4, <2>5, <2>6, TidyHere
<1>4. \A m \in MediaIds : Plain(m)'
  BY PlainStays
<1> QED BY <1>1, <1>2, <1>3, <1>4, LeftStep

LEMMA BeginUploadLeft ==
  ASSUME NInv, IInv', NEW r \in Requests, BeginUpload(r)
  PROVE  NInv'
<1>1. PICK m \in MediaIds :
        Exists(m) /\ Begin(r, At("upload", "uploading", m, [NoMedia EXCEPT !.owner = media[m].owner]))
  BY DEF BeginUpload
<1> DEFINE seen == [NoMedia EXCEPT !.owner = media[m].owner]
           v == At("upload", "uploading", m, seen)
<1>2. seen \in Media
  BY BlobsTyped DEF NInv, IInv, TypeOK, Media, NoMedia, Medium
<1> HIDE DEF seen
<1>3. /\ v \in Handlers /\ v.op = "upload" /\ v.pc = "uploading"
      /\ v.made = {} /\ v.busy = {}
  BY <1>2, AtTyped DEF Running
<1>4. ~v.cut
  BY DEF At, New
<1>5. Begin(r, v)
  BY <1>1 DEF seen
<1> HIDE DEF v
<1> QED BY <1>3, <1>4, <1>5, BeginLeft DEF BeginUpload, Running

LEMMA CreateUploadedLeft ==
  ASSUME NInv, IInv', NEW r \in Requests, create_uploaded(r)
  PROVE  NInv'
<1>1. PICK kind \in {"image", "av", "deck"}, title \in Titles, owner \in Teams :
        Begin(r, At("create", "ingest", r, Medium(kind, title, owner, {})))
  BY DEF create_uploaded
<1> DEFINE seen == Medium(kind, title, owner, {})
           v == At("create", "ingest", r, seen)
<1>2. seen \in Media
  BY BlobsTyped DEF Media, Medium
<1> HIDE DEF seen
<1>3. /\ v \in Handlers /\ v.op = "create" /\ v.pc = "ingest" /\ v.made = {} /\ v.busy = {}
  <2>1. r \in MediaIds /\ seen \in Media
    BY <1>2, AssetsFinite
  <2>2. "create" \in Creating \union Editing \union {"none", "upload"} /\ "ingest" \in Running \union Over
    BY DEF Running, Creating
  <2> QED BY <2>1, <2>2, AtTyped
<1>4. ~v.cut
  BY DEF At, New
<1>5. Begin(r, v)
  BY <1>1 DEF seen
<1> HIDE DEF v
<1> QED BY <1>3, <1>4, <1>5, BeginLeft DEF create_uploaded, Running

LEMMA DuplicateLeft ==
  ASSUME NInv, IInv', NEW r \in Requests, duplicate(r)
  PROVE  NInv'
<1>1. PICK s \in MediaIds, title \in Titles, owner \in Teams :
        /\ Exists(s)
        /\ Begin(r, [At("duplicate", "copy", r, Medium(media[s].kind, title, owner, {}))
                       EXCEPT !.pick = media[s].content])
  BY DEF duplicate
<1> DEFINE seen == Medium(media[s].kind, title, owner, {})
           u == At("duplicate", "copy", r, seen)
           v == [u EXCEPT !.pick = media[s].content]
<1>2. seen \in Media /\ media[s].content \in SUBSET Assets
  <2>1. media[s] \in Media
    BY DEF NInv, IInv, TypeOK
  <2> QED BY <2>1, BlobsTyped DEF Media, Medium
<1> HIDE DEF seen
<1>3. u \in Handlers /\ u.op = "duplicate" /\ u.pc = "copy" /\ u.made = {} /\ u.busy = {}
  BY <1>2, AtTyped, AssetsFinite DEF Running, Creating
<1>4. ~u.cut
  BY DEF At, New
<1>5. Begin(r, v)
  BY <1>1 DEF seen
<1> HIDE DEF u
<1>6. v \in Handlers /\ v.op = "duplicate" /\ v.pc = "copy" /\ v.made = {} /\ v.busy = {} /\ ~v.cut
  BY <1>2, <1>3, <1>4 DEF Handlers
<1> HIDE DEF v
<1> QED BY <1>5, <1>6, BeginLeft DEF duplicate, Running

LEMMA ReadToEditLeft ==
  ASSUME NInv, IInv', NEW r \in Requests, ReadToEdit(r)
  PROVE  NInv'
<1>0. PICK m \in MediaIds, op \in Editing :
        /\ op \in {"begin", "commit"} => media[m].kind = "deck"
        /\ op = "begin" => media[m].draft = NoDraft
        /\ \E pick \in SUBSET media[m].draft.pages :
             Begin(r, [At(op, "write", m, media[m]) EXCEPT !.pick = pick])
  BY DEF ReadToEdit, Editing
<1>1. PICK pick \in SUBSET media[m].draft.pages :
        Begin(r, [At(op, "write", m, media[m]) EXCEPT !.pick = pick])
  BY <1>0
<1> DEFINE u == At(op, "write", m, media[m])
           v == [u EXCEPT !.pick = pick]
<1>2. media[m] \in Media /\ pick \in SUBSET Assets
  BY TypeFacts DEF NInv, IInv, Media, Drafts
<1>3. /\ u \in Handlers /\ u.op = op /\ u.pc = "write" /\ u.seen = media[m]
      /\ u.made = {} /\ u.busy = {}
  <2>1. op \in Creating \union Editing \union {"none", "upload"} /\ "write" \in Running \union Over
    BY DEF Running
  <2> QED BY <1>2, <2>1, AtTyped
<1>4. ~u.cut
  BY DEF At, New
<1>5. Begin(r, v)
  BY <1>1
<1> HIDE DEF u
<1>6. /\ v \in Handlers /\ v.op = op /\ v.pc = "write" /\ v.seen = media[m]
      /\ v.made = {} /\ v.busy = {} /\ ~v.cut
  BY <1>2, <1>3, <1>4 DEF Handlers
<1> HIDE DEF v
<1> QED BY <1>0, <1>5, <1>6, BeginLeft DEF ReadToEdit, Running

LEMMA RunningKnows ==
  ASSUME NInv, NEW r \in Requests, req[r].pc \in Running
  PROVE  /\ TypeOK /\ Whole /\ WellMade(r, req[r]) /\ req[r] \in Handlers
         /\ Fresh(r) /\ Unused(r) /\ Known(r) /\ req[r].cut = FALSE
         /\ req[r].m \in MediaIds /\ req[r].drop = {} /\ req[r].trash = {}
         /\ Upload(r) \in Assets /\ Upload(r)[1] = r
<1>1. TypeOK /\ Whole /\ WellMade(r, req[r]) /\ Unused(r) /\ Fresh(r) /\ Known(r)
  BY DEF NInv, IInv, Whole, Fresh
<1>2. req[r] \in Handlers
  BY <1>1, TypeFacts
<1>3. req[r].cut = FALSE
  <2>1. req[r].cut \in BOOLEAN
    BY <1>2 DEF Handlers
  <2> QED BY <1>1, <2>1 DEF Known, Running
<1>4. Upload(r) \in Assets /\ Upload(r)[1] = r
  BY AssetsFinite DEF Upload, Assets
<1> QED BY <1>1, <1>2, <1>3, <1>4 DEF WellMade

\* A handler goes on: its new files are busy, its new records made or staging.
LEMMA MakingLeft ==
  ASSUME NInv, IInv', NEW r \in Requests, NEW v \in Handlers, Go(r, v),
         req[r].pc \in Running, v.pc \in Running, v.op = req[r].op, Known(r)',
         UNCHANGED <<media, spoilt>>, staged' \subseteq staged, req[r].made \subseteq v.made,
         \A a \in Assets : \/ rows'[a] = rows[a] \/ a \in v.made
                           \/ a = Upload(r) /\ v.op = "upload" /\ rows'[a].status = "staging",
         \A a \in finals' : \/ a \in v.busy \/ rows'[a].status = "final"
                            \/ a \in finals /\ rows[a].status # "final" /\ a \notin req[r].busy,
         \A a \in finals' \ finals : a[1] = r /\ a \notin req[r].made,
         \A a \in Assets : rows[a] = NoRow /\ rows'[a] # NoRow => a[1] = r /\ a \notin req[r].made
  PROVE  NInv'
<1>1. /\ TypeOK /\ Whole /\ Fresh(r) /\ Unused(r) /\ req[r].cut = FALSE /\ finals' \subseteq Assets
  BY RunningKnows DEF IInv, TypeOK
<1>2. req'[r] = v /\ \A q \in Requests : q # r => req'[q] = req[q]
  BY <1>1, GoTyped
<1>3. ASSUME Accounted PROVE Tidy(r)
  <2>1. \A q \in staged' : IF q = r THEN Holds(q)' ELSE q \in staged
    BY <1>2, <1>3 DEF Accounted, Holds, Running
  <2>2. ASSUME NEW a \in Assets, rows'[a] # NoRow
        PROVE  \/ ClaimedBy(r, a)'
               \/ /\ rows[a] # NoRow
                  /\ rows'[a].status = rows[a].status /\ rows'[a].media = rows[a].media
                  /\ ~ClaimedBy(r, a)
    <3>1. CASE a \in v.made
      BY <1>2, <3>1 DEF ClaimedBy
    <3>2. CASE a = Upload(r) /\ v.op = "upload" /\ rows'[a].status = "staging"
      BY <1>2, <3>2 DEF ClaimedBy, Holds, Upload
    <3>3. CASE rows'[a] = rows[a] /\ a \notin v.made
      <4>1. ASSUME ClaimedBy(r, a) PROVE ClaimedBy(r, a)'
        BY <1>2, <3>3, <4>1 DEF ClaimedBy, Holds, Running, Upload
      <4> QED BY <2>2, <3>3, <4>1
    <3> QED BY <3>1, <3>2, <3>3
  <2>3. ASSUME NEW a \in finals'
        PROVE  \/ rows'[a].status = "final"
               \/ StoredBy(r, a)'
               \/ a \in finals /\ rows[a].status # "final" /\ ~StoredBy(r, a)
    BY <1>2, <2>3 DEF StoredBy, Running
  <2>4. /\ \A a \in finals' \ finals : Unmarked(a)
        /\ \A a \in Assets : rows[a] = NoRow /\ rows'[a] # NoRow => Unmarked(a)
    BY <1>1 DEF Unused
  <2>5. Emptied(r)'
    BY <1>2 DEF Emptied, Running
  <2> QED BY <2>1, <2>2, <2>3, <2>4, <2>5, TidyHere
<1>4. \A m \in MediaIds : Plain(m)'
  BY PlainStays
<1> QED BY <1>1, <1>2, <1>3, <1>4, LeftStep

LEMMA CreateStagingLeft ==
  ASSUME NInv, IInv', NEW r \in Requests, create_staging(r)
  PROVE  NInv'
<1> DEFINE v == At("upload", "staged", req[r].m, NoMedia)
<1>1. req[r].pc = "uploading" /\ req[r].pc \in Running
  BY DEF create_staging, Running
<1>2. /\ TypeOK /\ Unused(r) /\ Fresh(r) /\ req[r].m \in MediaIds
      /\ Upload(r) \in Assets /\ Upload(r)[1] = r
      /\ req[r].op = "upload" /\ req[r].made = {} /\ req[r].busy = {}
  BY <1>1, RunningKnows DEF WellMade
<1>3. Go(r, v) /\ rows' = WithStaging(r) /\ UNCHANGED <<media, finals, staged, spoilt>>
  BY DEF create_staging
<1>4. v \in Handlers /\ v.op = "upload" /\ v.pc = "staged" /\ v.made = {} /\ v.busy = {}
  <2>1. NoMedia \in Media
    BY BlobsTyped
  <2>2. "upload" \in Creating \union Editing \union {"none", "upload"} /\ "staged" \in Running \union Over
    BY DEF Running
  <2> QED BY <1>2, <2>1, <2>2, AtTyped
<1>5. ~v.cut
  BY DEF At, New
<1> HIDE DEF v
<1>6. req'[r] = v
  BY <1>2, <1>3, <1>4, GoTyped
<1>7. Known(r)'
  BY <1>4, <1>5, <1>6, KnownElse
<1>8. \A a \in Assets : \/ rows'[a] = rows[a]
                        \/ a = Upload(r) /\ rows'[a].status = "staging"
  <2>1. rows \in [Assets -> Rows]
    BY <1>2 DEF TypeOK
  <2> QED BY <1>3, <2>1 DEF WithStaging, Row
<1>9. \A a \in finals' : \/ rows'[a].status = "final"
                         \/ rows[a].status # "final"
  <2>1. rows[Upload(r)].status # "final" /\ finals' \subseteq Assets
    BY <1>2, <1>3 DEF Unused, TypeOK
  <2> QED BY <1>8, <2>1
<1>10. v.pc \in Running
  BY <1>4 DEF Running
<1> QED BY <1>1, <1>2, <1>3, <1>4, <1>7, <1>8, <1>9, <1>10, MakingLeft

LEMMA ReadMediaLeft ==
  ASSUME NInv, IInv', NEW r \in Requests, ReadMedia(r)
  PROVE  NInv'
<1>1. req[r].pc = "staged" /\ req[r].pc \in Running
  BY DEF ReadMedia, Running
<1>2. /\ TypeOK /\ req[r] \in Handlers /\ req[r].m \in MediaIds /\ req[r].cut = FALSE
      /\ req[r].op = "upload" /\ req[r].made = {} /\ req[r].busy = {}
  BY <1>1, RunningKnows DEF WellMade
<1>3. PICK pick \in SUBSET DraftPages(media[req[r].m]) :
        Go(r, [req[r] EXCEPT !.seen = media[req[r].m], !.pick = pick,
                 !.pc = IF media[req[r].m].kind = "av" THEN "promote" ELSE "ingest"])
  BY DEF ReadMedia
<1> DEFINE v == [req[r] EXCEPT !.seen = media[req[r].m], !.pick = pick,
                   !.pc = IF media[req[r].m].kind = "av" THEN "promote" ELSE "ingest"]
<1>4. media[req[r].m] \in Media /\ pick \in SUBSET Assets
  BY <1>2, TypeFacts, BlobsTyped
<1>5. /\ v \in Handlers /\ v.op = "upload" /\ v.pc \in {"promote", "ingest"}
      /\ v.made = {} /\ v.busy = {} /\ v.cut = FALSE
  BY <1>2, <1>4 DEF Handlers, Running
<1>6. Go(r, v)
  BY <1>3
<1> HIDE DEF v
<1>7. req'[r] = v
  BY <1>2, <1>5, <1>6, GoTyped
<1>8. Known(r)'
  BY <1>5, <1>7, PagesNumbered DEF Known
<1>9. UNCHANGED <<media, rows, finals, staged, spoilt>>
  BY DEF ReadMedia
<1>10. v.pc \in Running
  BY <1>5 DEF Running
<1> QED BY <1>1, <1>2, <1>5, <1>6, <1>8, <1>9, <1>10, MakingLeft

\* The next page has not been made.
LEMMA NextIsNew ==
  ASSUME NInv, NEW r \in Requests, req[r].pc \in {"ingest", "copy"}
  PROVE  /\ NextPage(r)[1] = r /\ NextPage(r) \notin req[r].made
         /\ Cardinality(req[r].made) \in Nat /\ IsFiniteSet(req[r].made)
         /\ req[r].made = InitialPages(r, Cardinality(req[r].made))
         /\ req[r].busy \subseteq {NextPage(r)}
<1>1. req[r].pc \in Running
  BY DEF Running
<1>2. Known(r) /\ req[r].made \in SUBSET Assets
  BY <1>1, RunningKnows DEF Handlers
<1>3. Cardinality(req[r].made) \in Nat /\ IsFiniteSet(req[r].made)
  BY <1>2, AssetsFinite
<1> QED BY <1>2, <1>3, PagesNumbered DEF Known, NextPage

LEMMA IngestLeft ==
  ASSUME NInv, IInv', NEW r \in Requests,
         ingest_final_from_path(r) \/ copy_final_file(r)
  PROVE  NInv'
<1>1. /\ req[r].pc \in {"ingest", "copy"} /\ req[r].pc \in Running /\ req[r].busy = {}
      /\ finals' = finals \union {NextPage(r)}
      /\ UNCHANGED <<media, rows, staged, spoilt>>
      /\ \E pick \in SUBSET req[r].pick :
           Go(r, [req[r] EXCEPT !.busy = {NextPage(r)}, !.pick = pick])
  <2>1. CASE ingest_final_from_path(r)
    <3>1. [req[r] EXCEPT !.busy = {NextPage(r)}] =
          [req[r] EXCEPT !.busy = {NextPage(r)}, !.pick = req[r].pick]
      BY TypeFacts DEF NInv, IInv, Handlers
    <3> QED BY <2>1, <3>1 DEF ingest_final_from_path, Running
  <2>2. CASE copy_final_file(r)
    <3>1. PICK page \in req[r].pick \intersect finals :
            Go(r, [req[r] EXCEPT !.busy = {NextPage(r)}, !.pick = @ \ {page}])
      BY <2>2 DEF copy_final_file
    <3>2. req[r].pick \ {page} \in SUBSET req[r].pick
      OBVIOUS
    <3> QED BY <2>2, <3>1, <3>2 DEF copy_final_file, Running
  <2> QED BY <2>1, <2>2
<1>2. PICK pick \in SUBSET req[r].pick :
        Go(r, [req[r] EXCEPT !.busy = {NextPage(r)}, !.pick = pick])
  BY <1>1
<1> DEFINE v == [req[r] EXCEPT !.busy = {NextPage(r)}, !.pick = pick]
<1>3. /\ TypeOK /\ req[r] \in Handlers /\ req[r].cut = FALSE /\ Known(r)
      /\ NextPage(r)[1] = r /\ NextPage(r) \notin req[r].made /\ NextPage(r) \in Assets
  <2>1. finals' \subseteq Assets
    BY DEF IInv, TypeOK
  <2> QED BY <1>1, <2>1, RunningKnows, NextIsNew
<1>4. /\ v \in Handlers /\ v.op = req[r].op /\ v.pc = req[r].pc /\ v.cut = FALSE
      /\ v.made = req[r].made /\ v.busy = {NextPage(r)} /\ v.seen = req[r].seen
  BY <1>2, <1>3 DEF Handlers
<1>5. Go(r, v)
  BY <1>2
<1> HIDE DEF v
<1>6. req'[r] = v
  BY <1>3, <1>4, <1>5, GoTyped
<1>7. Known(r)'
  BY <1>3, <1>4, <1>6 DEF Known, NextPage
<1> QED BY <1>1, <1>3, <1>4, <1>5, <1>7, MakingLeft

LEMMA CreateFinalLeft ==
  ASSUME NInv, IInv', NEW r \in Requests, create_final(r)
  PROVE  NInv'
<1> DEFINE v == [req[r] EXCEPT !.made = @ \union req[r].busy, !.busy = {}]
           n == Cardinality(req[r].made)
<1>1. /\ req[r].pc \in {"ingest", "copy"} /\ req[r].pc \in Running /\ req[r].busy # {}
      /\ Go(r, v) /\ rows' = WithFinal(r) /\ UNCHANGED <<media, finals, staged, spoilt>>
  BY DEF create_final, Running
<1>2. TypeOK /\ req[r] \in Handlers /\ req[r].cut = FALSE /\ Known(r)
  BY <1>1, RunningKnows
<1>3. /\ NextPage(r)[1] = r /\ NextPage(r) \notin req[r].made /\ n \in Nat
      /\ IsFiniteSet(req[r].made)
      /\ req[r].made = InitialPages(r, n) /\ req[r].busy = {NextPage(r)}
  BY <1>1, NextIsNew
<1>4. /\ v \in Handlers /\ v.op = req[r].op /\ v.pc = req[r].pc /\ v.cut = FALSE
      /\ v.made = req[r].made \union {NextPage(r)} /\ v.busy = {} /\ v.seen = req[r].seen
  BY <1>2, <1>3 DEF Handlers
<1> HIDE DEF v
<1>5. req'[r] = v
  BY <1>1, <1>2, <1>4, GoTyped
<1>6. Cardinality(v.made) = n + 1
  BY <1>3, <1>4, FS_AddElement
<1>7. v.made = InitialPages(r, Cardinality(v.made))
  BY <1>3, <1>4, <1>6, PagesNumbered DEF NextPage
<1>8. Known(r)'
  BY <1>2, <1>4, <1>5, <1>7 DEF Known
<1>9. \A a \in Assets : IF a = NextPage(r) THEN rows'[a].status = "final" ELSE rows'[a] = rows[a]
  BY <1>1, <1>3 DEF WithFinal, Row
<1>10. finals' \subseteq Assets
  BY DEF IInv, TypeOK
<1> HIDE DEF n
<1> QED BY <1>1, <1>3, <1>4, <1>8, <1>9, <1>10, MakingLeft

LEMMA PromoteFileLeft ==
  ASSUME NInv, IInv', NEW r \in Requests, promote_file(r)
  PROVE  NInv'
<1> DEFINE v == [req[r] EXCEPT !.busy = {Upload(r)}]
<1>1. /\ req[r].pc = "promote" /\ req[r].pc \in Running /\ req[r].made = {} /\ req[r].busy = {}
      /\ Go(r, v) /\ finals' = finals \union {Upload(r)} /\ staged' = staged \ {r}
      /\ UNCHANGED <<media, rows, spoilt>>
  BY DEF promote_file, Running
<1>2. /\ TypeOK /\ req[r] \in Handlers /\ req[r].cut = FALSE /\ Upload(r)[1] = r /\ Upload(r) \in Assets
      /\ req[r].op = "upload"
  BY <1>1, RunningKnows DEF WellMade
<1>3. /\ v \in Handlers /\ v.op = req[r].op /\ v.pc = req[r].pc /\ v.cut = FALSE
      /\ v.made = req[r].made /\ v.busy = {Upload(r)}
  BY <1>2 DEF Handlers
<1> HIDE DEF v
<1>4. req'[r] = v
  BY <1>1, <1>2, <1>3, GoTyped
<1>5. Known(r)'
  BY <1>1, <1>2, <1>3, <1>4 DEF Known
<1> QED BY <1>1, <1>2, <1>3, <1>5, MakingLeft

LEMMA PromoteStagingLeft ==
  ASSUME NInv, IInv', NEW r \in Requests, promote_staging(r)
  PROVE  NInv'
<1> DEFINE v == [req[r] EXCEPT !.made = req[r].busy, !.busy = {}]
<1>1. /\ req[r].pc = "promote" /\ req[r].pc \in Running /\ req[r].busy # {} /\ IsStaging(r)
      /\ Go(r, v) /\ rows' = WithPromoted(r) /\ UNCHANGED <<media, finals, staged, spoilt>>
  BY DEF promote_staging, Running
<1>2. /\ TypeOK /\ req[r] \in Handlers /\ req[r].cut = FALSE /\ Upload(r) \in Assets
      /\ req[r].op = "upload" /\ req[r].busy = {Upload(r)} /\ req[r].made = {}
  <2>1. /\ TypeOK /\ req[r] \in Handlers /\ req[r].cut = FALSE /\ Upload(r) \in Assets
        /\ WellMade(r, req[r])
    BY <1>1, RunningKnows
  <2> QED BY <1>1, <2>1 DEF WellMade
<1>3. /\ v \in Handlers /\ v.op = req[r].op /\ v.pc = req[r].pc /\ v.cut = FALSE
      /\ v.made = {Upload(r)} /\ v.busy = {}
  BY <1>2 DEF Handlers
<1> HIDE DEF v
<1>4. req'[r] = v
  BY <1>1, <1>2, <1>3, GoTyped
<1>5. Known(r)'
  BY <1>1, <1>2, <1>3, <1>4 DEF Known
<1>6. /\ rows[Upload(r)] # NoRow /\ rows'[Upload(r)].status = "final"
      /\ \A a \in Assets \ {Upload(r)} : rows'[a] = rows[a]
  <2>1. rows \in [Assets -> Rows] /\ rows[Upload(r)] \in Rows /\ rows[Upload(r)].status = "staging"
    BY <1>1, <1>2 DEF TypeOK, IsStaging
  <2> QED BY <1>1, <1>2, <2>1 DEF WithPromoted, Rows, NoRow, Row
<1>7. finals' \subseteq Assets
  BY DEF IInv, TypeOK
<1> QED BY <1>1, <1>2, <1>3, <1>5, <1>6, <1>7, MakingLeft

-----------------------------------------------------------------------------
(* What is left over when media are written.                               *)

LEMMA OwnedRows ==
  ASSUME TypeOK, NEW m \in MediaIds, NEW owner, NEW a \in Assets
  PROVE  /\ Owned(m, owner)[a].status = rows[a].status /\ Owned(m, owner)[a].media = rows[a].media
         /\ Owned(m, owner)[a] # NoRow => rows[a] # NoRow
<1>1. rows[a] \in Rows /\ m # None
  BY AssetsFinite DEF TypeOK
<1> QED BY <1>1 DEF Owned, Rows, NoRow, Row

LEMMA AbortCuts ==
  ASSUME TypeOK, NEW r \in Requests, NEW cut, Abort(r, cut)
  PROVE  /\ req'[r].cut = cut /\ req'[r].pc \in {"done", "cleaning", "purge"}
         /\ \A q \in Requests : q # r => req'[q] = req[q]
<1>1. req \in [Requests -> Handlers]
  BY DEF TypeOK
<1>2. CASE req[r].op = "duplicate"
  BY <1>1, <1>2 DEF Abort, Go, New
<1>3. CASE req[r].op # "duplicate"
  BY <1>1, <1>3 DEF Abort, Unwind, Go, Cleaning, New
<1> QED BY <1>2, <1>3

\* A media is written: what it and its request answered for, the media answers
\* for now, or it is dropped or purged.
LEMMA WriteLeft ==
  ASSUME NInv, IInv', NEW r \in Requests, NEW w, NEW next \in Handlers, Write(r, w, next),
         req[r].pc \in Running, req[r].busy = {},
         req[r].op \in Creating \/ Exists(req[r].m),
         w.kind # "deck" => w.draft = NoDraft,
         next.cut = FALSE, next.trash = {},
         \/ /\ next.pc = "dropping"
            /\ BlobIds(media[req[r].m]) \union req[r].made \subseteq BlobIds(w) \union next.drop
         \/ /\ next.pc = "purge" /\ next.m = req[r].m
            /\ req[r].op = "delete" /\ req[r].made = {}
  PROVE  NInv'
<1>0. PICK m : m = req[r].m
  OBVIOUS
<1>1. /\ TypeOK /\ Whole /\ req[r].cut = FALSE /\ m \in MediaIds /\ req[r] \in Handlers
      /\ media \in [MediaIds -> Media]
  BY <1>0, RunningKnows DEF TypeOK
<1>2. media' = [media EXCEPT ![m] = w] /\ (rows' = rows \/ rows' = Owned(m, w.owner))
  BY <1>0 DEF Write, Put
<1>3. \A a \in Assets : /\ rows'[a].status = rows[a].status /\ rows'[a].media = rows[a].media
                        /\ rows'[a] # NoRow => rows[a] # NoRow
  BY <1>1, <1>2, OwnedRows
<1>4. \A x \in MediaIds : Plain(x)'
  BY <1>1, <1>2 DEF Plain, NInv
<1>5. CASE Go(r, next) /\ UNCHANGED <<finals, staged, spoilt>>
  <2>1. req'[r] = next /\ \A q \in Requests : q # r => req'[q] = req[q]
    BY <1>1, <1>5, GoTyped
  <2>2. Known(r)'
    BY <2>1, KnownElse
  <2>3. ASSUME Undisturbed, Accounted PROVE Tidy(r)
    <3>1. \A q \in staged' : IF q = r THEN Holds(q)' ELSE q \in staged
      <4>1. Holds(r) => next.pc = "dropping"
        BY DEF Holds, Running
      <4> QED BY <1>5, <2>1, <2>3, <4>1 DEF Accounted, Holds
    <3>2. ASSUME NEW a \in Assets, rows'[a] # NoRow
          PROVE  \/ ClaimedBy(r, a)'
                 \/ a \in BlobIds(media'[rows'[a].media])
                 \/ /\ rows[a] # NoRow
                    /\ rows'[a].status = rows[a].status /\ rows'[a].media = rows[a].media
                    /\ a \notin BlobIds(media[rows[a].media])
                    /\ ~ClaimedBy(r, a)
      <4>1. rows[a].media \in MediaIds
        BY <1>1, <1>3, <3>2 DEF Whole, Blank
      <4>2. CASE a \in BlobIds(media[rows[a].media]) /\ rows[a].media # m
        BY <1>2, <1>3, <4>1, <4>2 DEF BlobIds, content_blob_ids
      <4>3. CASE a \in BlobIds(media[m]) \union req[r].made /\ rows[a].media = m
        <5>1. media'[rows'[a].media] = w
          BY <1>1, <1>2, <1>3, <4>1, <4>3
        <5>2. CASE next.pc = "dropping"
          <6>1. a \in BlobIds(w) \union next.drop
            BY <1>0, <4>3, <5>2
          <6> QED BY <2>1, <5>1, <5>2, <6>1 DEF ClaimedBy
        <5>3. CASE next.pc = "purge"
          BY <1>0, <1>3, <2>1, <4>3, <5>3 DEF ClaimedBy
        <5> QED BY <5>2, <5>3
      <4>4. CASE Holds(r) /\ a = Upload(r) /\ rows[a].status = "staging"
        <5>1. next.pc = "dropping"
          BY <4>4 DEF Holds, Running
        <5> QED BY <1>3, <2>1, <4>4, <5>1 DEF ClaimedBy, Holds, Upload
      <4>5. a \in req[r].made => rows[a].media = m
        <5>1. Wanted(r) /\ Ready(r)
          BY <1>1, <2>3 DEF Undisturbed, Wanted, Whole
        <5> QED BY <1>0, <5>1 DEF Ready, Kept
      <4>6. ClaimedBy(r, a) => \/ a \in req[r].made
                               \/ Holds(r) /\ a = Upload(r) /\ rows[a].status = "staging"
        BY DEF ClaimedBy, Running
      <4> QED BY <1>3, <3>2, <4>2, <4>3, <4>4, <4>5, <4>6
    <3>3. ~ \E a : StoredBy(r, a)
      BY DEF StoredBy, Running
    <3>4. \A a \in finals' : \/ rows'[a].status = "final"
                             \/ a \in finals /\ rows[a].status # "final"
      BY <1>1, <1>3, <1>5 DEF TypeOK
    <3>5. Emptied(r)'
      BY <2>1 DEF Emptied
    <3> QED BY <1>3, <1>5, <3>1, <3>2, <3>3, <3>4, <3>5 DEF Tidy
  <2> QED BY <1>1, <1>4, <1>5, <2>1, <2>2, <2>3, LeftStep
<1>6. CASE Abort(r, TRUE) /\ spoilt \subseteq spoilt'
  <2>1. /\ req'[r].cut = TRUE /\ req'[r].pc \in {"done", "cleaning", "purge"}
        /\ \A q \in Requests : q # r => req'[q] = req[q]
    BY <1>1, <1>6, AbortCuts
  <2>2. Known(r)'
    BY <2>1, KnownElse
  <2>3. ~Undisturbed'
    BY <2>1 DEF Undisturbed
  <2> QED BY <1>4, <1>6, <2>1, <2>2, <2>3, LeftStep
<1> QED BY <1>5, <1>6 DEF Write

LEMMA DroppingFields ==
  ASSUME NEW drop \in SUBSET Assets
  PROVE  /\ Dropping(drop) \in Handlers /\ Dropping(drop).pc = "dropping"
         /\ Dropping(drop).cut = FALSE /\ Dropping(drop).trash = {} /\ Dropping(drop).drop = drop
BY BlobsTyped DEF Dropping, New, Handlers

LEMMA WritesLeft ==
  ASSUME NInv, IInv', NEW r \in Requests, NEW w, NEW drop \in SUBSET Assets,
         Write(r, w, Dropping(drop)), req[r].pc \in Running, req[r].busy = {},
         req[r].op \in Creating \/ Exists(req[r].m),
         w.kind # "deck" => w.draft = NoDraft,
         BlobIds(media[req[r].m]) \union req[r].made \subseteq BlobIds(w) \union drop
  PROVE  NInv'
<1> DEFINE next == Dropping(drop)
<1>1. /\ next \in Handlers /\ next.pc = "dropping" /\ next.cut = FALSE /\ next.trash = {}
      /\ next.drop = drop /\ Write(r, w, next)
  BY DroppingFields
<1> HIDE DEF next
<1> QED BY <1>1, WriteLeft

LEMMA CreateWithIdLeft ==
  ASSUME NInv, IInv', NEW r \in Requests, create_with_id(r)
  PROVE  NInv'
<1> DEFINE w == [req[r].seen EXCEPT !.content = req[r].made]
<1>1. /\ TypeOK /\ Whole /\ WellMade(r, req[r]) /\ req[r].pc \in Running /\ req[r].seen \in Media
      /\ req[r].op \in Creating /\ req[r].busy = {}
  BY AtWrite DEF NInv, create_with_id
<1>2. req[r].m = r /\ req[r].seen.draft = NoDraft
  BY <1>1 DEF WellMade
<1>3. BlobIds(media[r]) = {}
  <2>1. ~Exists(r) /\ r \in MediaIds
    BY <1>1, AssetsFinite DEF Whole, Unused, Fresh
  <2> QED BY <1>1, <2>1, BlobsTyped DEF Whole, Absent
<1>4. w.draft = NoDraft /\ req[r].made \subseteq BlobIds(w)
  BY <1>1, <1>2 DEF Media, BlobIds, content_blob_ids
<1>5. Write(r, w, Dropping({})) /\ {} \in SUBSET Assets
  BY DEF create_with_id
<1> HIDE DEF w
<1> QED BY <1>1, <1>2, <1>3, <1>4, <1>5, WritesLeft

LEMMA ReplaceContentLeft ==
  ASSUME NInv, IInv', NEW r \in Requests, replace_content(r)
  PROVE  NInv'
<1> DEFINE m == req[r].m
           w == [media[m] EXCEPT !.content = req[r].made, !.draft = NoDraft]
           drop == content_blob_ids(req[r].seen)
<1>1. /\ IInv /\ req[r].pc \in Running /\ m \in MediaIds /\ req[r].seen \in Media
      /\ media[m] \in Media /\ req[r].busy = {} /\ IsCurrent(r) /\ req[r].seen.kind # "deck"
  BY AtWrite DEF NInv, replace_content
<1>2. /\ Exists(m) /\ media[m].kind # "deck" /\ content_blob_ids(media[m]) = drop
  BY <1>1, Current
<1>3. BlobIds(media[m]) = drop
  <2>1. media[m].draft = NoDraft
    BY <1>1, <1>2 DEF NInv, Plain
  <2> QED BY <1>2, <2>1 DEF BlobIds, NoDraft
<1>4. w.draft = NoDraft /\ req[r].made \subseteq BlobIds(w)
  BY <1>1 DEF Media, BlobIds, content_blob_ids
<1>5. Write(r, w, Dropping(drop)) /\ drop \in SUBSET Assets
  BY <1>1, <1>3, BlobsTyped DEF replace_content
<1> HIDE DEF w, drop
<1> QED BY <1>1, <1>2, <1>3, <1>4, <1>5, WritesLeft

LEMMA AddDeckSourceLeft ==
  ASSUME NInv, IInv', NEW r \in Requests, add_deck_source(r)
  PROVE  NInv'
<1> DEFINE m == req[r].m
           w == [media[m] EXCEPT !.draft = Drafted(r)]
           drop == req[r].pick \ content_blob_ids(req[r].seen)
<1>1. /\ IInv /\ req[r].pc \in Running /\ m \in MediaIds /\ req[r].seen \in Media
      /\ media[m] \in Media /\ req[r].busy = {} /\ IsCurrent(r) /\ req[r].seen.kind = "deck"
      /\ req[r].pick \in SUBSET Assets
  BY AtWrite DEF NInv, add_deck_source
<1>2. /\ Exists(m) /\ media[m].kind = "deck"
      /\ content_blob_ids(media[m]) = content_blob_ids(req[r].seen)
      /\ media[m].draft = req[r].seen.draft
  BY <1>1, Current
<1>3. BlobIds(media[m]) \subseteq content_blob_ids(media[m]) \union DraftPages(req[r].seen)
  BY <1>2 DEF BlobIds, DraftPages, NoDraft
<1>4. /\ w.kind = "deck"
      /\ BlobIds(w) = content_blob_ids(media[m]) \union (DraftPages(req[r].seen) \ req[r].pick)
                        \union req[r].made
  <2>1. w.kind = "deck" /\ w.content = media[m].content /\ w.draft = Drafted(r)
    BY <1>1, <1>2 DEF Media
  <2> HIDE DEF w
  <2>2. Drafted(r).pages = (DraftPages(req[r].seen) \ req[r].pick) \union req[r].made
    BY DEF Drafted
  <2> QED BY <2>1, <2>2 DEF BlobIds, content_blob_ids
<1>5. Write(r, w, Dropping(drop)) /\ drop \in SUBSET Assets
  BY <1>1 DEF add_deck_source
<1>6. BlobIds(media[m]) \union req[r].made \subseteq BlobIds(w) \union drop
  BY <1>2, <1>3, <1>4
<1> HIDE DEF w, drop
<1> QED BY <1>1, <1>2, <1>4, <1>5, <1>6, WritesLeft

LEMMA BeginRevisionLeft ==
  ASSUME NInv, IInv', NEW r \in Requests, begin_deck_revision(r)
  PROVE  NInv'
<1> DEFINE m == req[r].m
           draft == [rev |-> r, pages |-> req[r].seen.content]
           w == [media[m] EXCEPT !.draft = draft]
<1>0. req[r].op = "begin" /\ req[r].op \in Editing /\ IsCurrent(r)
  BY DEF begin_deck_revision, Editing
<1>1. /\ IInv /\ req[r].pc \in Running /\ m \in MediaIds /\ req[r].seen \in Media
      /\ media[m] \in Media /\ req[r].busy = {} /\ req[r].made = {}
      /\ req[r].seen.draft = NoDraft /\ req[r].seen.kind = "deck"
  BY <1>0, AtWrite DEF NInv, Known
<1>2. Exists(m) /\ media[m].kind = "deck" /\ media[m].draft = NoDraft
  BY <1>0, <1>1, Current
<1>3. w.kind = "deck" /\ BlobIds(media[m]) \subseteq BlobIds(w)
  BY <1>1, <1>2 DEF Media, BlobIds, content_blob_ids, NoDraft
<1>4. Write(r, w, Dropping({})) /\ {} \in SUBSET Assets
  BY DEF begin_deck_revision
<1> HIDE DEF w
<1> QED BY <1>1, <1>2, <1>3, <1>4, WritesLeft

LEMMA CommitDeckLeft ==
  ASSUME NInv, IInv', NEW r \in Requests, commit_deck(r)
  PROVE  NInv'
<1> DEFINE m == req[r].m
           w == [media[m] EXCEPT !.content = req[r].pick, !.draft = NoDraft]
           drop == Superseded(r)
<1>0. req[r].op = "commit" /\ req[r].op \in Editing /\ IsCurrent(r)
  BY DEF commit_deck, Editing
<1>1. /\ IInv /\ req[r].pc \in Running /\ m \in MediaIds /\ req[r].seen \in Media
      /\ media[m] \in Media /\ req[r].busy = {} /\ req[r].made = {}
  BY <1>0, AtWrite DEF NInv
<1>2. Exists(m) /\ BlobIds(media[m]) = BlobIds(req[r].seen)
  BY <1>0, <1>1, Current
<1>3. w.draft = NoDraft /\ req[r].pick \subseteq BlobIds(w)
  BY <1>1 DEF Media, BlobIds, content_blob_ids
<1>4. Write(r, w, Dropping(drop)) /\ drop \in SUBSET Assets
  BY <1>1, BlobsTyped DEF commit_deck, Superseded
<1>5. BlobIds(media[m]) \union req[r].made \subseteq BlobIds(w) \union drop
  BY <1>1, <1>2, <1>3 DEF Superseded
<1> HIDE DEF w, drop
<1> QED BY <1>1, <1>2, <1>3, <1>4, <1>5, WritesLeft

LEMMA UpdateCurrentLeft ==
  ASSUME NInv, IInv', NEW r \in Requests, update_current(r)
  PROVE  NInv'
<1>0. req[r].op = "update" /\ req[r].op \in Editing /\ IsCurrent(r)
  BY DEF update_current, Editing
<1>1. PICK title \in Titles, owner \in Teams :
        Write(r, [media[req[r].m] EXCEPT !.title = title, !.owner = owner], Dropping({}))
  BY DEF update_current
<1> DEFINE m == req[r].m
           w == [media[m] EXCEPT !.title = title, !.owner = owner]
<1>2. /\ IInv /\ req[r].pc \in Running /\ m \in MediaIds /\ req[r].seen \in Media
      /\ media[m] \in Media /\ req[r].busy = {} /\ req[r].made = {} /\ Plain(m)
  BY <1>0, AtWrite DEF NInv
<1>3. Exists(m)
  BY <1>0, <1>2, Current
<1>4. /\ w.kind # "deck" => w.draft = NoDraft
      /\ BlobIds(media[m]) \subseteq BlobIds(w)
  BY <1>2 DEF Media, BlobIds, content_blob_ids, Plain
<1>5. Write(r, w, Dropping({})) /\ {} \in SUBSET Assets
  BY <1>1
<1> HIDE DEF w
<1> QED BY <1>2, <1>3, <1>4, <1>5, WritesLeft

LEMMA DeleteCurrentLeft ==
  ASSUME NInv, IInv', NEW r \in Requests, delete_current(r)
  PROVE  NInv'
<1> DEFINE m == req[r].m
           next == [New EXCEPT !.pc = "purge", !.m = m]
<1>0. req[r].op = "delete" /\ req[r].op \in Editing /\ IsCurrent(r)
  BY DEF delete_current, Editing
<1>1. /\ IInv /\ req[r].pc \in Running /\ m \in MediaIds /\ req[r].seen \in Media
      /\ req[r].busy = {} /\ req[r].made = {}
  BY <1>0, AtWrite DEF NInv
<1>2. Exists(m)
  BY <1>0, <1>1, Current
<1>3. /\ next \in Handlers /\ next.pc = "purge" /\ next.m = m
      /\ next.cut = FALSE /\ next.trash = {}
  BY <1>1, AtTyped DEF New, Handlers
<1>4. Write(r, NoMedia, next) /\ (NoMedia.kind # "deck" => NoMedia.draft = NoDraft)
  BY DEF delete_current, NoMedia, Medium
<1> HIDE DEF next
<1> QED BY <1>0, <1>1, <1>2, <1>3, <1>4, WriteLeft

LEMMA MoveOwnerLeft ==
  ASSUME NInv, IInv', NEW r \in Requests, move_owner(r)
  PROVE  NInv'
<1> DEFINE v == [New EXCEPT !.pc = "done"]
<1>1. PICK m \in MediaIds, owner \in Teams :
        /\ Begin(r, v) /\ media' = [media EXCEPT ![m].owner = owner] /\ rows' = Owned(m, owner)
  BY DEF move_owner
<1>2. /\ TypeOK /\ req[r] = New /\ Go(r, v) /\ media \in [MediaIds -> Media]
      /\ UNCHANGED <<finals, staged, spoilt>>
  BY <1>1 DEF NInv, IInv, Whole, WellMade, Begin, TypeOK, move_owner
<1>3. v \in Handlers /\ v.pc = "done" /\ ~v.cut
  BY BlobsTyped DEF New, Handlers, Over
<1> HIDE DEF v
<1>4. req'[r] = v /\ \A q \in Requests : q # r => req'[q] = req[q]
  BY <1>2, <1>3, GoTyped
<1>5. \A x \in MediaIds : BlobIds(media'[x]) = BlobIds(media[x]) /\ Plain(x)'
  <2> SUFFICES ASSUME NEW x \in MediaIds PROVE BlobIds(media'[x]) = BlobIds(media[x]) /\ Plain(x)'
    OBVIOUS
  <2>1. media[x] \in Media /\ Plain(x)
    BY <1>2 DEF NInv
  <2>2. /\ media'[x].content = media[x].content /\ media'[x].draft = media[x].draft
        /\ media'[x].kind = media[x].kind
    BY <1>1, <1>2, <2>1 DEF Media
  <2> QED BY <2>1, <2>2 DEF BlobIds, content_blob_ids, Plain
<1>6. \A a \in Assets : /\ rows'[a].status = rows[a].status /\ rows'[a].media = rows[a].media
                        /\ rows'[a] # NoRow => rows[a] # NoRow
  BY <1>1, <1>2, OwnedRows
<1>7. Known(r)' /\ (req[r].cut => req'[r].cut)
  BY <1>2, <1>3, <1>4, KnownElse DEF New
<1>8. ASSUME Accounted PROVE Tidy(r)
  <2>1. \A a : ~ClaimedBy(r, a) /\ ~StoredBy(r, a) /\ ~Holds(r)
    BY <1>2 DEF ClaimedBy, StoredBy, Holds, New, Running
  <2>2. \A q \in staged' : IF q = r THEN Holds(q)' ELSE q \in staged
    BY <1>2, <1>8, <2>1 DEF Accounted
  <2>3. ASSUME NEW a \in Assets, rows'[a] # NoRow
        PROVE  \/ a \in BlobIds(media'[rows'[a].media])
               \/ /\ rows[a] # NoRow
                  /\ rows'[a].status = rows[a].status /\ rows'[a].media = rows[a].media
                  /\ a \notin BlobIds(media[rows[a].media])
    <3>1. rows[a].media \in MediaIds
      BY <1>6, <2>3 DEF NInv, IInv, Whole, Blank
    <3> QED BY <1>5, <1>6, <2>3, <3>1
  <2>4. \A a \in finals' : \/ rows'[a].status = "final"
                           \/ a \in finals /\ rows[a].status # "final"
    BY <1>2, <1>6 DEF TypeOK
  <2>5. Emptied(r)'
    BY <1>3, <1>4 DEF Emptied
  <2> QED BY <1>2, <1>6, <2>1, <2>2, <2>3, <2>4, <2>5 DEF Tidy
<1> QED BY <1>2, <1>4, <1>5, <1>7, <1>8, LeftStep

-----------------------------------------------------------------------------
(* What is left over when assets are removed.                              *)

LEMMA CleaningFields ==
  ASSUME NEW trash, NEW cut
  PROVE  /\ Cleaning(trash, cut).trash = trash /\ Cleaning(trash, cut).cut = cut
         /\ Cleaning(trash, cut).pc = IF trash = {} THEN "done" ELSE "cleaning"
BY DEF Cleaning, New

\* A staged upload has no file in the final directory but the one that its
\* request has just moved there.
LEMMA StagingFiles ==
  ASSUME NInv, Accounted, NEW r \in Requests, NEW a \in StagingRow(r), a \in finals
  PROVE  a \in req[r].busy
<1>1. /\ a = Upload(r) /\ a[1] = r /\ rows[a].status = "staging"
      /\ rows[a].status # "final" /\ rows[a] # NoRow
  BY DEF StagingRow, IsStaging, Upload, NoRow, Row
<1>2. PICK q \in Requests : StoredBy(q, a)
  BY <1>1 DEF Accounted, Stored
<1>3. a \in req[q].busy
  BY <1>1, <1>2 DEF StoredBy, Accounted, Emptied
<1>4. q = r
  BY <1>1, <1>3 DEF NInv, IInv, Whole, WellMade
<1> QED BY <1>3, <1>4

\* A handler that is past its write.
LEMMA EndingKnows ==
  ASSUME NInv, NEW r \in Requests, req[r].pc \in {"dropping", "cleaning", "purge", "purging"}
  PROVE  /\ TypeOK /\ req[r] \in Handlers /\ req[r].made = {} /\ req[r].busy = {}
         /\ req[r].cut \in BOOLEAN /\ (req[r].pc = "dropping" => req[r].cut = FALSE)
<1>1. TypeOK /\ WellMade(r, req[r]) /\ Known(r) /\ req[r] \in Handlers
  BY TypeFacts DEF NInv, IInv, Whole
<1>2. req[r].cut \in BOOLEAN
  BY <1>1 DEF Handlers
<1> QED BY <1>1, <1>2 DEF WellMade, Known

LEMMA DropFileLeft ==
  ASSUME NInv, IInv', NEW r \in Requests, DropFile(r)
  PROVE  NInv'
<1>1. PICK a \in req[r].drop :
        finals' = finals \ {a} /\ Go(r, [req[r] EXCEPT !.drop = @ \ {a}, !.trash = {a}])
  BY DEF DropFile
<1> DEFINE v == [req[r] EXCEPT !.drop = @ \ {a}, !.trash = {a}]
<1>2. /\ req[r].pc = "dropping" /\ req[r].trash = {}
      /\ UNCHANGED <<media, rows, staged, spoilt>>
  BY DEF DropFile
<1>3. /\ TypeOK /\ req[r] \in Handlers /\ req[r].cut = FALSE
      /\ req[r].made = {} /\ req[r].busy = {} /\ a \in Assets
  BY <1>1, <1>2, EndingKnows DEF Handlers
<1>4. /\ v \in Handlers /\ v.pc = "dropping" /\ v.cut = FALSE /\ v.op = req[r].op /\ v.made = {}
      /\ v.drop = req[r].drop \ {a} /\ v.trash = {a}
  BY <1>2, <1>3 DEF Handlers
<1>5. Go(r, v)
  BY <1>1
<1> HIDE DEF v
<1>6. req'[r] = v /\ \A q \in Requests : q # r => req'[q] = req[q]
  BY <1>3, <1>4, <1>5, GoTyped
<1>7. Known(r)'
  BY <1>4, <1>6, KnownElse
<1>8. ASSUME Accounted PROVE Tidy(r)
  <2>1. Holds(r)'
    BY <1>4, <1>6 DEF Holds
  <2>2. \A x \in Assets : ClaimedBy(r, x) => ClaimedBy(r, x)'
    BY <1>1, <1>2, <1>3, <1>4, <1>6, <2>1 DEF ClaimedBy, Running, Upload
  <2>3. \A x : ~StoredBy(r, x)
    BY <1>2, <1>3 DEF StoredBy
  <2>4. Emptied(r)'
    BY <1>1, <1>4, <1>6 DEF Emptied
  <2>5. \A q \in staged' : IF q = r THEN Holds(q)' ELSE q \in staged
    BY <1>2, <2>1
  <2>6. \A x \in Assets : rows'[x] # NoRow =>
           \/ ClaimedBy(r, x)'
           \/ /\ rows[x] # NoRow
              /\ rows'[x].status = rows[x].status /\ rows'[x].media = rows[x].media
              /\ ~ClaimedBy(r, x)
    BY <1>2, <2>2
  <2>7. \A x \in finals' :
           \/ rows'[x].status = "final"
           \/ StoredBy(r, x)'
           \/ x \in finals /\ rows[x].status # "final" /\ ~StoredBy(r, x)
    BY <1>1, <1>2, <2>3
  <2> QED BY <1>1, <1>2, <2>4, <2>5, <2>6, <2>7, TidyHere
<1>9. \A m \in MediaIds : Plain(m)'
  BY <1>2, PlainStays
<1> QED BY <1>2, <1>3, <1>6, <1>7, <1>8, <1>9, LeftStep

LEMMA DeleteRecordLeft ==
  ASSUME NInv, IInv', NEW r \in Requests, delete_asset_record(r)
  PROVE  NInv'
<1>1. PICK a \in req[r].trash :
        /\ rows' = [rows EXCEPT ![a] = NoRow]
        /\ \/ req[r].pc = "dropping" /\ Go(r, [req[r] EXCEPT !.trash = @ \ {a}])
           \/ req[r].pc = "cleaning" /\ Go(r, Cleaning(req[r].trash \ {a}, req[r].cut))
  BY DEF delete_asset_record
<1>2. UNCHANGED <<media, finals, staged, spoilt>>
  BY DEF delete_asset_record
<1>3. /\ TypeOK /\ req[r] \in Handlers /\ req[r].cut \in BOOLEAN
      /\ req[r].pc = "dropping" => req[r].cut = FALSE
      /\ req[r].made = {} /\ req[r].busy = {} /\ req[r].pc \in {"dropping", "cleaning"}
      /\ req[r].trash \in SUBSET Assets
  BY <1>1, EndingKnows DEF Handlers
<1>4. PICK v \in Handlers :
        /\ Go(r, v) /\ v.cut = req[r].cut /\ v.trash = req[r].trash \ {a}
        /\ \/ /\ v.pc = "dropping" /\ req[r].pc = "dropping" /\ v.drop = req[r].drop
           \/ /\ req[r].pc = "cleaning"
              /\ v.pc = IF v.trash = {} THEN "done" ELSE "cleaning"
  <2>1. CASE req[r].pc = "dropping" /\ Go(r, [req[r] EXCEPT !.trash = @ \ {a}])
    <3> DEFINE v == [req[r] EXCEPT !.trash = @ \ {a}]
    <3>1. /\ v \in Handlers /\ v.cut = req[r].cut /\ v.trash = req[r].trash \ {a}
          /\ v.pc = "dropping" /\ v.drop = req[r].drop
      BY <1>3, <2>1 DEF Handlers
    <3> QED BY <2>1, <3>1
  <2>2. CASE req[r].pc = "cleaning" /\ Go(r, Cleaning(req[r].trash \ {a}, req[r].cut))
    <3> DEFINE trash == req[r].trash \ {a}
               v == Cleaning(trash, req[r].cut)
    <3>1. trash \in SUBSET Assets
      BY <1>3
    <3> HIDE DEF trash
    <3>2. v \in Handlers
      BY <1>3, <3>1, CleaningTyped
    <3>3. v.trash = trash /\ v.cut = req[r].cut /\ v.pc = IF trash = {} THEN "done" ELSE "cleaning"
      BY CleaningFields
    <3>4. Go(r, v)
      BY <2>2 DEF trash
    <3> HIDE DEF v
    <3>5. v.trash = req[r].trash \ {a}
      BY <3>3 DEF trash
    <3> QED BY <2>2, <3>2, <3>3, <3>4, <3>5
  <2> QED BY <1>1, <2>1, <2>2
<1>5. req'[r] = v /\ \A q \in Requests : q # r => req'[q] = req[q]
  BY <1>3, <1>4, GoTyped
<1>6. Known(r)'
  BY <1>3, <1>4, <1>5, KnownElse
<1>7. /\ rows \in [Assets -> Rows] /\ rows'[a] = NoRow
      /\ \A x \in Assets : x # a => rows'[x] = rows[x]
  BY <1>1, <1>3 DEF TypeOK
<1>8. ASSUME Accounted PROVE Tidy(r)
  <2>1. \A q \in staged' : IF q = r THEN Holds(q)' ELSE q \in staged
    <3>1. Holds(r) => Holds(r)'
      BY <1>3, <1>4, <1>5 DEF Holds, Running
    <3> QED BY <1>2, <1>8, <3>1 DEF Accounted
  <2>2. ASSUME NEW x \in Assets, rows'[x] # NoRow
        PROVE  \/ ClaimedBy(r, x)'
               \/ /\ rows[x] # NoRow
                  /\ rows'[x].status = rows[x].status /\ rows'[x].media = rows[x].media
                  /\ ~ClaimedBy(r, x)
    <3>1. x # a /\ rows'[x] = rows[x]
      BY <1>7, <2>2
    <3>2. ClaimedBy(r, x) => ClaimedBy(r, x)'
      BY <1>3, <1>4, <1>5, <3>1 DEF ClaimedBy, Holds, Running, Upload
    <3> QED BY <2>2, <3>1, <3>2
  <2>3. a \notin finals /\ req[r].trash \intersect finals = {}
    BY <1>1, <1>3, <1>8 DEF Accounted, Emptied
  <2>4. \A x : ~StoredBy(r, x)
    BY <1>3 DEF StoredBy
  <2>5. \A x \in finals' :
           \/ rows'[x].status = "final"
           \/ StoredBy(r, x)'
           \/ x \in finals /\ rows[x].status # "final" /\ ~StoredBy(r, x)
    BY <1>2, <1>3, <1>7, <2>3, <2>4 DEF TypeOK
  <2>6. Emptied(r)'
    BY <1>2, <1>4, <1>5, <2>3 DEF Emptied
  <2> QED BY <1>2, <1>7, <2>1, <2>2, <2>5, <2>6, TidyHere
<1>9. \A m \in MediaIds : Plain(m)'
  BY <1>2, PlainStays
<1> QED BY <1>2, <1>4, <1>5, <1>6, <1>8, <1>9, LeftStep

LEMMA CleanupNowLeft ==
  ASSUME NInv, IInv', NEW r \in Requests, cleanup_now(r)
  PROVE  NInv'
<1> DEFINE trash == StagingRow(r)
           v == Cleaning(trash, FALSE)
<1>1. /\ req[r].pc = "dropping" /\ req[r].drop = {} /\ req[r].trash = {}
      /\ finals' = finals /\ staged' = staged \ {r} /\ Go(r, v)
      /\ UNCHANGED <<media, rows, spoilt>>
  BY DEF cleanup_now, Unwind
<1>2. /\ TypeOK /\ req[r].cut = FALSE /\ req[r].made = {} /\ req[r].busy = {}
      /\ trash \in SUBSET Assets
  <2>1. TypeOK /\ Whole
    BY DEF NInv, IInv
  <2> QED BY <1>1, <2>1, EndingKnows, OwnTyped
<1>3. /\ \A a \in Assets : a \in trash <=> a = Upload(r) /\ rows[a].status = "staging"
      /\ Accounted => trash \intersect finals = {}
  <2>1. \A a \in Assets : a \in trash <=> a = Upload(r) /\ rows[a].status = "staging"
    BY DEF StagingRow, IsStaging
  <2>2. ASSUME Accounted, NEW a \in trash, a \in finals PROVE FALSE
    <3>1. a \in req[r].busy
      BY <2>2, StagingFiles
    <3> QED BY <1>2, <3>1
  <2> HIDE DEF trash
  <2> QED BY <2>1, <2>2
<1> HIDE DEF trash
<1>4. v \in Handlers /\ v.trash = trash /\ v.cut = FALSE /\ v.pc = IF trash = {} THEN "done" ELSE "cleaning"
  <2>1. v \in Handlers
    BY <1>2, CleaningTyped
  <2>2. v.trash = trash /\ v.cut = FALSE /\ v.pc = IF trash = {} THEN "done" ELSE "cleaning"
    BY DEF Cleaning, New
  <2> QED BY <2>1, <2>2
<1> HIDE DEF v
<1>5. req'[r] = v /\ \A q \in Requests : q # r => req'[q] = req[q]
  BY <1>1, <1>2, <1>4, GoTyped
<1>6. Known(r)'
  BY <1>4, <1>5, KnownElse
<1>7. ASSUME Accounted PROVE Tidy(r)
  <2>1. \A q \in staged' : IF q = r THEN Holds(q)' ELSE q \in staged
    BY <1>1
  <2>2. \A x \in Assets : ClaimedBy(r, x) => ClaimedBy(r, x)'
    BY <1>1, <1>2, <1>3, <1>4, <1>5 DEF ClaimedBy, Holds, Running
  <2>3. \A x : ~StoredBy(r, x)
    BY <1>1, <1>2 DEF StoredBy
  <2>4. Emptied(r)'
    BY <1>1, <1>3, <1>4, <1>5, <1>7 DEF Emptied
  <2>5. \A x \in Assets : rows'[x] # NoRow =>
           \/ ClaimedBy(r, x)'
           \/ /\ rows[x] # NoRow
              /\ rows'[x].status = rows[x].status /\ rows'[x].media = rows[x].media
              /\ ~ClaimedBy(r, x)
    BY <1>1, <2>2
  <2>6. \A x \in finals' :
           \/ rows'[x].status = "final"
           \/ StoredBy(r, x)'
           \/ x \in finals /\ rows[x].status # "final" /\ ~StoredBy(r, x)
    BY <1>1, <2>3
  <2> QED BY <1>1, <2>1, <2>4, <2>5, <2>6, TidyHere
<1>8. \A m \in MediaIds : Plain(m)'
  BY <1>1, PlainStays
<1> QED BY <1>1, <1>2, <1>5, <1>6, <1>7, <1>8, LeftStep

LEMMA PurgeLeft ==
  ASSUME NInv, IInv', NEW r \in Requests, delete_assets_for_media(r)
  PROVE  NInv'
<1>0. PICK m : m = req[r].m
  OBVIOUS
<1> DEFINE gone == RowsOf(m)
           drop == {a \in gone : rows[a].status = "final"}
           trash == {a \in gone : rows[a].status = "staging"}
           v == [req[r] EXCEPT !.pc = "purging", !.m = None, !.drop = drop, !.trash = trash]
<1>1. /\ req[r].pc = "purge" /\ rows' = [a \in Assets |-> IF a \in gone THEN NoRow ELSE rows[a]]
      /\ Go(r, v) /\ UNCHANGED <<media, finals, staged, spoilt>>
  BY <1>0 DEF delete_assets_for_media
<1>2. /\ TypeOK /\ req[r] \in Handlers /\ req[r].made = {} /\ req[r].busy = {}
  BY <1>1, EndingKnows
<1>3. /\ \A a \in Assets : a \in gone <=> rows[a] # NoRow /\ rows[a].media = m
      /\ gone \in SUBSET Assets
  BY DEF RowsOf
<1> HIDE DEF gone
<1>4. /\ \A a \in Assets : a \in drop <=> a \in gone /\ rows[a].status = "final"
      /\ drop \in SUBSET Assets /\ trash \in SUBSET Assets /\ drop \subseteq gone
  BY <1>3
<1> HIDE DEF drop, trash
<1>5. /\ v \in Handlers /\ v.pc = "purging" /\ v.drop = drop /\ v.cut = req[r].cut
  BY <1>2, <1>4 DEF Handlers
<1> HIDE DEF v
<1>6. req'[r] = v /\ \A q \in Requests : q # r => req'[q] = req[q]
  BY <1>1, <1>2, <1>5, GoTyped
<1>7. Known(r)'
  BY <1>5, <1>6, KnownElse
<1>8. ASSUME Accounted PROVE Tidy(r)
  <2>1. r \notin staged
    BY <1>1, <1>8 DEF Accounted, Holds, Running
  <2>2. \A q \in staged' : IF q = r THEN Holds(q)' ELSE q \in staged
    BY <1>1, <2>1
  <2>3. ASSUME NEW a \in Assets, rows'[a] # NoRow
        PROVE  /\ rows[a] # NoRow
               /\ rows'[a].status = rows[a].status /\ rows'[a].media = rows[a].media
               /\ ~ClaimedBy(r, a)
    <3>1. a \notin gone /\ rows'[a] = rows[a]
      BY <1>1, <2>3
    <3> QED BY <1>0, <1>1, <1>3, <2>3, <3>1 DEF ClaimedBy, Holds, Running
  <2>4. ASSUME NEW a \in finals'
        PROVE  \/ rows'[a].status = "final"
               \/ StoredBy(r, a)'
               \/ a \in finals /\ rows[a].status # "final" /\ ~StoredBy(r, a)
    <3>1. a \in Assets /\ a \in finals /\ ~StoredBy(r, a)
      BY <1>1, <1>2, <2>4 DEF TypeOK, StoredBy
    <3>2. CASE a \in gone /\ rows[a].status = "final"
      BY <1>4, <1>5, <1>6, <3>1, <3>2 DEF StoredBy
    <3>3. CASE a \notin gone
      BY <1>1, <3>1, <3>3
    <3> QED BY <3>1, <3>2, <3>3
  <2>5. Emptied(r)'
    BY <1>1, <1>4, <1>5, <1>6 DEF Emptied
  <2> QED BY <1>1, <2>2, <2>3, <2>4, <2>5, TidyHere
<1>9. \A x \in MediaIds : Plain(x)'
  BY <1>1, PlainStays
<1> QED BY <1>1, <1>5, <1>6, <1>7, <1>8, <1>9, LeftStep

LEMMA RemovePurgedLeft ==
  ASSUME NInv, IInv', NEW r \in Requests, RemovePurged(r)
  PROVE  NInv'
<1> DEFINE v == Cleaning({}, req[r].cut)
<1>1. /\ req[r].pc = "purging" /\ finals' = finals \ req[r].drop /\ Go(r, v)
      /\ staged' \subseteq staged /\ UNCHANGED <<media, rows, spoilt>>
  BY DEF RemovePurged
<1>2. /\ TypeOK /\ req[r] \in Handlers /\ req[r].made = {} /\ req[r].busy = {}
      /\ req[r].cut \in BOOLEAN
  BY <1>1, EndingKnows
<1>3. v \in Handlers /\ v.cut = req[r].cut /\ v.pc = "done"
  BY <1>2, CleaningTyped, CleaningFields
<1> HIDE DEF v
<1>4. req'[r] = v /\ \A q \in Requests : q # r => req'[q] = req[q]
  BY <1>1, <1>2, <1>3, GoTyped
<1>5. Known(r)'
  BY <1>3, <1>4, KnownElse
<1>6. ASSUME Accounted PROVE Tidy(r)
  <2>1. \A a : ~ClaimedBy(r, a) /\ ~Holds(r)
    BY <1>1 DEF ClaimedBy, Holds, Running
  <2>2. \A q \in staged' : IF q = r THEN Holds(q)' ELSE q \in staged
    BY <1>1, <1>6, <2>1 DEF Accounted
  <2>3. \A a \in Assets : rows'[a] # NoRow =>
           /\ rows[a] # NoRow
           /\ rows'[a].status = rows[a].status /\ rows'[a].media = rows[a].media
           /\ ~ClaimedBy(r, a)
    BY <1>1, <2>1
  <2>4. \A a \in finals' : \/ rows'[a].status = "final"
                           \/ a \in finals /\ rows[a].status # "final" /\ ~StoredBy(r, a)
    BY <1>1, <1>2 DEF StoredBy
  <2>5. Emptied(r)'
    BY <1>3, <1>4 DEF Emptied
  <2> QED BY <1>1, <2>2, <2>3, <2>4, <2>5, TidyHere
<1>7. \A x \in MediaIds : Plain(x)'
  BY <1>1, PlainStays
<1> QED BY <1>1, <1>3, <1>4, <1>5, <1>6, <1>7, LeftStep

LEMMA FailLeft ==
  ASSUME NInv, IInv', NEW r \in Requests, Fail(r)
  PROVE  NInv'
<1>1. req[r].pc \in Running /\ Abort(r, FALSE) /\ UNCHANGED <<media, rows, spoilt>>
  BY DEF Fail
<1>2. /\ TypeOK /\ Whole /\ WellMade(r, req[r]) /\ req[r].cut = FALSE
      /\ req[r].drop = {} /\ req[r].trash = {} /\ Ready(r) /\ req[r].m \in MediaIds
  BY <1>1, RunningKnows DEF Whole
<1>3. /\ req'[r].cut = FALSE /\ req'[r].pc \in {"done", "cleaning", "purge"}
      /\ \A q \in Requests : q # r => req'[q] = req[q]
  BY <1>1, <1>2, AbortCuts
<1>4. Known(r)'
  BY <1>3, KnownElse
<1>5. \A x \in MediaIds : Plain(x)'
  BY <1>1, PlainStays
<1>6. ASSUME Undisturbed, Accounted, req[r].op # "duplicate" PROVE Tidy(r)
  <2> DEFINE trash == req[r].made \union StagingRow(r)
             v == Cleaning(trash, FALSE)
  <2>1. /\ finals' = finals \ (req[r].made \union req[r].busy) /\ staged' = staged \ {r} /\ Go(r, v)
    BY <1>1, <1>6 DEF Abort, Unwind
  <2>2. trash \in SUBSET Assets
    BY <1>2, OwnTyped, TypeFacts
  <2>3. \A a \in Assets : a \in trash <=> \/ a \in req[r].made
                                          \/ a = Upload(r) /\ rows[a].status = "staging"
    BY DEF StagingRow, IsStaging
  <2>4. trash \intersect finals' = {}
    <3>1. \A a \in StagingRow(r) : a \in finals => a \in req[r].busy
      BY <1>6, StagingFiles
    <3> QED BY <2>1, <3>1
  <2> HIDE DEF trash
  <2>5. /\ v.trash = trash /\ v.pc = IF trash = {} THEN "done" ELSE "cleaning"
        /\ req'[r] = v
    <3>1. v \in Handlers
      BY <2>2, CleaningTyped
    <3>2. v.trash = trash /\ v.pc = IF trash = {} THEN "done" ELSE "cleaning"
      BY DEF Cleaning, New
    <3> HIDE DEF v
    <3> QED BY <1>2, <2>1, <3>1, <3>2, GoTyped
  <2> HIDE DEF v
  <2>6. \A q \in staged' : IF q = r THEN Holds(q)' ELSE q \in staged
    BY <2>1
  <2>7. \A a \in Assets : ClaimedBy(r, a) => ClaimedBy(r, a)'
    BY <1>1, <1>2, <2>3, <2>5 DEF ClaimedBy, Holds, Running
  <2>8. \A a : StoredBy(r, a) => a \in req[r].busy
    BY <1>1 DEF StoredBy, Running
  <2>9. \A a \in Assets : rows'[a] # NoRow =>
           \/ ClaimedBy(r, a)'
           \/ /\ rows[a] # NoRow
              /\ rows'[a].status = rows[a].status /\ rows'[a].media = rows[a].media
              /\ ~ClaimedBy(r, a)
    BY <1>1, <2>7
  <2>10. \A a \in finals' :
           \/ rows'[a].status = "final"
           \/ StoredBy(r, a)'
           \/ a \in finals /\ rows[a].status # "final" /\ ~StoredBy(r, a)
    BY <1>1, <2>1, <2>8
  <2>11. Emptied(r)'
    BY <2>4, <2>5 DEF Emptied
  <2> QED BY <1>1, <2>1, <2>6, <2>9, <2>10, <2>11, TidyHere
<1>7. ASSUME Undisturbed, Accounted, req[r].op = "duplicate" PROVE Tidy(r)
  <2> DEFINE v == [New EXCEPT !.pc = "purge", !.m = r, !.cut = FALSE]
  <2>1. finals' = finals \ req[r].busy /\ staged' = staged /\ Go(r, v)
    BY <1>1, <1>7 DEF Abort
  <2>2. v \in Handlers /\ v.pc = "purge" /\ v.m = r
    BY AtTyped, AssetsFinite DEF New, Handlers
  <2> HIDE DEF v
  <2>3. req'[r] = v
    BY <1>2, <2>1, <2>2, GoTyped
  <2>4. ~Holds(r)
    BY <1>1, <1>7 DEF Holds, Running
  <2>5. \A a \in req[r].made : rows[a].media = r
    <3>1. Wanted(r) /\ req[r].m = r
      BY <1>1, <1>2, <1>7 DEF Undisturbed, Wanted, Creating, WellMade
    <3> QED BY <1>1, <1>2, <3>1 DEF Ready, Kept
  <2>6. \A q \in staged' : IF q = r THEN Holds(q)' ELSE q \in staged
    BY <1>7, <2>1, <2>4 DEF Accounted
  <2>7. \A a \in Assets : ClaimedBy(r, a) => ClaimedBy(r, a)'
    BY <1>1, <1>2, <2>2, <2>3, <2>4, <2>5 DEF ClaimedBy, Running
  <2>8. \A a : StoredBy(r, a) => a \in req[r].busy
    BY <1>1 DEF StoredBy, Running
  <2>9. \A a \in Assets : rows'[a] # NoRow =>
           \/ ClaimedBy(r, a)'
           \/ /\ rows[a] # NoRow
              /\ rows'[a].status = rows[a].status /\ rows'[a].media = rows[a].media
              /\ ~ClaimedBy(r, a)
    BY <1>1, <2>7
  <2>10. \A a \in finals' :
           \/ rows'[a].status = "final"
           \/ StoredBy(r, a)'
           \/ a \in finals /\ rows[a].status # "final" /\ ~StoredBy(r, a)
    BY <1>1, <2>1, <2>8
  <2>11. Emptied(r)'
    BY <2>2, <2>3 DEF Emptied
  <2> QED BY <1>1, <2>1, <2>6, <2>9, <2>10, <2>11, TidyHere
<1> QED BY <1>1, <1>2, <1>3, <1>4, <1>5, <1>6, <1>7, LeftStep

\* A handler that was dropped: nothing is promised of what it leaves.
LEMMA CancelLeft ==
  ASSUME NInv, IInv', NEW r \in Requests, Cancel(r)
  PROVE  NInv'
<1>1. TypeOK /\ UNCHANGED <<media, spoilt>>
  BY DEF NInv, IInv, Cancel
<1>2. \E trash : Go(r, Cleaning(trash, TRUE))
  BY DEF Cancel, Unwind
<1>3. PICK trash : Go(r, Cleaning(trash, TRUE))
  BY <1>2
<1>4. req \in [Requests -> Handlers]
  BY <1>1 DEF TypeOK
<1>5. /\ req'[r].cut = TRUE /\ req'[r].pc \in {"done", "cleaning"}
      /\ \A q \in Requests : q # r => req'[q] = req[q]
  BY <1>3, <1>4 DEF Go, Cleaning, New
<1>6. Known(r)' /\ ~Undisturbed'
  BY <1>5, KnownElse DEF Undisturbed
<1>7. \A x \in MediaIds : Plain(x)'
  BY <1>1, PlainStays
<1> QED BY <1>1, <1>5, <1>6, <1>7, LeftStep

-----------------------------------------------------------------------------
(* What is left over after a crash and the reconciliation.                 *)

LEMMA SweepTidy ==
  ASSUME TypeOK, media' = media, staged' \subseteq staged, finals' \subseteq finals,
         \A a \in Assets : \/ rows'[a] = rows[a]
                           \/ rows'[a] = NoRow /\ rows[a].status # "final"
  PROVE  Tidy(None)
<1>1. None \notin Requests /\ staged \subseteq Requests /\ finals \subseteq Assets
  BY AssetsFinite DEF TypeOK
<1>2. \A a \in Assets : rows'[a] # NoRow =>
        /\ rows[a] # NoRow
        /\ rows'[a].status = rows[a].status /\ rows'[a].media = rows[a].media
  OBVIOUS
<1>3. \A a \in finals' : rows'[a].status = "final" \/ (a \in finals /\ rows[a].status # "final")
  BY <1>1
<1> QED BY <1>1, <1>2, <1>3 DEF Tidy

LEMMA SweepLeft ==
  ASSUME NInv, IInv', media' = media, req' = req, spoilt \subseteq spoilt',
         Undisturbed' => /\ staged' \subseteq staged /\ finals' \subseteq finals
                         /\ \A a \in Assets : \/ rows'[a] = rows[a]
                                              \/ rows'[a] = NoRow /\ rows[a].status # "final"
  PROVE  NInv'
<1>1. None \notin Requests /\ TypeOK
  BY AssetsFinite DEF NInv, IInv
<1>2. Undisturbed' => Tidy(None)
  BY <1>1, SweepTidy
<1>3. \A m \in MediaIds : Plain(m)'
  BY PlainStays
<1> QED BY <1>1, <1>2, <1>3, LeftStep

LEMMA ReconcileLeft ==
  ASSUME NInv, IInv', Reconcile
  PROVE  NInv'
<1>0. TypeOK /\ Whole
  BY DEF NInv, IInv
<1>1. CASE reconcile_abandoned_staging
  <2>1. UNCHANGED <<media, rows, finals, req, spoilt>> /\ staged' \subseteq staged
    BY <1>1 DEF reconcile_abandoned_staging
  <2> QED BY <2>1, SweepLeft
<1>2. CASE DeleteStale
  <2>1. UNCHANGED <<media, finals, req, spoilt>> /\ sweep.pc = "stale"
    BY <1>2 DEF DeleteStale
  <2>2. PICK r \in sweep.stale :
          staged' = staged \ {r} /\ rows' = [rows EXCEPT ![Upload(r)] = NoRow]
    BY <1>2 DEF DeleteStale
  <2>3. rows[Upload(r)].status # "final" /\ rows \in [Assets -> Rows]
    BY <1>0, <2>1 DEF Whole, StaleIsOver, TypeOK
  <2>4. \A a \in Assets : \/ rows'[a] = rows[a]
                          \/ rows'[a] = NoRow /\ rows[a].status # "final"
    BY <2>2, <2>3
  <2> QED BY <2>1, <2>2, <2>4, SweepLeft
<1>3. CASE delete_orphan_assets
  <2>1. UNCHANGED <<media, req>> /\ spoilt' = spoilt \union {rows[a].media : a \in Orphans}
        /\ Orphans # {}
    BY <1>3 DEF delete_orphan_assets
  <2>2. ~Undisturbed'
    <3>1. PICK a : a \in Orphans
      BY <2>1
    <3>2. rows[a].media \in spoilt'
      BY <2>1, <3>1
    <3> QED BY <3>2 DEF Undisturbed
  <2> QED BY <2>1, <2>2, SweepLeft
<1>4. CASE RemoveOrphans
  <2>1. /\ UNCHANGED <<media, rows, req, spoilt>>
        /\ staged' \subseteq staged /\ finals' \subseteq finals
    BY <1>4 DEF RemoveOrphans
  <2> QED BY <2>1, SweepLeft
<1> QED BY <1>1, <1>2, <1>3, <1>4 DEF Reconcile

LEMMA CrashLeft ==
  ASSUME NInv, IInv', Crash
  PROVE  NInv'
<1>1. /\ TypeOK /\ None \notin Requests /\ UNCHANGED <<media, rows, finals, staged, spoilt>>
      /\ \A q \in Requests : req'[q] = IF req[q].pc \in Over THEN req[q] ELSE Cleaning({}, TRUE)
  BY AssetsFinite DEF NInv, IInv, Crash
<1>2. ASSUME NEW q \in Requests PROVE Known(q)' /\ (req'[q] = req[q] \/ req'[q].cut = TRUE)
  <2>1. CASE req[q].pc \in Over
    <3>1. req'[q] = req[q] /\ Known(q)
      BY <1>1, <2>1 DEF NInv
    <3> QED BY <3>1 DEF Known, NextPage
  <2>2. CASE req[q].pc \notin Over
    <3>1. req'[q] = Cleaning({}, TRUE)
      BY <1>1, <2>2
    <3>2. req'[q].pc = "done" /\ req'[q].cut = TRUE
      BY <3>1 DEF Cleaning, New
    <3> QED BY <3>2, KnownElse
  <2> QED BY <2>1, <2>2
<1>3. ASSUME Undisturbed' PROVE Accounted'
  <2>1. \A q \in Requests : req'[q] = req[q]
    BY <1>2, <1>3 DEF Undisturbed
  <2>2. Undisturbed
    BY <1>1, <1>3, <2>1 DEF Undisturbed
  <2>3. Accounted /\ TypeOK' /\ Tidy(None)
    BY <1>1, <2>2, SweepTidy DEF NInv, IInv
  <2> QED BY <1>1, <2>1, <2>3, TidyStep
<1>4. \A m \in MediaIds : Plain(m)'
  BY <1>1, PlainStays
<1> QED BY <1>2, <1>3, <1>4 DEF NInv

-----------------------------------------------------------------------------
(* The theorems.                                                           *)

LEMMA InitInv == Init => IInv
<1> SUFFICES ASSUME Init PROVE IInv
  OBVIOUS
<1> USE DEF Init
<1>1. ASSUME NEW x \in MediaIds
      PROVE  /\ media[x] \in Media /\ \A a \in BlobIds(media[x]) : a \in Assets /\ a[1] = x
             /\ x \in Requests => media[x] = NoMedia
             /\ ~Exists(x) => media[x] = NoMedia
  <2>1. CASE x \notin Library
    <3>1. media[x] = NoMedia
      BY <2>1 DEF InitialMedia
    <3> QED BY <3>1, BlobsTyped
  <2>2. CASE x \in Library
    <3>1. x \notin Requests
      BY <2>2, MediaAssumption
    <3>2. \A n \in 1 .. MaxPages : /\ InitialPages(x, n) \in SUBSET Assets
                                   /\ \A a \in InitialPages(x, n) : a[1] = x
      BY AssetsFinite DEF InitialPages, Assets
    <3>3. 1 \in 1 .. MaxPages /\ MaxPages \in 1 .. MaxPages
      BY AssetsFinite
    <3>4. PICK v \in [kind : {"image", "av", "deck"}, title : Titles, owner : Teams,
                      content : {InitialPages(x, n) : n \in 1 .. MaxPages},
                      draft : {NoDraft, [rev |-> x, pages |-> InitialPages(x, MaxPages)]}] :
            v = media[x]
      BY <2>2 DEF InitialMedia
    <3>5. /\ v.content \in SUBSET Assets /\ \A a \in v.content : a[1] = x
      BY <3>2, <3>4
    <3>6. v.draft \in Drafts /\ \A a \in v.draft.pages : a[1] = x
      <4>1. CASE v.draft = NoDraft
        BY <4>1 DEF NoDraft, Drafts
      <4>2. CASE v.draft = [rev |-> x, pages |-> InitialPages(x, MaxPages)]
        BY <3>2, <3>3, <4>2 DEF Drafts
      <4> QED BY <3>4, <4>1, <4>2
    <3>7. v \in Media /\ v.kind # "none"
      BY <3>4, <3>5, <3>6 DEF Media
    <3>8. \A a \in BlobIds(v) : a \in Assets /\ a[1] = x
      BY <3>5, <3>6 DEF BlobIds, content_blob_ids, Drafts
    <3> QED BY <3>1, <3>4, <3>7, <3>8 DEF Exists
  <2> QED BY <2>1, <2>2
<1>2. media \in [MediaIds -> Media]
  BY <1>1
<1>3. \A a \in Assets : a[1] \in MediaIds
  BY DEF Assets
<1>4. /\ rows \in [Assets -> Rows]
      /\ \A a \in Assets : \/ rows[a] = NoRow
                           \/ rows[a].status = "final" /\ rows[a].media = a[1] /\ rows[a] # NoRow
      /\ \A a \in Assets : a \in BlobIds(media[a[1]]) =>
           rows[a].status = "final" /\ rows[a].media = a[1] /\ rows[a] # NoRow
  BY <1>2, <1>3 DEF Row, NoRow, Rows, Media
<1>5. req \in [Requests -> Handlers] /\ \A q \in Requests : req[q] = New
  BY AtTyped
<1>6. TypeOK
  BY <1>2, <1>4, <1>5 DEF TypeOK, Resting
<1>7. \A a \in Assets : Unmarked(a)
  BY <1>5, AtTyped DEF Unmarked, Resting
<1>8. AllKept
  BY <1>1, <1>4, <1>7 DEF AllKept, Kept
<1>9. Apart /\ Absent
  BY <1>1 DEF Apart, Absent
<1>10. Blank
  BY <1>3, <1>4 DEF Blank
<1>11. StaleIsOver
  BY DEF StaleIsOver, Resting
<1>12. ASSUME NEW r \in Requests PROVE Unused(r) /\ Ready(r) /\ WellMade(r, req[r]) /\ Target(r)
  <2>1. req[r] = New /\ r \in MediaIds
    BY <1>5, AssetsFinite
  <2>2. media[r] = NoMedia
    BY <1>1, <2>1
  <2>3. ~Exists(r) /\ BlobIds(media[r]) = {}
    BY <2>2, BlobsTyped DEF Exists
  <2>4. \A a \in Assets : a[1] = r => rows[a] = NoRow
    BY <2>3
  <2>5. Unused(r)
    BY <1>1, <1>7, <2>3, <2>4 DEF Unused, NoRow, Row
  <2>6. Ready(r) /\ Target(r)
    BY <2>1 DEF Ready, Target, New, Running
  <2>7. WellMade(r, New)
    BY DEF WellMade, New, Running, Creating, Editing
  <2> QED BY <2>1, <2>5, <2>6, <2>7
<1> QED BY <1>6, <1>8, <1>9, <1>10, <1>11, <1>12 DEF IInv, Whole

LEMMA NextInv == IInv /\ [Next]_vars => IInv'
<1> SUFFICES ASSUME IInv, [Next]_vars PROVE IInv'
  OBVIOUS
<1>1. CASE UNCHANGED vars
  BY <1>1 DEF vars, IInv, Whole, TypeOK, AllKept, Kept, Unmarked, Pending, Apart, Absent, Blank,
     StaleIsOver, Unused, Ready, Wanted, Target, WellMade, Fresh, Exists
<1>2. CASE Crash
  BY <1>2, CrashKeeps
<1>3. CASE Reconcile
  BY <1>3, StaleStagingKeeps, DeleteStaleKeeps, DeleteOrphansKeeps, RemoveOrphansKeeps DEF Reconcile
<1>4. ASSUME NEW r \in Requests, Handle(r) PROVE IInv'
  <2>1. CASE \/ BeginUpload(r) \/ create_staging(r) \/ ReadMedia(r)
             \/ create_uploaded(r) \/ duplicate(r)
             \/ ingest_final_from_path(r) \/ copy_final_file(r) \/ create_final(r)
             \/ promote_file(r) \/ promote_staging(r)
    BY <2>1, BeginUploadKeeps, CreateStagingKeeps, ReadMediaKeeps, CreateUploadedKeeps,
       DuplicateKeeps, IngestKeeps, CopyKeeps, CreateFinalKeeps, PromoteFileKeeps,
       PromoteStagingKeeps
  <2>2. CASE \/ create_with_id(r) \/ replace_content(r) \/ add_deck_source(r)
             \/ ReadToEdit(r) \/ begin_deck_revision(r) \/ commit_deck(r)
             \/ update_current(r) \/ delete_current(r) \/ move_owner(r)
    BY <2>2, CreateWithIdKeeps, ReplaceContentKeeps, AddDeckSourceKeeps, ReadToEditKeeps,
       BeginRevisionKeeps, CommitDeckKeeps, UpdateCurrentKeeps, DeleteCurrentKeeps,
       MoveOwnerKeeps
  <2>3. CASE \/ DropFile(r) \/ delete_asset_record(r) \/ cleanup_now(r)
             \/ delete_assets_for_media(r) \/ RemovePurged(r) \/ Fail(r) \/ Cancel(r)
    BY <2>3, DropFileKeeps, DeleteRecordKeeps, CleanupNowKeeps, PurgeKeeps, RemovePurgedKeeps,
       FailKeeps, CancelKeeps
  <2> QED BY <1>4, <2>1, <2>2, <2>3 DEF Handle
<1> QED BY <1>1, <1>2, <1>3, <1>4 DEF Next

LEMMA MediaInvariant == Spec => []IInv
BY InitInv, NextInv, PTL DEF Spec

LEMMA InitOwners == Init => OInv
<1> SUFFICES ASSUME Init PROVE OInv
  OBVIOUS
<1>1. IInv
  BY InitInv
<1>2. ASSUME NEW m \in MediaIds, NEW a \in BlobIds(media[m])
      PROVE  rows[a].owner = media[m].owner
  <2>1. a \in Assets /\ m \notin spoilt
    BY <1>1, <1>2, TypeFacts DEF IInv, Init
  <2>2. rows[a].status = "final" /\ rows[a].media = m
    BY <1>1, <1>2, <2>1 DEF IInv, Whole, AllKept, Kept
  <2>3. rows[a] = Row("final", a[1], media[a[1]].owner)
    BY <2>1, <2>2 DEF Init, NoRow, Row
  <2> QED BY <2>2, <2>3 DEF Row
<1>3. \A r \in Requests : Owning(r)
  BY DEF Init, Owning, New, Running
<1> QED BY <1>1, <1>2, <1>3 DEF OInv, OwnersAgree

LEMMA NextOwners == OInv /\ IInv' /\ [Next]_vars => OInv'
<1> SUFFICES ASSUME OInv, IInv', [Next]_vars PROVE OInv'
  OBVIOUS
<1>1. CASE UNCHANGED vars
  BY <1>1 DEF vars, OInv, OwnersAgree, Owning, Wanted, OwnerOf, HoldsOwner, IsStaging, Exists
<1>2. CASE Crash \/ Reconcile
  BY <1>2, SweepOwners
<1>3. ASSUME NEW r \in Requests, Handle(r) PROVE OInv'
  <2>1. CASE \/ BeginUpload(r) \/ create_staging(r) \/ ReadMedia(r)
             \/ create_uploaded(r) \/ duplicate(r) \/ ReadToEdit(r)
    BY <2>1, BeginOwners, CreateStagingOwners, ReadMediaOwners
  <2>2. CASE \/ ingest_final_from_path(r) \/ copy_final_file(r) \/ create_final(r)
             \/ promote_file(r) \/ promote_staging(r)
    BY <2>2, FileOwners, CreateFinalOwners, PromoteOwners
  <2>3. CASE \/ create_with_id(r) \/ replace_content(r) \/ add_deck_source(r)
             \/ begin_deck_revision(r) \/ commit_deck(r) \/ delete_current(r)
    BY <2>3, WriterOwners
  <2>4. CASE update_current(r) \/ move_owner(r)
    BY <2>4, MoverOwners
  <2>5. CASE \/ DropFile(r) \/ delete_asset_record(r) \/ cleanup_now(r)
             \/ delete_assets_for_media(r) \/ RemovePurged(r) \/ Fail(r) \/ Cancel(r)
    BY <2>5, EndingOwners
  <2> QED BY <1>3, <2>1, <2>2, <2>3, <2>4, <2>5 DEF Handle
<1> QED BY <1>1, <1>2, <1>3 DEF Next

LEMMA InitLeft == Init => NInv
<1> SUFFICES ASSUME Init PROVE NInv
  OBVIOUS
<1>1. IInv
  BY InitInv
<1>2. \A m \in MediaIds : Plain(m)
  <2> SUFFICES ASSUME NEW m \in MediaIds PROVE Plain(m)
    OBVIOUS
  <2>1. media[m] \in InitialMedia(m)
    BY DEF Init
  <2>2. CASE m \in Library
    BY <2>1, <2>2 DEF InitialMedia, Plain
  <2>3. CASE m \notin Library
    BY <2>1, <2>3 DEF InitialMedia, Plain, NoMedia, Medium
  <2> QED BY <2>2, <2>3
<1>3. \A r \in Requests : req[r] = New
  BY DEF Init
<1>4. \A r \in Requests : Known(r)
  BY <1>3 DEF Known, New
<1>5. /\ staged = {} /\ finals = {a \in Assets : rows[a] # NoRow}
      /\ rows = [a \in Assets |-> IF a \in BlobIds(media[a[1]])
                                  THEN Row("final", a[1], media[a[1]].owner) ELSE NoRow]
  BY DEF Init
<1>6. ASSUME NEW a \in Assets, rows[a] # NoRow
      PROVE  a \in BlobIds(media[rows[a].media]) /\ rows[a].status = "final"
  BY <1>5, <1>6 DEF Row
<1>7. \A r \in Requests : Emptied(r)
  BY <1>3 DEF Emptied, New
<1>8. Accounted
  BY <1>5, <1>6, <1>7 DEF Accounted, Claimed, Stored
<1> QED BY <1>1, <1>2, <1>4, <1>8 DEF NInv

LEMMA NextLeft == NInv /\ IInv' /\ [Next]_vars => NInv'
<1> SUFFICES ASSUME NInv, IInv', [Next]_vars PROVE NInv'
  OBVIOUS
<1>1. CASE UNCHANGED vars
  <2>1. \A m \in MediaIds : Plain(m)'
    BY <1>1, PlainStays DEF vars
  <2>2. \A r \in Requests : Known(r)'
    BY <1>1 DEF vars, NInv, Known, NextPage
  <2>3. Undisturbed' => Undisturbed
    BY <1>1 DEF vars, Undisturbed
  <2>4. Accounted => Accounted'
    BY <1>1 DEF vars, Accounted, Holds, Claimed, ClaimedBy, Stored, StoredBy, Emptied
  <2> QED BY <2>1, <2>2, <2>3, <2>4 DEF NInv
<1>2. CASE Crash \/ Reconcile
  BY <1>2, CrashLeft, ReconcileLeft
<1>3. ASSUME NEW r \in Requests, Handle(r) PROVE NInv'
  <2>1. CASE \/ BeginUpload(r) \/ create_staging(r) \/ ReadMedia(r)
             \/ create_uploaded(r) \/ duplicate(r)
             \/ ingest_final_from_path(r) \/ copy_final_file(r) \/ create_final(r)
             \/ promote_file(r) \/ promote_staging(r)
    BY <2>1, BeginUploadLeft, CreateStagingLeft, ReadMediaLeft, CreateUploadedLeft,
       DuplicateLeft, IngestLeft, CreateFinalLeft, PromoteFileLeft, PromoteStagingLeft
  <2>2. CASE \/ create_with_id(r) \/ replace_content(r) \/ add_deck_source(r)
             \/ ReadToEdit(r) \/ begin_deck_revision(r) \/ commit_deck(r)
             \/ update_current(r) \/ delete_current(r) \/ move_owner(r)
    BY <2>2, CreateWithIdLeft, ReplaceContentLeft, AddDeckSourceLeft, ReadToEditLeft,
       BeginRevisionLeft, CommitDeckLeft, UpdateCurrentLeft, DeleteCurrentLeft, MoveOwnerLeft
  <2>3. CASE \/ DropFile(r) \/ delete_asset_record(r) \/ cleanup_now(r)
             \/ delete_assets_for_media(r) \/ RemovePurged(r) \/ Fail(r) \/ Cancel(r)
    BY <2>3, DropFileLeft, DeleteRecordLeft, CleanupNowLeft, PurgeLeft, RemovePurgedLeft,
       FailLeft, CancelLeft
  <2> QED BY <1>3, <2>1, <2>2, <2>3 DEF Handle
<1> QED BY <1>1, <1>2, <1>3 DEF Next

\* Every variable keeps its type: in particular the files and records that
\* the handlers and the sweeps name are those of media and requests.
THEOREM MediaTyped == Spec => []TypeOK
<1>1. IInv => TypeOK
  BY DEF IInv
<1> QED BY <1>1, MediaInvariant, PTL

\* For any media, requests and numbers of pages: whatever a media or its draft
\* refers to is there and is served, through replacements, commits, moves,
\* duplications, deletions, failures, cancellations, crashes and sweeps in any
\* order, outside the two windows that PublishedIsReadable names.
THEOREM MediaStaysReadable == Spec => []PublishedIsReadable
<1>1. IInv => PublishedIsReadable
  BY DEF IInv, Whole, AllKept, Kept, PublishedIsReadable, Readable
<1> QED BY <1>1, MediaInvariant, PTL

\* The files of a media belong to its team, for any number of teams: whoever
\* may read the media may read its files, as far as OwnersAgree promises it.
THEOREM AssetsFollowTheirMedia == Spec => []OwnersAgree
<1>1. OInv => OwnersAgree
  BY DEF OInv
<1> QED BY <1>1, InitOwners, NextOwners, MediaInvariant, PTL DEF Spec

\* For any media, requests and numbers of pages: when every request has come to
\* its end, failed or not, and none was dropped or killed and no sweep or lost
\* answer interfered, nothing is staged, every file has a record, every record a
\* file, and every record the media that refers to it.
THEOREM NothingIsLeftOver == Spec => []NothingLeftOver
<1>1. ASSUME NInv PROVE NothingLeftOver
  <2> SUFFICES ASSUME \A r \in Requests : req[r].pc \in Over /\ ~req[r].cut, spoilt = {}
               PROVE  /\ staged = {}
                      /\ \A a \in Assets :
                           /\ a \in finals <=> rows[a] # NoRow
                           /\ rows[a] # NoRow => a \in BlobIds(media[rows[a].media])
    BY DEF NothingLeftOver
  <2>1. Accounted /\ TypeOK /\ Whole
    BY <1>1 DEF NInv, IInv, Undisturbed
  <2>2. \A r \in Requests : ~Holds(r) /\ \A a : ~ClaimedBy(r, a) /\ ~StoredBy(r, a)
    <3> SUFFICES ASSUME NEW r \in Requests PROVE ~Holds(r) /\ \A a : ~ClaimedBy(r, a) /\ ~StoredBy(r, a)
      OBVIOUS
    <3>1. req[r].pc \in Over /\ WellMade(r, req[r])
      BY <2>1 DEF Whole
    <3>2. req[r].busy = {}
      BY <3>1 DEF WellMade, Over
    <3> QED BY <3>1, <3>2 DEF Holds, ClaimedBy, StoredBy, Over, Running
  <2>3. staged = {}
    BY <2>1, <2>2 DEF Accounted, TypeOK
  <2>4. ASSUME NEW a \in Assets, rows[a] # NoRow
        PROVE  a \in BlobIds(media[rows[a].media]) /\ a \in finals
    <3>1. a \in BlobIds(media[rows[a].media])
      BY <2>1, <2>2, <2>4 DEF Accounted, Claimed
    <3>2. rows[a].media \in MediaIds
      BY <2>1, <2>4 DEF Whole, Blank
    <3> QED BY <2>1, <3>1, <3>2 DEF Whole, AllKept, Kept
  <2>5. ASSUME NEW a \in finals PROVE rows[a] # NoRow
    <3>1. rows[a].status = "final"
      BY <2>1, <2>2, <2>5 DEF Accounted, Stored
    <3> QED BY <3>1 DEF NoRow, Row
  <2> QED BY <2>3, <2>4, <2>5
<1> QED BY <1>1, InitLeft, NextLeft, MediaInvariant, PTL DEF Spec
=============================================================================
