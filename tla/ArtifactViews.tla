---------------------------- MODULE ArtifactViews ----------------------------
(***************************************************************************)
(* The three views that fetch and show an artifact of a session:           *)
(* ArtifactViewer.tsx, ArtifactPreviewDialog.tsx and                       *)
(* InlineArtifactPreview.tsx.  They share no state but the list of         *)
(* artifacts, so a behaviour is of one of them.                            *)
(*                                                                         *)
(* Answers come in any order, and the views do not look whose they are.    *)
(* Of a content the model keeps whose it is, in what form it came and its  *)
(* object URL; of an artifact its kind, whether it has an id in the        *)
(* database, and its status.  Left out: downloads, which touch no state,   *)
(* publishing, and the URL of a view that is taken off the page.           *)
(***************************************************************************)
EXTENDS Naturals, Sequences, FiniteSets

CONSTANTS
  Artifacts,
  Kinds,           \* of artifacts: records of type, ext and data (a data: URL)
  NoArtifact,
  MaxSelects       \* bound: on what the user selects

ASSUME KindsAssumption == \A k \in Kinds : DOMAIN k = {"type", "ext", "data"}

VARIABLES
  view,            \* "viewer", "dialog" or "inline"
  info,            \* the artifacts, as the list has them: kind, id, status
  shown,           \* the artifact selected, or that the preview is of
  content,         \* status, of (whose), body, and url (0 for none)
  fetches,         \* requests under way
  objectUrls,            \* object URLs alive
  made,            \* how many so far
  lightbox,        \* viewer: the URL it shows, 0 if it is closed
  captured,        \* dialog: the URL that the cleanup of its effect has
  key,             \* inline: fetchedKeyRef, or that the image was asked for
  selects,         \* how many selections and requests so far
  unordered       \* something was selected with a request under way, or an
                   \* answer came before the answer to an earlier request

viewVars == <<view, info, shown, content, fetches, objectUrls, made, lightbox, captured, key,
          selects, unordered>>

Idle == [status |-> "idle", of |-> NoArtifact, body |-> "none", url |-> 0]
Loaded(a, body, url) == [status |-> "loaded", of |-> a, body |-> body, url |-> url]
Loading(a) == [Idle EXCEPT !.status = "loading", !.of = a]
Error(a) == [Idle EXCEPT !.status = "error", !.of = a]

Kind(a) == info[a].kind
IsImage(a) == Kind(a).type \in {"image", "chart"}

\* The types of web/src/types.ts:110, which nothing holds an event to.
Types == {"file", "image", "code", "csv", "chart", "report", "webapp", "data"}

----------------------------------------------------------------------------
(* What is rendered: the first of a list whose condition holds.            *)

First(list) ==
  list[CHOOSE i \in DOMAIN list : list[i][2] /\ \A j \in 1..(i - 1) : ~list[j][2]][1]

\* ContentRenderer.  A "table" is JSON that parses as one.
ViewerShows(a, c) ==
  LET k == Kind(a)
  IN First(<< <<"webapp",   k.type = "webapp">>,
              <<"html",     k.ext = "html" /\ c.body = "text">>,
              <<"pdf",      k.ext = "pdf" /\ c.body = "blob">>,
              <<"image",    IsImage(a) /\ c.body = "blob">>,
              <<"rich",     k.ext = "table" /\ c.body = "text">>,
              <<"csv",      k.type = "csv" /\ c.body = "text">>,
              <<"code",     k.type = "code" /\ c.body \in {"text", "empty"}>>,
              <<"markdown", k.type = "report" /\ k.ext = "md" /\ c.body \in {"text", "empty"}>>,
              <<"text",     c.body \in {"text", "empty"}>>,
              <<"download", TRUE>> >>)

dialogWithoutData(a, c) ==   \* mutant: data is not among the types shown as text
  LET k == Kind(a)
  IN First(<< <<"image",    c.body = "blob">>,
              <<"frame",    c.body = "iframe">>,
              <<"rich",     k.ext = "table">>,
              <<"code",     k.type = "code">>,
              <<"csv",      k.type = "csv">>,
              <<"markdown", k.type = "report" /\ k.ext = "md">>,
              <<"text",     k.type \in {"report", "file"}>>,
              <<"nothing",  TRUE>> >>)

DialogShows(a, c) ==
  LET k == Kind(a)
  IN First(<< <<"image",    c.body = "blob">>,
              <<"frame",    c.body = "iframe">>,
              <<"rich",     k.ext = "table">>,
              <<"code",     k.type = "code">>,
              <<"csv",      k.type = "csv">>,
              <<"markdown", k.type = "report" /\ k.ext = "md">>,
              <<"text",     k.type \in {"report", "file", "data"}>>,
              <<"nothing",  TRUE>> >>)

HasTextPreview(a) == Kind(a).type \in {"code", "csv", "report"}
IsImageArtifact(a) == IsImage(a) \/ (Kind(a).type = "file" /\ Kind(a).ext = "image")

InlineShows(a, c) ==
  First(<< <<"gone",      info[a].status = "lost">>,
           <<"image",     IsImageArtifact(a) /\ c.status = "loaded">>,
           <<"webapp",    Kind(a).type = "webapp" /\ info[a].status = "extracted">>,
           <<"text",      HasTextPreview(a) /\ c.body = "text">>,
           <<"error",     HasTextPreview(a) /\ c.status = "error">>,
           <<"loading",   IsImageArtifact(a) \/ HasTextPreview(a) \/ Kind(a).type = "webapp">>,
           <<"card",      TRUE>> >>)

----------------------------------------------------------------------------
(* Fetching.                                                               *)

\* A request for a, as the list has it, whose answer will have the form body.
Request(a, body) ==
  [n |-> selects', of |-> a, body |-> body, extracted |-> info'[a].status = "extracted"]

\* How the viewer fetches: what has no preview, and what is inline, is not.
ViewerBody(a) == IF IsImage(a) \/ Kind(a).ext = "pdf" THEN "blob" ELSE "text"

ViewerFetch(a) ==
  LET here == Kind(a).type = "webapp" \/ Kind(a).ext = "office"
  IN \/ /\ info[a].status \in {"lost", "extraction_failed"}
        /\ content' = Error(a)
        /\ UNCHANGED fetches
     \/ /\ info[a].status \notin {"lost", "extraction_failed"}
        /\ here \/ Kind(a).data
        /\ content' = Loaded(a, IF here THEN "none" ELSE "blob", 0)
        /\ UNCHANGED fetches
     \/ /\ info[a].status \notin {"lost", "extraction_failed"}
        /\ ~here /\ ~Kind(a).data
        /\ content' = Loading(a)
        /\ fetches' = fetches \cup {Request(a, ViewerBody(a))}

\* How the dialog downloads: an office document without a preview too.
DialogBody(a) == IF IsImage(a) THEN "blob" ELSE "text"

DialogFetch(a) ==
  \/ /\ info[a].status = "lost"
     /\ content' = Error(a)
     /\ UNCHANGED fetches
  \/ /\ info[a].status # "lost" /\ Kind(a).data
     /\ content' = Loaded(a, "blob", 0)
     /\ UNCHANGED fetches
  \/ /\ info[a].status # "lost" /\ ~Kind(a).data
     /\ content' = Loading(a)
     /\ fetches' = fetches \cup {Request(a,
          IF info[a].id /\ Kind(a).ext = "office" THEN "iframe" ELSE DialogBody(a))}

\* A render of the preview fetches when its key, of id and status, has changed;
\* an image once.
inlineByStatusOnly(a) ==     \* mutant: fetches only once
  IF HasTextPreview(a) /\ key = <<>>
    THEN /\ key' = <<info'[a].id, info'[a].status>>
         /\ fetches' = fetches \cup {Request(a, "text")}
    ELSE UNCHANGED <<key, fetches>>

InlineFetch(a) ==
  LET now == <<info'[a].id, info'[a].status>>
  IN \/ /\ HasTextPreview(a) /\ info'[a].status # "lost" /\ key # now
        /\ key' = now
        /\ fetches' = fetches \cup {Request(a, "text")}
     \/ /\ IsImageArtifact(a) /\ info'[a].status # "lost" /\ key = <<>> /\ ~Kind(a).data
        /\ key' = <<"image">>
        /\ fetches' = fetches \cup {Request(a, "blob")}
     \/ /\ \/ HasTextPreview(a) /\ (info'[a].status = "lost" \/ key = now)
           \/ IsImageArtifact(a) /\ (info'[a].status = "lost" \/ key # <<>> \/ Kind(a).data)
           \/ ~HasTextPreview(a) /\ ~IsImageArtifact(a)
        /\ UNCHANGED <<key, fetches>>

----------------------------------------------------------------------------
(* The page opens with one of the views.  The preview is of an artifact    *)
(* just registered, whose first render fetches, with an answer to come.    *)

ViewsInit ==
  /\ \E kind \in [Artifacts -> Kinds] :
       info = [a \in Artifacts |-> [kind |-> kind[a], id |-> FALSE, status |-> "live"]]
  /\ view \in {"viewer", "dialog", "inline"}
  /\ shown \in (IF view = "inline" THEN Artifacts ELSE {NoArtifact})
  /\ content = IF view = "inline" /\ shown # NoArtifact
                 THEN IF IsImageArtifact(shown) /\ Kind(shown).data
                        THEN Loaded(shown, "blob", 0) ELSE Idle
                 ELSE Idle
  /\ fetches = {} /\ objectUrls = {} /\ made = 0
  /\ lightbox = 0 /\ captured = 0 /\ key = <<>>
  /\ selects = 0 /\ unordered = FALSE

\* The list of artifacts is loaded again, and a preview is rendered: an artifact
\* gets its row in the database, and in the end is extracted, or cannot be.
Progress(a) ==
  /\ \/ info[a].status = "live"
     \/ view = "inline" /\ shown = a /\ key = <<>>       \* its first render
  /\ selects' = selects + 1
  /\ \/ /\ ~info[a].id
        /\ info' = [info EXCEPT ![a].id = TRUE]
     \/ /\ info[a].status = "live"
        /\ \E status \in {"extracted", "lost", "extraction_failed"} :
             info' = [info EXCEPT ![a].id = TRUE, ![a].status = status]
     \/ UNCHANGED info
  /\ IF view = "inline" /\ shown = a THEN InlineFetch(a) ELSE UNCHANGED <<key, fetches>>
  /\ UNCHANGED <<view, shown, content, objectUrls, made, lightbox, captured, unordered>>
  /\ selects < MaxSelects

selectKeepsSame(a) ==        \* mutant: what is selected again is not fetched again
  /\ view = "viewer" /\ lightbox = 0
  /\ selects < MaxSelects
  /\ selects' = selects + 1
  /\ objectUrls' = objectUrls \ {content.url}
  /\ shown' = a
  /\ UNCHANGED info
  /\ IF a = shown THEN UNCHANGED <<content, fetches>> ELSE ViewerFetch(a)
  /\ unordered' = (unordered \/ fetches # {})
  /\ UNCHANGED <<view, made, lightbox, captured, key>>

\* handleSelect, behind which the lightbox cannot be.
handleSelect(a) ==
  /\ view = "viewer" /\ lightbox = 0
  /\ selects < MaxSelects
  /\ selects' = selects + 1
  /\ objectUrls' = objectUrls \ {content.url}
  /\ shown' = a
  /\ UNCHANGED info
  /\ ViewerFetch(a)
  /\ unordered' = (unordered \/ fetches # {})
  /\ UNCHANGED <<view, made, lightbox, captured, key>>

\* A click on an image, and on the lightbox.
Lightbox ==
  /\ view = "viewer"
  /\ lightbox' = IF lightbox # 0 THEN 0 ELSE content.url
  /\ lightbox # 0 \/ (content.status = "loaded" /\ ViewerShows(shown, content) = "image")
  /\ lightbox' # lightbox
  /\ UNCHANGED <<view, info, shown, content, fetches, objectUrls, made, captured, key,
                 selects, unordered>>

\* The dialog's effect, when its artifact changes or it is closed: the cleanup
\* of the effect before, with the content that its render had.
Opened(a) ==
  /\ view = "dialog" /\ a # shown
  /\ selects < MaxSelects
  /\ selects' = selects + 1
  /\ shown' = a
  /\ objectUrls' = objectUrls \ {captured}
  /\ captured' = content.url
  /\ UNCHANGED info
  /\ \/ a # NoArtifact /\ DialogFetch(a)
     \/ a = NoArtifact /\ content' = Idle /\ UNCHANGED fetches
  /\ unordered' = (unordered \/ fetches # {})
  /\ UNCHANGED <<view, made, lightbox, key>>

----------------------------------------------------------------------------
(* Answers.                                                                *)

\* A failure: of a preview that was not of an extracted artifact it shows as
\* loading, for the next change to fetch again.
Failed(f) ==
  IF view = "inline" THEN (IF f.extracted THEN Error(f.of) ELSE Idle)
  ELSE Error(f.of)

\* What the view does with the answer to f, whatever it shows by then.
FetchAnswer(f) ==
  /\ unordered' = (unordered \/ \E g \in fetches : g.n < f.n)
  /\ UNCHANGED <<view, info, shown, lightbox, captured, key, selects>>
  /\ \/ /\ f.body = "blob"
        /\ made' = made + 1
        /\ objectUrls' = objectUrls \cup {made'}
        /\ content' = Loaded(f.of, "blob", made')
        /\ fetches' = fetches \ {f}
     \/ /\ f.body \in {"text", "iframe"}           \* the text may be empty
        /\ \E body \in {f.body} \cup (IF f.body = "text" THEN {"empty"} ELSE {}) :
             content' = Loaded(f.of, body, 0)
        /\ fetches' = fetches \ {f}
        /\ UNCHANGED <<objectUrls, made>>
     \/ /\ f.body = "iframe"                       \* no preview: downloaded
        /\ fetches' = (fetches \ {f}) \cup {[f EXCEPT !.body = DialogBody(f.of)]}
        /\ UNCHANGED <<content, objectUrls, made>>
     \/ /\ fetches' = fetches \ {f}                \* failed
        /\ content' = IF f.body = "blob" /\ view = "inline" THEN content ELSE Failed(f)
        /\ UNCHANGED <<objectUrls, made>>

ViewsNext ==
  \/ \E a \in Artifacts : Progress(a) \/ handleSelect(a)
  \/ \E a \in Artifacts \cup {NoArtifact} : Opened(a)
  \/ Lightbox
  \/ \E f \in fetches : FetchAnswer(f)

ViewsSpec == ViewsInit /\ [][ViewsNext]_viewVars

----------------------------------------------------------------------------
(* Properties.                                                             *)

(***************************************************************************)
(* No view shows an object URL that was revoked: not after the same        *)
(* artifact is selected again, nor in the lightbox.                        *)
(***************************************************************************)
ShownAlive == {content.url, lightbox} \subseteq objectUrls \cup {0}

(***************************************************************************)
(* Whatever was fetched is rendered: the dialog is not blank, nor does the *)
(* viewer say there is no preview.  Those that are, and so are excepted:   *)
(* in the dialog a webapp and what is of no type the UI knows; in the      *)
(* viewer a data: URL of something else than an image or a PDF.            *)
(***************************************************************************)
NeverBlank ==
  shown # NoArtifact /\ content.status = "loaded" /\ content.of = shown =>
    /\ view = "dialog" /\ Kind(shown).type \in Types \ {"webapp"} =>
         DialogShows(shown, content) # "nothing"
    /\ view = "viewer" /\ content.body # "none"
         /\ (Kind(shown).data => IsImage(shown) \/ Kind(shown).ext = "pdf") =>
         ViewerShows(shown, content) # "download"

(***************************************************************************)
(* The preview of code, a CSV file or a report that was extracted does not *)
(* stay at "Loading", if answers come in order: the failures of the        *)
(* requests made before do not stand (InlineArtifactPreview.tsx:66-71).    *)
(* An empty file does stay so, and so does an image, which is fetched once *)
(* only (248-265), when that fails.                                        *)
(***************************************************************************)
TextPreviewSettles ==
  view = "inline" /\ ~unordered /\ fetches = {} /\ HasTextPreview(shown)
    /\ info[shown].status = "extracted" /\ content.body # "empty"
    => InlineShows(shown, content) # "loading"

=============================================================================
