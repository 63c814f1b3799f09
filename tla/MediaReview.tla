----------------------------- MODULE MediaReview -----------------------------
(***************************************************************************)
(* The content of one public listing, the people who edit it and the       *)
(* platform administrators who review it.  Every command locks the         *)
(* listing's row first, so each is one step; what happens between the time *)
(* somebody reads the listing and the time they act on it is not locked.   *)
(*                                                                         *)
(* Whether Property, Unit, price, availability and assignment allow the    *)
(* listing to be published is InventoryTransactions' subject: here it may  *)
(* turn out either way.                                                    *)
(*                                                                         *)
(* Source: src/infra/postgres/migrations/0001_baseline.sql                 *)
(***************************************************************************)
EXTENDS Naturals, FiniteSets, FiniteSetsExt

CONSTANTS
    Links,          \* image URLs a draft may name; a changed title or summary
                    \* is a changed set of links
    Uploads,        \* the images that may ever be uploaded
    Editors,        \* landlords and managers who may edit the listing
    Reviewers,      \* platform administrators
    MaxImages,      \* 10 in the code
    MaxVersion      \* a bound of the model on public_listings.version

ASSUME BoundsAssumption == MaxImages \in Nat \ {0} /\ MaxVersion \in Nat \ {0}

VARIABLES
    status, media, version, \* columns of app.public_listings
    links,          \* what the draft in the snapshot column names
    image,          \* the rows of app.public_listing_images
    recorded,       \* the versions an event row of the listing names
    raised,         \* the versions an archive has raised it to
    approved,       \* the content under the last approving decision
    view,           \* the draft each editor's screen was loaded with
    seen            \* the content each reviewer last looked at, if any

vars == <<status, media, version, links, image, recorded, raised, approved, view, seen>>

Active == {i \in Uploads : image[i].state = "active"}
Content == [links |-> links, images |-> Active]

AnyContent == [links : SUBSET Links, images : SUBSET Uploads]
Nothing == [links |-> {}, images |-> {}]
NoView == [version |-> 0, links |-> {}]

TypeOK ==
    /\ status \in {"draft", "published", "withdrawn"}
    /\ media \in {"pending", "approved", "rejected"}
    /\ version \in 1..MaxVersion
    /\ links \in SUBSET Links
    /\ image \in [Uploads -> [state : {"absent", "active", "deleted"}, position : Nat]]
    /\ recorded \in SUBSET (1..MaxVersion)
    /\ raised \in SUBSET (1..MaxVersion)
    /\ approved \in AnyContent
    /\ view \in [Editors -> [version : 0..MaxVersion, links : SUBSET Links]]
    /\ seen \in [Reviewers -> SUBSET AnyContent]

\* create_public_listing, with validate_public_listing_media_payload's cap.
Init ==
    /\ status = "draft"
    /\ media = "pending"
    /\ version = 1
    /\ links \in {l \in SUBSET Links : Cardinality(l) <= MaxImages}
    /\ image = [i \in Uploads |-> [state |-> "absent", position |-> 0]]
    /\ recorded = {1}
    /\ raised = {}
    /\ approved = Nothing
    /\ view = [e \in Editors |-> NoView]
    /\ seen = [v \in Reviewers |-> {}]

\* count_public_listing_images: the draft's URLs and the images not deleted.
ImageCount == Cardinality(links) + Cardinality(Active)

\* version = version + n, with an event row for each.
Bump(n) ==
    /\ version + n <= MaxVersion
    /\ version' = version + n
    /\ recorded' = recorded \union (version + 1)..(version + n)
    /\ UNCHANGED raised

Editable == status \in {"draft", "withdrawn"}

\* Every change of the content withdraws the decision about it.
Resubmit ==
    /\ Bump(1)
    /\ media' = "pending"
    /\ UNCHANGED <<status, approved, view, seen>>

------------------------------------------------------------------------------

\* list_public_listings_for_actor: the draft on the editor's screen and the
\* version that a later save will send.  Uploaded images are fetched apart, and
\* no save sends them.
Load(e) ==
    /\ view' = [view EXCEPT ![e] = [version |-> version, links |-> links]]
    /\ UNCHANGED <<status, media, version, links, image, recorded, raised, approved, seen>>

\* Mutant: the save does not count as a new version.
UpdateDraftSilently(e, new) ==
    /\ status = "draft"
    /\ view[e].version = version
    /\ Cardinality(new) <= MaxImages
    /\ links' = new
    /\ media' = "pending"
    /\ UNCHANGED <<status, version, image, recorded, raised, approved, view, seen>>

\* update_public_listing_draft.  Uploaded images are not counted.
UpdateDraft(e, new) ==
    /\ status = "draft"
    /\ view[e].version = version
    /\ Cardinality(new) <= MaxImages
    /\ links' = new
    /\ Resubmit
    /\ UNCHANGED image

\* upload_public_listing_image.
Upload(i) ==
    /\ Editable
    /\ image[i].state = "absent"
    /\ ImageCount < MaxImages
    /\ image' = [image EXCEPT ![i] = [state    |-> "active",
                                      position |-> IF Active = {} THEN 0
                                                   ELSE 1 + Max({image[j].position : j \in Active})]]
    /\ Resubmit
    /\ UNCHANGED links

\* Mutant: removing an image leaves the approval of the listing in place.
DeleteKeepingDecision(i) ==
    /\ Editable
    /\ image[i].state = "active"
    /\ image' = [image EXCEPT ![i].state = "deleted"]
    /\ Bump(1)
    /\ UNCHANGED <<status, media, links, approved, view, seen>>

\* delete_public_listing_image: the row stays, with deleted_at set.
Delete(i) ==
    /\ Editable
    /\ image[i].state = "active"
    /\ image' = [image EXCEPT ![i].state = "deleted"]
    /\ Resubmit
    /\ UNCHANGED links

------------------------------------------------------------------------------

Reviewable == Editable /\ media = "pending"

\* list_public_listings_pending_media_review and
\* get_public_listing_image_content_for_review.
Inspect(v) ==
    /\ Reviewable
    /\ seen' = [seen EXCEPT ![v] = {Content}]
    /\ UNCHANGED <<status, media, version, links, image, recorded, raised, approved, view>>

\* review_public_listing_media names the listing, not a version of it; the
\* administrator has looked at it in the list of pending reviews.  An approved
\* draft is published by the same transaction if all else allows it.
Approve(v) ==
    /\ Reviewable
    /\ seen[v] # {}
    /\ media' = "approved"
    /\ approved' = Content
    /\ \/ Bump(1) /\ status' = status
       \/ Bump(2) /\ status = "draft" /\ ImageCount >= 1 /\ status' = "published"
    /\ UNCHANGED <<links, image, view, seen>>

\* Mutant: the decision is written to the listing's status.
RejectAsStatus(v) ==
    /\ Reviewable
    /\ status' = "rejected"
    /\ Bump(1)
    /\ UNCHANGED <<media, links, image, approved, view, seen>>

Reject(v) ==
    /\ Reviewable
    /\ seen[v] # {}
    /\ media' = "rejected"
    /\ Bump(1)
    /\ UNCHANGED <<status, links, image, approved, view, seen>>

\* set_public_listing_publication(..., true).
Publish ==
    /\ status # "published"
    /\ media = "approved"
    /\ ImageCount >= 1
    /\ status' = "published"
    /\ Bump(1)
    /\ UNCHANGED <<media, links, image, approved, view, seen>>

\* Mutant: a withdrawal leaves no event, as an archive's does.
UnpublishSilently ==
    /\ status = "published"
    /\ status' = "withdrawn"
    /\ version + 1 <= MaxVersion
    /\ version' = version + 1
    /\ UNCHANGED <<media, links, image, recorded, raised, approved, view, seen>>

\* set_public_listing_publication(..., false).
Unpublish ==
    /\ status = "published"
    /\ status' = "withdrawn"
    /\ Bump(1)
    /\ UNCHANGED <<media, links, image, approved, view, seen>>

\* archive_rental_unit and archive_rental_property: no event names the listing.
ArchiveWithdraws ==
    /\ status = "published"
    /\ status' = "withdrawn"
    /\ version + 1 <= MaxVersion
    /\ version' = version + 1
    /\ raised' = raised \union {version + 1}
    /\ UNCHANGED <<media, links, image, recorded, approved, view, seen>>

Next ==
    \/ \E e \in Editors : Load(e) \/ \E new \in SUBSET Links : UpdateDraft(e, new)
    \/ \E i \in Uploads : Upload(i) \/ Delete(i)
    \/ \E v \in Reviewers : Inspect(v) \/ Approve(v) \/ Reject(v)
    \/ Publish \/ Unpublish \/ ArchiveWithdraws

Spec == Init /\ [][Next]_vars

------------------------------------------------------------------------------

\* What the public sees is exactly what the last approving decision was about:
\* every edit, upload and removal takes the approval away, and none of them is
\* possible while the listing is published.
PublishedContentIsApproved == status = "published" => media = "approved" /\ approved = Content

\* An editor whose version is still current has the current draft on the screen,
\* so a save that passes the version check overwrites nothing its author has not
\* seen, whatever saves, decisions, uploads and removals came between.
VersionNamesDraft == \A e \in Editors : view[e].version = version => view[e].links = links

\* The listing's history has an event for every version there ever was, but for
\* those an archive raised it to: no edit, upload, removal, decision, publication
\* or withdrawal goes unrecorded, whatever the status.
OnlyArchivesAreUnrecorded == \A n \in 1..version : n \in recorded \/ n \in raised

\* The requirement: a listing cannot publish "until a platform administrator
\* has reviewed its title, summary, and image URLs and recorded an `approved`
\* decision".  The decision does not say which version it is about, so an edit
\* between the reading and the decision is approved unseen: this does not hold,
\* and no run lists it.
ApprovedContentWasSeen ==
    media = "approved" => \E v \in Reviewers : approved \in seen[v]

\* The requirement: "the existing REQ-037 cap of 1-10 images per listing is
\* unchanged".  An upload counts the draft's URLs, a save of the draft does not
\* count the uploads: this does not hold either.
ListingWithinImageCap == ImageCount <= MaxImages
==============================================================================
