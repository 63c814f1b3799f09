-------------------------- MODULE MediaReviewProofs --------------------------
(***************************************************************************)
(* The review gate, the version check of the listing's editor and the      *)
(* listing's history, for any links, uploads, editors, reviewers and       *)
(* bounds.  The gate does not depend on how many images there are or where *)
(* they are placed; that a new image's position is a number does.          *)
(***************************************************************************)
EXTENDS MediaReview, WellFoundedInduction, TLAPS

(***************************************************************************)
(* The inductive invariant.  PublishedContentIsApproved alone is not: an   *)
(* approved draft must already carry the approved content, or Publish      *)
(* would break it.  VersionNamesDraft needs that no screen is ahead of the *)
(* listing, or the next version could meet an old screen.                  *)
(***************************************************************************)
Shape ==
    /\ version \in Nat
    /\ links \in SUBSET Links
    /\ view \in [Editors -> [version : Nat, links : SUBSET Links]]

ApprovalIsCurrent == media = "approved" => approved = Content
NoScreenAhead == \A e \in Editors : view[e].version <= version

GateInv ==
    /\ Shape
    /\ ApprovalIsCurrent
    /\ status = "published" => media = "approved"
    /\ NoScreenAhead
    /\ VersionNamesDraft
    /\ OnlyArchivesAreUnrecorded

\* There is no listing at first, so nothing is published or decided.
LEMMA InitGate == Init => GateInv
  BY DEF Init, GateInv, Shape, ApprovalIsCurrent, NoScreenAhead, VersionNamesDraft,
         OnlyArchivesAreUnrecorded, NoView, Nothing, AnyContent

\* A version that rises by n >= 1 leaves every screen behind.
LEMMA BumpedGate ==
    ASSUME GateInv, NEW n \in {1, 2}, version' = version + n, view' = view
    PROVE  NoScreenAhead' /\ VersionNamesDraft'
<1>1. \A e \in Editors : view[e].version \in Nat /\ view[e].version <= version
  BY DEF GateInv, Shape, NoScreenAhead
<1>2. version \in Nat
  BY DEF GateInv, Shape
<1> QED
  BY <1>1, <1>2 DEF NoScreenAhead, VersionNamesDraft

\* The history grows with the version, by events or by an archive's raise.
LEMMA HistoryGrows ==
    ASSUME GateInv, NEW n \in {1, 2}, version' = version + n,
           recorded \subseteq recorded', raised \subseteq raised',
           \A m \in (version + 1)..(version + n) : m \in recorded' \/ m \in raised'
    PROVE  OnlyArchivesAreUnrecorded'
<1>1. version \in Nat
  BY DEF GateInv, Shape
<1>2. \A m \in 1..(version + n) : m \in 1..version \/ m \in (version + 1)..(version + n)
  BY <1>1
<1> QED
  BY <1>2 DEF GateInv, OnlyArchivesAreUnrecorded

\* What Bump does for the history.
LEMMA BumpRecords ==
    ASSUME GateInv, NEW n \in {1, 2}, Bump(n)
    PROVE  version' = version + n /\ OnlyArchivesAreUnrecorded'
<1>1. /\ version' = version + n /\ UNCHANGED raised
      /\ recorded' = recorded \union (version + 1)..(version + n)
  BY DEF Bump
<1> QED
  BY <1>1, HistoryGrows

\* An edit, an upload and a removal: whatever they do to the content, the
\* decision about it is gone.
LEMMA ContentChanges ==
    ASSUME GateInv, Editable, Resubmit, links' \in SUBSET Links
    PROVE  GateInv'
<1>1. version' = version + 1 /\ media' = "pending" /\ view' = view /\ status' = status
  BY DEF Resubmit, Bump
<1>2. Shape'
  BY <1>1 DEF GateInv, Shape
<1>3. OnlyArchivesAreUnrecorded'
  BY BumpRecords DEF Resubmit
<1>4. NoScreenAhead' /\ VersionNamesDraft'
  BY <1>1, BumpedGate
<1> QED
  BY <1>1, <1>2, <1>3, <1>4 DEF GateInv, ApprovalIsCurrent, Editable

\* A decision and a change of status leave the content alone.
LEMMA StatusChanges ==
    ASSUME GateInv, NEW n \in {1, 2}, version' = version + n,
           UNCHANGED <<links, image, view>>,
           OnlyArchivesAreUnrecorded',
           media' = "approved" => approved' = Content,
           status' = "published" => media' = "approved"
    PROVE  GateInv'
<1>1. Content' = Content
  BY DEF Content, Active
<1>2. Shape'
  BY DEF GateInv, Shape
<1>3. NoScreenAhead' /\ VersionNamesDraft'
  BY BumpedGate
<1> QED
  BY <1>1, <1>2, <1>3 DEF GateInv, ApprovalIsCurrent

\* Every command that touches the content resets the decision.
LEMMA NextGate == GateInv /\ [Next]_vars => GateInv'
<1> SUFFICES ASSUME GateInv, [Next]_vars PROVE GateInv'
  OBVIOUS
<1>1. ASSUME NEW e \in Editors, Load(e) PROVE GateInv'
  <2>1. Content' = Content
    BY <1>1 DEF Load, Content, Active
  <2>2. view' = [view EXCEPT ![e] = [version |-> version, links |-> links]]
    BY <1>1 DEF Load
  <2>3. Shape' /\ NoScreenAhead'
    BY <1>1, <2>2 DEF Load, GateInv, Shape, NoScreenAhead
  <2>4. VersionNamesDraft'
    BY <1>1, <2>2 DEF Load, GateInv, Shape, VersionNamesDraft
  <2> QED
    BY <1>1, <2>1, <2>3, <2>4 DEF Load, GateInv, ApprovalIsCurrent, OnlyArchivesAreUnrecorded
<1>2. ASSUME NEW e \in Editors, NEW new \in SUBSET Links, UpdateDraft(e, new) PROVE GateInv'
  BY <1>2, ContentChanges DEF UpdateDraft, Editable
<1>3. ASSUME NEW i \in Uploads, Upload(i) \/ Delete(i) PROVE GateInv'
  BY <1>3, ContentChanges DEF Upload, Delete, GateInv, Shape
<1>4. ASSUME NEW v \in Reviewers, Inspect(v) PROVE GateInv'
  BY <1>4 DEF Inspect, GateInv, Shape, ApprovalIsCurrent, NoScreenAhead, VersionNamesDraft,
              OnlyArchivesAreUnrecorded, Content, Active
<1>5. ASSUME NEW v \in Reviewers, Approve(v) PROVE GateInv'
  <2>1. PICK n \in {1, 2} : Bump(n)
    BY <1>5 DEF Approve
  <2>2. version' = version + n /\ OnlyArchivesAreUnrecorded'
    BY <2>1, BumpRecords
  <2> QED
    BY <1>5, <2>2, StatusChanges DEF Approve
<1>6. ASSUME NEW v \in Reviewers, Reject(v) PROVE GateInv'
  <2>1. version' = version + 1 /\ OnlyArchivesAreUnrecorded'
    BY <1>6, BumpRecords DEF Reject
  <2> QED
    BY <1>6, <2>1, StatusChanges DEF Reject, Reviewable, Editable
<1>7. CASE Publish \/ Unpublish
  <2>1. version' = version + 1 /\ OnlyArchivesAreUnrecorded'
    BY <1>7, BumpRecords DEF Publish, Unpublish
  <2> QED
    BY <1>7, <2>1, StatusChanges DEF Publish, Unpublish, GateInv, ApprovalIsCurrent
<1>8. CASE ArchiveWithdraws
  <2>1. /\ version' = version + 1 /\ recorded' = recorded
        /\ raised' = raised \union {version + 1}
    BY <1>8 DEF ArchiveWithdraws
  <2>2. (version + 1)..(version + 1) = {version + 1}
    BY DEF GateInv, Shape
  <2>3. OnlyArchivesAreUnrecorded'
    BY <2>1, <2>2, HistoryGrows
  <2> QED
    BY <1>8, <2>1, <2>3, StatusChanges DEF ArchiveWithdraws, GateInv, ApprovalIsCurrent
<1>9. CASE UNCHANGED vars
  BY <1>9 DEF vars, GateInv, Shape, ApprovalIsCurrent, NoScreenAhead, VersionNamesDraft,
              OnlyArchivesAreUnrecorded, Content, Active
<1> QED
  BY <1>1, <1>2, <1>3, <1>4, <1>5, <1>6, <1>7, <1>8, <1>9 DEF Next

\* The review gate's invariant holds.
LEMMA Gate == Spec => []GateInv
  BY InitGate, NextGate, PTL DEF Spec

\* What the public sees is what the last approving decision was about, however
\* many people edit and review.
THEOREM ReviewGate == Spec => []PublishedContentIsApproved
<1>1. GateInv => PublishedContentIsApproved
  BY DEF GateInv, ApprovalIsCurrent, PublishedContentIsApproved
<1> QED
  BY <1>1, Gate, PTL

\* A save that passes the version check overwrites no draft its author has not
\* seen.
THEOREM NoLostEdit == Spec => []VersionNamesDraft
<1>1. GateInv => VersionNamesDraft
  BY DEF GateInv
<1> QED
  BY <1>1, Gate, PTL

\* Every version of a listing has its event, but those an archive raised it to:
\* an unpublication, an upload or a decision on a withdrawn listing has one too.
THEOREM History == Spec => []OnlyArchivesAreUnrecorded
<1>1. GateInv => OnlyArchivesAreUnrecorded
  BY DEF GateInv
<1> QED
  BY <1>1, Gate, PTL

------------------------------------------------------------------------------

\* A set of numbers that is not empty has a least one; the order of the numbers
\* is well founded.
LEMMA LeastNumber ==
    ASSUME NEW T \in SUBSET Nat, T # {}
    PROVE  \E x \in T : \A y \in T : x <= y
<1>1. PICK Less : IsWellFoundedOn(Less, Nat) /\ \A x, y \in Nat : <<y, x>> \in Less <=> y < x
  <2>1. \A x, y \in Nat : <<y, x>> \in OpToRel(<, Nat) <=> y < x
    BY DEF OpToRel
  <2>2. \E Less : IsWellFoundedOn(Less, Nat) /\ \A x, y \in Nat : <<y, x>> \in Less <=> y < x
    BY <2>1, NatLessThanWellFounded, Zenon
  <2> QED
    BY <2>2
<1>2. PICK x \in T : \A y \in T : ~(<<y, x>> \in Less)
  BY <1>1, WFMin
<1>3. \A y \in T : ~(y < x)
  BY <1>1, <1>2
<1>4. \A y \in T : x <= y
  BY <1>3
<1> QED
  BY <1>4

\* So a bounded one has a greatest, which is what Max chooses: the SQL max().
LEMMA MaxIsNumber ==
    ASSUME NEW S \in SUBSET Nat, S # {}, NEW b \in Nat, \A s \in S : s <= b
    PROVE  Max(S) \in Nat
<1> DEFINE Bounds == {n \in Nat : \A s \in S : s <= n}
<1>1. PICK m \in Bounds : \A n \in Bounds : m <= n
  BY LeastNumber
<1>2. m \in S
  <2> SUFFICES ASSUME m \notin S PROVE FALSE
    OBVIOUS
  <2>1. PICK s \in S : TRUE
    OBVIOUS
  <2>2. m > 0 /\ m - 1 \in Nat
    BY <1>1, <2>1
  <2>3. \A t \in S : t <= m - 1
    BY <1>1, <2>2
  <2> QED
    BY <1>1, <2>2, <2>3
<1>3. \E x \in S : \A y \in S : x >= y
  BY <1>1, <1>2
<1> QED
  BY <1>3 DEF Max

\* No image is placed beyond some position.
PositionsBounded == \E b \in Nat : \A i \in Uploads : image[i].position <= b

TypeInv == TypeOK /\ PositionsBounded

\* An upload puts its image behind the last one.
LEMMA UploadKeepsPlaces ==
    ASSUME TypeInv, NEW i \in Uploads, Upload(i)
    PROVE  /\ image' \in [Uploads -> [state : {"absent", "active", "deleted"}, position : Nat]]
           /\ PositionsBounded'
<1> DEFINE place == IF Active = {} THEN 0 ELSE 1 + Max({image[j].position : j \in Active})
<1>1. PICK b \in Nat : \A j \in Uploads : image[j].position <= b
  BY DEF TypeInv, PositionsBounded
<1>2. \A j \in Uploads : image[j].position \in Nat
  BY DEF TypeInv, TypeOK
<1>3. place \in Nat
  <2>1. CASE Active # {}
    <3>1. {image[j].position : j \in Active} \in SUBSET Nat
      BY <1>2 DEF Active
    <3>2. \A s \in {image[j].position : j \in Active} : s <= b
      BY <1>1 DEF Active
    <3>3. Max({image[j].position : j \in Active}) \in Nat
      BY <2>1, <3>1, <3>2, MaxIsNumber
    <3> QED
      BY <2>1, <3>3
  <2> QED
    BY <2>1
<1>4. image' = [image EXCEPT ![i] = [state |-> "active", position |-> place]]
  BY DEF Upload
<1> HIDE DEF place
<1>5. image' \in [Uploads -> [state : {"absent", "active", "deleted"}, position : Nat]]
  BY <1>3, <1>4 DEF TypeInv, TypeOK
<1>6. \A j \in Uploads : image'[j].position <= b + place
  BY <1>1, <1>2, <1>3, <1>4 DEF TypeInv, TypeOK
<1>7. b + place \in Nat
  BY <1>3
<1> QED
  BY <1>5, <1>6, <1>7 DEF PositionsBounded

\* A new version is one the history may name.
LEMMA BumpType ==
    ASSUME TypeOK, NEW n \in {1, 2}, Bump(n)
    PROVE  /\ version' \in 1..MaxVersion /\ recorded' \in SUBSET (1..MaxVersion)
           /\ raised' \in SUBSET (1..MaxVersion)
  BY BoundsAssumption DEF TypeOK, Bump

\* The listing's row, its images, screens and decisions keep their shape.
THEOREM TypeCorrect == Spec => []TypeOK
<1>1. Init => TypeInv
  <2> SUFFICES ASSUME Init PROVE TypeInv
    OBVIOUS
  <2>1. PositionsBounded
    BY DEF Init, PositionsBounded
  <2> QED
    BY <2>1, BoundsAssumption DEF Init, TypeInv, TypeOK, NoView, Nothing, AnyContent
<1>2. TypeInv /\ [Next]_vars => TypeInv'
  <2> SUFFICES ASSUME TypeInv, [Next]_vars PROVE TypeInv'
    OBVIOUS
  <2>0. Content \in AnyContent
    BY DEF TypeInv, TypeOK, Content, Active, AnyContent
  <2>1. ASSUME image' = image PROVE PositionsBounded'
    BY <2>1 DEF TypeInv, PositionsBounded
  <2>2. ASSUME NEW e \in Editors, Load(e) PROVE TypeInv'
    BY <2>0, <2>1, <2>2 DEF Load, TypeInv, TypeOK
  <2>3. ASSUME NEW e \in Editors, NEW new \in SUBSET Links, UpdateDraft(e, new) PROVE TypeInv'
    BY <2>1, <2>3, BumpType DEF UpdateDraft, Resubmit, TypeInv, TypeOK
  <2>4. ASSUME NEW i \in Uploads, Upload(i) PROVE TypeInv'
    BY <2>4, BumpType, UploadKeepsPlaces DEF Upload, Resubmit, TypeInv, TypeOK
  <2>5. ASSUME NEW i \in Uploads, Delete(i) PROVE TypeInv'
    <3>1. image' = [image EXCEPT ![i].state = "deleted"]
      BY <2>5 DEF Delete
    <3>2. PositionsBounded'
      BY <3>1 DEF TypeInv, TypeOK, PositionsBounded
    <3>3. image' \in [Uploads -> [state : {"absent", "active", "deleted"}, position : Nat]]
      BY <3>1 DEF TypeInv, TypeOK
    <3> QED
      BY <2>5, <3>2, <3>3, BumpType DEF Delete, Resubmit, TypeInv, TypeOK
  <2>6. ASSUME NEW v \in Reviewers, Inspect(v) PROVE TypeInv'
    BY <2>0, <2>1, <2>6 DEF Inspect, TypeInv, TypeOK
  <2>7. ASSUME NEW v \in Reviewers, Approve(v) PROVE TypeInv'
    <3>1. PICK n \in {1, 2} : Bump(n)
      BY <2>7 DEF Approve
    <3>2. /\ version' \in 1..MaxVersion /\ recorded' \in SUBSET (1..MaxVersion)
          /\ raised' \in SUBSET (1..MaxVersion)
      BY <3>1, BumpType DEF TypeInv
    <3> QED
      BY <2>0, <2>1, <2>7, <3>2 DEF Approve, TypeInv, TypeOK
  <2>8. ASSUME NEW v \in Reviewers, Reject(v) PROVE TypeInv'
    BY <2>1, <2>8, BumpType DEF Reject, TypeInv, TypeOK
  <2>9. CASE Publish \/ Unpublish
    BY <2>1, <2>9, BumpType DEF Publish, Unpublish, TypeInv, TypeOK
  <2>10. CASE ArchiveWithdraws
    BY <2>1, <2>10, BoundsAssumption DEF ArchiveWithdraws, TypeInv, TypeOK
  <2>11. CASE UNCHANGED vars
    BY <2>1, <2>11 DEF vars, TypeInv, TypeOK
  <2> QED
    BY <2>2, <2>3, <2>4, <2>5, <2>6, <2>7, <2>8, <2>9, <2>10, <2>11 DEF Next
<1>3. TypeInv => TypeOK
  BY DEF TypeInv
<1> QED
  BY <1>1, <1>2, <1>3, PTL DEF Spec
==============================================================================
