------------------------ MODULE DocumentExportsProofs ------------------------
(***************************************************************************)
(* The exports of documents, for any number of documents, attempts and     *)
(* changes and any size of a page.  What makes a file whole is a count:    *)
(* ordinals only grow, so a file has as many lines as its cursor says only *)
(* if no row was left out, and then line i is the line of row i.           *)
(***************************************************************************)
EXTENDS DocumentExports, FiniteSetTheorems, SequenceTheorems, TLAPS

DocumentRow ==
  [status : Statuses, updated : Nat, review : Nat, overtaken : BOOLEAN,
   approval : Nat, approves : Nat]
FrozenRow == [id : Documents, updated : Nat, review : Nat, approval : Nat]
Lines ==
  (Documents \X Statuses \X Nat) \cup (Documents \X Nat)
    \cup (Documents \X Nat \X Nat)

ExportsTypeOK ==
  /\ document \in [Documents -> DocumentRow]
  /\ export \in [state : {"None", "Queued", "Running", "Completed", "Failed", "Expired"},
                 product : Products \cup {"None"}, status : Statuses \cup {"None"},
                 rows : Seq(FrozenRow)]
  /\ attempt \in 0 .. MaxAttempts
  /\ file \in [Attempts -> [cursor : Nat, lines : Seq(Lines), done : BOOLEAN]]
  /\ artifact = NoFile \/ artifact \in Seq(Lines)
  /\ signed \in BOOLEAN

(* Before the request there is nothing, after it a product.                *)
Requested ==
  /\ export.state = "None" => export = NoExport
  /\ export.state # "None" => export.product \in Products

(* No document is behind the row that was frozen of it, and one that is    *)
(* still at the revision of the row is as it was.                          *)
Follows(row) ==
  LET d == document[row.id]
  IN /\ row.updated <= d.updated
     /\ row.updated = d.updated => d.status = export.status
     /\ export.product # "raw_documents" => row.review \in 1 .. d.review
     /\ export.product = "approved_suggestions" =>
          /\ row.approval \in 1 .. d.approval
          /\ row.approval = d.approval => d.approves = row.review
RowsFollowed == \A i \in DOMAIN export.rows : Follows(export.rows[i])

(* The line that a row has while it holds.                                 *)
LineOf(row) ==
  CASE export.product = "raw_documents" -> <<row.id, export.status, row.updated>>
    [] export.product = "confirmed_values" -> <<row.id, row.review>>
    [] export.product = "approved_suggestions" -> <<row.id, row.review, row.approval>>

(* A file has at most a line for each ordinal up to its cursor, and if it  *)
(* has that many they are those of the rows.                               *)
Faithful(cursor, lines) ==
  /\ cursor \in 0 .. Len(export.rows)
  /\ Len(lines) <= cursor
  /\ Len(lines) = cursor => \A i \in 1 .. cursor : lines[i] = LineOf(export.rows[i])
FilesFaithful == \A a \in Attempts : Faithful(file[a].cursor, file[a].lines)

ArtifactFaithful == export.state = "Completed" =>
  /\ Len(artifact) = Len(export.rows)
  /\ \A i \in DOMAIN export.rows : artifact[i] = LineOf(export.rows[i])

IInv ==
  /\ ExportsTypeOK
  /\ Requested
  /\ RowsFollowed
  /\ FilesFaithful
  /\ ArtifactFaithful
-----------------------------------------------------------------------------
(* Ascending numbers are at least as far apart as their places.            *)
LEMMA Apart ==
  ASSUME NEW k \in Nat, NEW s \in [1 .. k -> Nat],
         \A i, j \in 1 .. k : i < j => s[i] < s[j],
         NEW i \in 1 .. k, NEW j \in i .. k
  PROVE  s[j] - s[i] >= j - i
<1> DEFINE f == [x \in i .. j |-> s[x]]
<1>1. f \in Injection(i .. j, s[i] .. s[j])
  <2>1. f \in [i .. j -> s[i] .. s[j]]
    <3> SUFFICES ASSUME NEW x \in i .. j PROVE s[x] \in s[i] .. s[j]
      OBVIOUS
    <3>1. x \in 1 .. k /\ j \in 1 .. k
      OBVIOUS
    <3>2. s[x] \in Nat /\ s[i] \in Nat /\ s[j] \in Nat
      BY <3>1
    <3>3. (i < x => s[i] < s[x]) /\ (x < j => s[x] < s[j])
      BY <3>1
    <3> QED BY <3>2, <3>3
  <2>2. ASSUME NEW x \in i .. j, NEW y \in i .. j, f[x] = f[y] PROVE x = y
    <3>1. x \in 1 .. k /\ y \in 1 .. k /\ s[x] = s[y]
      BY <2>2
    <3>2. s[x] \in Nat /\ (x < y => s[x] < s[y]) /\ (y < x => s[y] < s[x])
      BY <3>1
    <3> QED BY <3>1, <3>2
  <2> QED BY <2>1, <2>2 DEF Injection, IsInjective
<1>2. s[i] \in Nat /\ s[j] \in Nat /\ j \in 1 .. k
  OBVIOUS
<1>3. Cardinality(i .. j) = j - i + 1
  BY FS_Interval
<1>4. /\ IsFiniteSet(s[i] .. s[j])
      /\ Cardinality(s[i] .. s[j]) = IF s[i] > s[j] THEN 0 ELSE s[j] - s[i] + 1
  <2> HIDE DEF f
  <2>1. s[i] \in Int /\ s[j] \in Int
    BY <1>2
  <2> QED BY <2>1, FS_Interval, Zenon
<1>5. Cardinality(i .. j) <= Cardinality(s[i] .. s[j])
  BY <1>1, <1>4, FS_Injection
<1> HIDE DEF f
<1> QED BY <1>2, <1>3, <1>4, <1>5

(* The first n ordinals found after a cursor reach at least n beyond it,   *)
(* and if they reach no further they are the next n.                       *)
LEMMA NoneSkipped ==
  ASSUME NEW c \in Nat, NEW S \in SUBSET Nat, IsFiniteSet(S), \A o \in S : o > c,
         NEW s \in InOrder(S), NEW n \in 1 .. Len(s)
  PROVE  /\ Cardinality(S) \in Nat /\ s \in [1 .. Cardinality(S) -> S]
         /\ Len(s) = Cardinality(S)
         /\ s[n] - c >= n
         /\ s[n] - c = n => \A i \in 1 .. n : s[i] = c + i
<1> DEFINE k == Cardinality(S)
<1>1. k \in Nat
  BY FS_CardinalityType
<1>2. s \in [1 .. k -> S] /\ \A i, j \in 1 .. k : i < j => s[i] < s[j]
  BY DEF InOrder, SetToSeqs
<1>3. Len(s) = k
  BY <1>1, <1>2
<1> HIDE DEF k
<1>4. s \in [1 .. k -> Nat]
  BY <1>2
<1>5. 1 \in 1 .. k /\ n \in 1 .. k /\ s[1] > c /\ s[1] \in Nat /\ s[n] \in Nat
  <2>1. n \in 1 .. k
    BY <1>3
  <2>2. 1 \in 1 .. k
    BY <1>1, <2>1
  <2>3. s[1] \in S /\ s[n] \in S
    BY <1>2, <2>1, <2>2
  <2> QED BY <2>1, <2>2, <2>3
<1>6. s[n] - s[1] >= n - 1
  BY <1>1, <1>2, <1>4, <1>5, Apart
<1>7. ASSUME s[n] - c = n, NEW i \in 1 .. n PROVE s[i] = c + i
  <2>1. i \in 1 .. k /\ n \in i .. k /\ i \in 1 .. k /\ s[i] \in Nat
    BY <1>1, <1>4, <1>5
  <2>2. s[n] - s[i] >= n - i
    BY <1>1, <1>2, <1>4, <2>1, Apart
  <2>3. i \in 1 .. k /\ s[i] - s[1] >= i - 1
    BY <1>1, <1>2, <1>4, <1>5, <2>1, Apart
  <2> QED BY <1>5, <1>7, <2>1, <2>2, <2>3
<1>8. s[n] - c >= n
  BY <1>5, <1>6
<1> QED BY <1>1, <1>2, <1>3, <1>7, <1>8 DEF k
-----------------------------------------------------------------------------
LEMMA InitInv == Init => IInv
<1> SUFFICES ASSUME Init PROVE IInv
  OBVIOUS
<1>1. <<>> \in Seq(FrozenRow) /\ <<>> \in Seq(Lines) /\ Len(<<>>) = 0
  OBVIOUS
<1>2. ExportsTypeOK
  <2>1. NewDocument \in DocumentRow
    BY DEF NewDocument, DocumentRow, Statuses
  <2>2. NewFile \in [cursor : Nat, lines : Seq(Lines), done : BOOLEAN]
    BY <1>1 DEF NewFile
  <2>3. attempt \in 0 .. MaxAttempts
    BY ExportsAssumption DEF Init
  <2>4. export \in [state : {"None", "Queued", "Running", "Completed", "Failed", "Expired"},
                 product : Products \cup {"None"}, status : Statuses \cup {"None"},
                 rows : Seq(FrozenRow)]
    BY <1>1 DEF Init, NoExport
  <2> QED BY <2>1, <2>2, <2>3, <2>4 DEF Init, ExportsTypeOK
<1>3. Requested /\ RowsFollowed /\ ArtifactFaithful
  BY DEF Init, NoExport, Requested, RowsFollowed, ArtifactFaithful
<1>4. FilesFaithful
  BY <1>1 DEF Init, NoExport, NewFile, FilesFaithful, Faithful
<1> QED BY <1>2, <1>3, <1>4 DEF IInv

(* While a row holds, its line and an export requested now agree.          *)
LEMMA LineHolds ==
  ASSUME IInv, export.state # "None",
         NEW i \in DOMAIN export.rows, Holds(export.rows[i])
  PROVE  /\ Line(export.product, export.rows[i].id) = LineOf(export.rows[i])
         /\ Line(export.product, export.rows[i].id) \in Lines
         /\ export.rows[i].id \in Selected(export.product, export.status)
<1> DEFINE row == export.rows[i]
           d == document[row.id]
<1>1. row \in FrozenRow /\ d \in DocumentRow /\ export.product \in Products
  <2>1. export.rows \in Seq(FrozenRow) /\ document \in [Documents -> DocumentRow]
    BY DEF IInv, ExportsTypeOK
  <2>2. row \in FrozenRow
    BY <2>1, LenProperties
  <2>3. row.id \in Documents
    BY <2>2 DEF FrozenRow
  <2> QED BY <2>1, <2>2, <2>3 DEF IInv, Requested
<1>2. Follows(row)
  BY DEF IInv, RowsFollowed
<1>3. row.id \in Documents
  BY <1>1 DEF FrozenRow
<1>4. Line(export.product, row.id) = LineOf(row)
  BY <1>1 DEF Products, Holds, Line, LineOf
<1>5. Line(export.product, row.id) \in Lines
  BY <1>1, <1>3 DEF Products, Line, Lines, DocumentRow
<1>6. row.id \in Selected(export.product, export.status)
  BY <1>1, <1>2, <1>3
     DEF Holds, Follows, Selected, HasReview, HasApproval, DocumentRow, FrozenRow
<1> QED BY <1>4, <1>5, <1>6

(* How a document goes on: a new status is a new revision, and a review or *)
(* an approval is not undone but by the next.                              *)
Onward(old, new) ==
  /\ old.updated <= new.updated /\ old.review <= new.review
  /\ old.approval <= new.approval
  /\ old.updated = new.updated => old.status = new.status
  /\ old.review = new.review /\ old.overtaken => new.overtaken
  /\ old.approval = new.approval => old.approves = new.approves

LEMMA DocumentsGoOn ==
  ASSUME IInv, Next
  PROVE  /\ document' \in [Documents -> DocumentRow]
         /\ \A d \in Documents : Onward(document[d], document'[d])
<1>1. document \in [Documents -> DocumentRow]
  BY DEF IInv, ExportsTypeOK
<1>2. ASSUME NEW d \in Documents, NEW row \in DocumentRow,
             Onward(document[d], row), Change(d, row)
      PROVE  /\ document' \in [Documents -> DocumentRow]
             /\ \A e \in Documents : Onward(document[e], document'[e])
  BY <1>1, <1>2 DEF Change, Onward, DocumentRow
<1>3. CASE UNCHANGED document
  BY <1>1, <1>3 DEF Onward, DocumentRow
<1>4. ASSUME NEW d \in Documents,
             ChangeDocumentStatus(d) \/ SaveReview(d) \/ Overtake(d) \/ Approve(d)
      PROVE  /\ document' \in [Documents -> DocumentRow]
             /\ \A e \in Documents : Onward(document[e], document'[e])
  <2> DEFINE old == document[d]
  <2>1. old \in DocumentRow
    BY <1>1
  <2>2. CASE ChangeDocumentStatus(d)
    <3>1. PICK to \in Statuses :
            Change(d, [old EXCEPT !.status = to, !.updated = @ + 1])
      BY <2>2 DEF ChangeDocumentStatus
    <3> DEFINE row == [old EXCEPT !.status = to, !.updated = @ + 1]
    <3>2. row \in DocumentRow
      <4>1. [old EXCEPT !.status = to] \in DocumentRow
        BY <2>1 DEF DocumentRow
      <4>2. \A r \in DocumentRow : [r EXCEPT !.updated = @ + 1] \in DocumentRow
        BY <2>1 DEF DocumentRow
      <4> QED BY <4>1, <4>2
    <3>3. Onward(old, row)
      <4>1. /\ row.updated = old.updated + 1 /\ row.status = to /\ row.review = old.review
            /\ row.overtaken = old.overtaken /\ row.approval = old.approval /\ row.approves = old.approves
        BY <2>1 DEF DocumentRow
      <4>2. old.updated \in Nat /\ old.review \in Nat /\ old.approval \in Nat
        BY <2>1 DEF DocumentRow
      <4> HIDE DEF row
      <4> QED BY <4>1, <4>2 DEF Onward
    <3>4. Change(d, row)
      BY <3>1
    <3> HIDE DEF row
    <3> QED BY <1>2, <3>2, <3>3, <3>4
  <2>3. CASE SaveReview(d)
    <3> DEFINE row == [old EXCEPT !.review = @ + 1, !.overtaken = FALSE]
    <3>1. row \in DocumentRow
      <4>1. [old EXCEPT !.review = @ + 1] \in DocumentRow
        BY <2>1 DEF DocumentRow
      <4>2. \A r \in DocumentRow : [r EXCEPT !.overtaken = FALSE] \in DocumentRow
        BY <2>1 DEF DocumentRow
      <4> QED BY <4>1, <4>2
    <3>2. Onward(old, row)
      <4>1. /\ row.updated = old.updated /\ row.status = old.status /\ row.review = old.review + 1
            /\ row.overtaken = FALSE /\ row.approval = old.approval /\ row.approves = old.approves
        BY <2>1 DEF DocumentRow
      <4>2. old.updated \in Nat /\ old.review \in Nat /\ old.approval \in Nat
        BY <2>1 DEF DocumentRow
      <4> HIDE DEF row
      <4> QED BY <4>1, <4>2 DEF Onward
    <3>3. Change(d, row)
      BY <2>3 DEF SaveReview
    <3> HIDE DEF row
    <3> QED BY <1>2, <3>1, <3>2, <3>3
  <2>4. CASE Overtake(d)
    <3> DEFINE row == [old EXCEPT !.overtaken = TRUE]
    <3>1. row \in DocumentRow
      BY <2>1 DEF DocumentRow
    <3>2. Onward(old, row)
      BY <2>1 DEF DocumentRow, Onward
    <3>3. Change(d, row)
      BY <2>4 DEF Overtake
    <3> HIDE DEF row
    <3> QED BY <1>2, <3>1, <3>2, <3>3
  <2>5. CASE Approve(d)
    <3> DEFINE row == [old EXCEPT !.approval = @ + 1, !.approves = old.review]
    <3>1. row \in DocumentRow
      <4>1. [old EXCEPT !.approval = @ + 1] \in DocumentRow
        BY <2>1 DEF DocumentRow
      <4>2. \A r \in DocumentRow : [r EXCEPT !.approves = old.review] \in DocumentRow
        BY <2>1 DEF DocumentRow
      <4> QED BY <4>1, <4>2
    <3>2. Onward(old, row)
      <4>1. /\ row.updated = old.updated /\ row.status = old.status /\ row.review = old.review
            /\ row.overtaken = old.overtaken /\ row.approval = old.approval + 1 /\ row.approves = old.review
        BY <2>1 DEF DocumentRow
      <4>2. old.updated \in Nat /\ old.review \in Nat /\ old.approval \in Nat
        BY <2>1 DEF DocumentRow
      <4> HIDE DEF row
      <4> QED BY <4>1, <4>2 DEF Onward
    <3>3. Change(d, row)
      BY <2>5 DEF Approve
    <3> HIDE DEF row
    <3> QED BY <1>2, <3>1, <3>2, <3>3
  <2> QED BY <1>4, <2>2, <2>3, <2>4, <2>5
<1>5. \/ \E d \in Documents :
            ChangeDocumentStatus(d) \/ SaveReview(d) \/ Overtake(d) \/ Approve(d)
      \/ UNCHANGED document
  BY DEF Next, QueueDocumentExport, Claim, ReadPage, CompleteExport, FailJob,
         Expire, SignDownload, URLExpires
<1> QED BY <1>2, <1>3, <1>4, <1>5

LEMMA RowsStayFollowed ==
  ASSUME IInv, Next, export.state # "None", export'.product = export.product,
         export'.status = export.status, export'.rows = export.rows
  PROVE  RowsFollowed'
<1> SUFFICES ASSUME NEW i \in DOMAIN export.rows PROVE Follows(export.rows[i])'
  BY DEF RowsFollowed
<1> DEFINE row == export.rows[i]
           old == document[row.id]
           new == document'[row.id]
<1>1. row \in FrozenRow /\ export.product \in Products
  <2>1. export.rows \in Seq(FrozenRow)
    BY DEF IInv, ExportsTypeOK
  <2> QED BY <2>1, LenProperties DEF IInv, Requested
<1>2. row.id \in Documents
  BY <1>1 DEF FrozenRow
<1>3. old \in DocumentRow /\ new \in DocumentRow /\ Onward(old, new)
  BY <1>2, DocumentsGoOn DEF IInv, ExportsTypeOK
<1>4. /\ row.updated <= old.updated
      /\ row.updated = old.updated => old.status = export.status
      /\ export.product # "raw_documents" => row.review \in 1 .. old.review
      /\ export.product = "approved_suggestions" =>
           /\ row.approval \in 1 .. old.approval
           /\ row.approval = old.approval => old.approves = row.review
  BY DEF IInv, RowsFollowed, Follows
<1>5. /\ row.updated \in Nat /\ old.updated \in Nat /\ new.updated \in Nat
      /\ old.review \in Nat /\ new.review \in Nat
      /\ old.approval \in Nat /\ new.approval \in Nat
  BY <1>1, <1>3 DEF FrozenRow, DocumentRow
<1>6. /\ old.updated <= new.updated /\ old.review <= new.review
      /\ old.approval <= new.approval
      /\ old.updated = new.updated => old.status = new.status
      /\ old.approval = new.approval => old.approves = new.approves
  BY <1>3 DEF Onward
<1> HIDE DEF row, old, new
<1>7. /\ row.updated <= new.updated
      /\ row.updated = new.updated => new.status = export.status
      /\ export.product # "raw_documents" => row.review \in 1 .. new.review
      /\ export.product = "approved_suggestions" =>
           /\ row.approval \in 1 .. new.approval
           /\ row.approval = new.approval => new.approves = row.review
  BY <1>4, <1>5, <1>6
<1> QED BY <1>7 DEF Follows, row, new

(* A step that only moves the job on.                                      *)
LEMMA JobMoves ==
  ASSUME IInv, Next, export.state # "None",
         NEW x \in {"Queued", "Running", "Completed", "Failed", "Expired"},
         export' = [export EXCEPT !.state = x], UNCHANGED file,
         attempt' \in 0 .. MaxAttempts, artifact' = NoFile \/ artifact' \in Seq(Lines),
         signed' = signed, ArtifactFaithful'
  PROVE  IInv'
<1>1. /\ export' \in [state : {"None", "Queued", "Running", "Completed", "Failed", "Expired"},
                      product : Products \cup {"None"}, status : Statuses \cup {"None"},
                      rows : Seq(FrozenRow)]
      /\ export'.state = x /\ export'.product = export.product
      /\ export'.status = export.status /\ export'.rows = export.rows
  BY DEF IInv, ExportsTypeOK
<1>2. ExportsTypeOK'
  BY <1>1, DocumentsGoOn DEF IInv, ExportsTypeOK
<1>3. Requested'
  BY <1>1 DEF IInv, Requested
<1>4. RowsFollowed'
  BY <1>1, RowsStayFollowed
<1>5. FilesFaithful'
  BY <1>1 DEF IInv, FilesFaithful, Faithful, LineOf
<1> QED BY <1>2, <1>3, <1>4, <1>5 DEF IInv

LEMMA DocumentStep ==
  ASSUME IInv, Next, UNCHANGED <<export, attempt, file, artifact>>,
         signed' \in BOOLEAN
  PROVE  IInv'
<1>1. ExportsTypeOK'
  BY DocumentsGoOn DEF IInv, ExportsTypeOK
<1>2. Requested' /\ FilesFaithful' /\ ArtifactFaithful'
  BY DEF IInv, Requested, FilesFaithful, Faithful, ArtifactFaithful, LineOf
<1>3. RowsFollowed'
  <2>1. CASE export.state = "None"
    BY <2>1 DEF IInv, Requested, NoExport, RowsFollowed
  <2>2. CASE export.state # "None"
    BY <2>2, RowsStayFollowed
  <2> QED BY <2>1, <2>2
<1> QED BY <1>1, <1>2, <1>3 DEF IInv

LEMMA ClaimStep ==
  ASSUME IInv, Next, Claim
  PROVE  IInv'
<1>1. attempt' \in 0 .. MaxAttempts
  BY ExportsAssumption DEF IInv, ExportsTypeOK, Claim
<1>2. export'.state = "Running"
  BY DEF IInv, ExportsTypeOK, Claim
<1> QED BY <1>1, <1>2, JobMoves DEF IInv, ExportsTypeOK, Claim, ArtifactFaithful

LEMMA FailStep ==
  ASSUME IInv, Next, NEW a \in Attempts, FailJob(a)
  PROVE  IInv'
<1>1. PICK x \in {"Queued", "Failed"} : export' = [export EXCEPT !.state = x]
  BY DEF FailJob
<1>2. export'.state = x
  BY <1>1 DEF IInv, ExportsTypeOK
<1> QED BY <1>1, <1>2, JobMoves
        DEF IInv, ExportsTypeOK, FailJob, HasLease, ArtifactFaithful

LEMMA ExpireStep ==
  ASSUME IInv, Next, Expire
  PROVE  IInv'
<1>1. export'.state = "Expired"
  BY DEF IInv, ExportsTypeOK, Expire
<1> QED BY <1>1, JobMoves DEF IInv, ExportsTypeOK, Expire, ArtifactFaithful

(* As many lines as rows: none was left out.                               *)
LEMMA CompleteStep ==
  ASSUME IInv, Next, NEW a \in Attempts, CompleteExport(a)
  PROVE  IInv'
<1> DEFINE lines == file[a].lines
<1>1. lines \in Seq(Lines) /\ file[a].cursor \in Nat /\ export.rows \in Seq(FrozenRow)
  BY DEF IInv, ExportsTypeOK
<1>2. Len(lines) = Len(export.rows)
  BY DEF CompleteExport, Counted
<1>3. Faithful(file[a].cursor, lines)
  BY DEF IInv, FilesFaithful
<1>4. \A i \in 1 .. Len(export.rows) : lines[i] = LineOf(export.rows[i])
  BY <1>1, <1>2, <1>3, LenProperties DEF Faithful
<1>5. DOMAIN export.rows = 1 .. Len(export.rows)
  BY <1>1, LenProperties
<1>6. /\ export' = [export EXCEPT !.state = "Completed"] /\ artifact' = lines
      /\ export'.product = export.product /\ export'.status = export.status
      /\ export'.rows = export.rows
  BY DEF CompleteExport, IInv, ExportsTypeOK
<1>7. ArtifactFaithful'
  BY <1>2, <1>4, <1>5, <1>6 DEF ArtifactFaithful, LineOf
<1> QED BY <1>1, <1>6, <1>7, JobMoves
        DEF CompleteExport, HasLease, IInv, ExportsTypeOK

LEMMA QueueStep ==
  ASSUME IInv, Next, NEW p \in Products, NEW s \in Statuses,
         QueueDocumentExport(p, s)
  PROVE  IInv'
<1>1. PICK ids \in SetToSeqs(Selected(p, s)) :
        export' = [state |-> "Queued", product |-> p, status |-> s,
                   rows |-> [i \in DOMAIN ids |-> SnapshotRow(p, ids[i])]]
  BY DEF QueueDocumentExport
<1>2. export = NoExport /\ UNCHANGED <<document, attempt, file, artifact, signed>>
  BY DEF QueueDocumentExport
<1> DEFINE k == Cardinality(Selected(p, s))
           rows == [i \in DOMAIN ids |-> SnapshotRow(p, ids[i])]
<1>3. k \in Nat
  <2>1. Selected(p, s) \subseteq Documents
    BY DEF Selected
  <2> QED BY <2>1, ExportsAssumption, FS_Subset, FS_CardinalityType
<1>4. ids \in [1 .. k -> Selected(p, s)]
  BY DEF SetToSeqs
<1> HIDE DEF k
<1>5. ASSUME NEW d \in Selected(p, s)
      PROVE  LET row == SnapshotRow(p, d)
             IN /\ row \in FrozenRow /\ row.id = d
                /\ row.updated = document[d].updated
                /\ document[d].status = s
                /\ p # "raw_documents" => row.review \in 1 .. document[d].review
                /\ p = "approved_suggestions" =>
                     /\ row.approval \in 1 .. document[d].approval
                     /\ document[d].approves = row.review
  <2>1. d \in Documents /\ document[d] \in DocumentRow
    BY DEF Selected, IInv, ExportsTypeOK
  <2>2. /\ document[d].updated \in Nat /\ document[d].review \in Nat
        /\ document[d].approval \in Nat
    BY <2>1 DEF DocumentRow
  <2> QED BY <2>1, <2>2 DEF SnapshotRow, FrozenRow, Selected, HasReview, HasApproval
<1>6. DOMAIN rows = 1 .. k /\ \A i \in 1 .. k : rows[i] = SnapshotRow(p, ids[i])
  BY <1>4
<1>7. rows \in Seq(FrozenRow) /\ Len(rows) = k
  <2>1. rows \in [1 .. k -> FrozenRow]
    BY <1>4, <1>5
  <2> QED BY <1>3, <2>1
<1>8. /\ export'.state = "Queued" /\ export'.product = p
      /\ export'.status = s /\ export'.rows = rows
  BY <1>1
<1>9. ExportsTypeOK'
  <2>1. export' \in [state : {"None", "Queued", "Running", "Completed", "Failed", "Expired"},
                     product : Products \cup {"None"}, status : Statuses \cup {"None"},
                     rows : Seq(FrozenRow)]
    BY <1>1, <1>7
  <2> QED BY <1>2, <2>1 DEF IInv, ExportsTypeOK
<1>10. Requested' /\ ArtifactFaithful'
  BY <1>8 DEF Requested, ArtifactFaithful
<1>11. RowsFollowed'
  <2> SUFFICES ASSUME NEW i \in 1 .. k PROVE Follows(export.rows[i])'
    BY <1>6, <1>8 DEF RowsFollowed
  <2>1. ids[i] \in Selected(p, s) /\ rows[i] = SnapshotRow(p, ids[i])
    BY <1>4, <1>6
  <2>2. document[ids[i]].updated \in Nat
    BY <2>1 DEF Selected, IInv, ExportsTypeOK, DocumentRow
  <2>3. export'.rows[i] = SnapshotRow(p, ids[i])
    BY <1>8, <2>1
  <2> HIDE DEF rows
  <2> QED BY <1>2, <1>5, <1>8, <2>1, <2>2, <2>3 DEF Follows
<1>12. FilesFaithful'
  <2> SUFFICES ASSUME NEW a \in Attempts PROVE Faithful(file[a].cursor, file[a].lines)'
    BY DEF FilesFaithful
  <2>1. Faithful(file[a].cursor, file[a].lines) /\ Len(export.rows) = 0
    BY <1>2 DEF IInv, FilesFaithful, NoExport
  <2>2. file[a].lines \in Seq(Lines)
    BY DEF IInv, ExportsTypeOK
  <2>3. file[a].cursor = 0 /\ Len(file[a].lines) = 0
    BY <2>1, <2>2, LenProperties DEF Faithful
  <2> HIDE DEF rows
  <2> QED BY <1>2, <1>3, <1>7, <1>8, <2>3 DEF Faithful
<1> QED BY <1>9, <1>10, <1>11, <1>12 DEF IInv

(* A page only adds lines of rows that hold; each skipped row is an ordinal *)
(* that no line will ever make up for.                                     *)
LEMMA PageStep ==
  ASSUME IInv, Next, NEW a \in Attempts, ReadPage(a)
  PROVE  IInv'
<1> DEFINE c == file[a].cursor
           L == file[a].lines
           S == Found(c)
           m == Len(export.rows)
<1>1. PICK found \in InOrder(S) :
        LET page == SubSeq(found, 1, IF Len(found) < PageSize THEN Len(found) ELSE PageSize)
        IN file' = [file EXCEPT ![a] =
             [cursor |-> IF page = <<>> THEN @.cursor ELSE Last(page),
              lines |-> @.lines \o LinesOf(page),
              done |-> Len(found) <= PageSize]]
  BY DEF ReadPage
<1> DEFINE n == IF Len(found) < PageSize THEN Len(found) ELSE PageSize
           page == SubSeq(found, 1, n)
           cursor == IF page = <<>> THEN c ELSE Last(page)
           lines == L \o LinesOf(page)
<1>2. /\ c \in Nat /\ L \in Seq(Lines) /\ export.rows \in Seq(FrozenRow) /\ m \in Nat
      /\ DOMAIN export.rows = 1 .. m
  BY LenProperties DEF IInv, ExportsTypeOK
<1>3. /\ c \in 0 .. m /\ Len(L) <= c /\ Len(L) \in Nat
      /\ Len(L) = c => \A i \in 1 .. c : L[i] = LineOf(export.rows[i])
  BY <1>2, LenProperties DEF IInv, FilesFaithful, Faithful
<1>4. export.state = "Running"
  BY DEF ReadPage, HasLease
<1>5. /\ S \in SUBSET Nat /\ S \subseteq c + 1 .. m /\ IsFiniteSet(S)
      /\ \A o \in S : o > c /\ o \in DOMAIN export.rows /\ Holds(export.rows[o])
  <2>1. S \subseteq c + 1 .. m
    BY <1>2 DEF Found
  <2>2. IsFiniteSet(c + 1 .. m)
    <3>1. c + 1 \in Int /\ m \in Int
      BY <1>2
    <3> HIDE DEF c, m
    <3> QED BY <3>1, FS_Interval, Zenon
  <2>3. IsFiniteSet(S)
    BY <2>1, <2>2, FS_Subset, Zenon
  <2>4. \A o \in S : o > c /\ o \in DOMAIN export.rows /\ Holds(export.rows[o])
    BY DEF Found
  <2>5. c + 1 .. m \subseteq Nat
    BY <1>2
  <2> QED BY <2>1, <2>3, <2>4, <2>5
<1>6. found \in Seq(S) /\ Len(found) \in Nat
  <2>1. Cardinality(S) \in Nat
    BY <1>5, FS_CardinalityType
  <2>2. found \in [1 .. Cardinality(S) -> S]
    BY DEF InOrder, SetToSeqs
  <2> HIDE DEF S
  <2> QED BY <2>1, <2>2, LenProperties
<1>7. n \in 0 .. Len(found)
  BY <1>6, ExportsAssumption
<1>8. /\ page \in Seq(S) /\ Len(page) = n
      /\ \A i \in 1 .. n : page[i] = found[i] /\ found[i] \in S
  <2> HIDE DEF S, n
  <2>1. \A i \in 1 .. n : found[i] \in S
    BY <1>6, <1>7, ElementOfSeq
  <2> QED BY <1>7, <2>1, SubSeqProperties
<1>9. /\ LinesOf(page) \in Seq(Lines) /\ Len(LinesOf(page)) = n
      /\ \A i \in 1 .. n : LinesOf(page)[i] = LineOf(export.rows[found[i]])
  <2>1. DOMAIN page = 1 .. n /\ n \in Nat
    BY <1>6, <1>7, <1>8, LenProperties
  <2> HIDE DEF S, n, page
  <2>2. ASSUME NEW i \in 1 .. n
        PROVE  /\ LinesOf(page)[i] = LineOf(export.rows[found[i]])
               /\ LinesOf(page)[i] \in Lines
    <3>1. /\ page[i] = found[i] /\ found[i] \in DOMAIN export.rows
          /\ Holds(export.rows[found[i]])
      BY <1>5, <1>8
    <3>2. LinesOf(page)[i] = Line(export.product, export.rows[found[i]].id)
      BY <2>1, <3>1 DEF LinesOf
    <3> QED BY <1>4, <3>1, <3>2, LineHolds
  <2>3. LinesOf(page) \in [1 .. n -> Lines]
    BY <2>1, <2>2 DEF LinesOf
  <2> QED BY <2>1, <2>2, <2>3
<1>10. /\ lines \in Seq(Lines) /\ Len(lines) = Len(L) + n
       /\ \A i \in 1 .. Len(L) + n :
            lines[i] = IF i <= Len(L) THEN L[i] ELSE LinesOf(page)[i - Len(L)]
  <2> HIDE DEF n, page, L
  <2> QED BY <1>2, <1>9, ConcatProperties
<1>11. file' = [file EXCEPT ![a] = [cursor |-> cursor, lines |-> lines,
                                    done |-> Len(found) <= PageSize]]
  BY <1>1
<1>12. cursor \in Nat /\ Faithful(cursor, lines)
  <2>1. CASE n = 0
    <3>1. page = <<>>
      BY <1>8, <2>1, EmptySeq
    <3>2. cursor = c
      BY <3>1
    <3> HIDE DEF cursor, lines, n, page, c, L
    <3> QED BY <1>2, <1>3, <1>10, <2>1, <3>2 DEF Faithful
  <2>2. CASE n # 0
    <3>1. n \in 1 .. Len(found) /\ n \in 1 .. n
      BY <1>6, <1>7, <2>2
    <3>2. cursor = found[n] /\ found[n] \in c + 1 .. m
      <4>1. page # <<>>
        BY <1>8, <2>2
      <4> HIDE DEF page, n, S
      <4>2. Last(page) = found[n]
        BY <1>8, <3>1 DEF Last
      <4> QED BY <1>5, <1>8, <3>1, <4>1, <4>2
    <3>3. /\ found[n] - c >= n
          /\ found[n] - c = n => \A i \in 1 .. n : found[i] = c + i
      <4> HIDE DEF S, n, c
      <4> QED BY <1>2, <1>5, <3>1, NoneSkipped
    <3> HIDE DEF cursor, lines, n, page, c, L, S, m
    <3>4. Len(lines) <= cursor
      BY <1>2, <1>3, <1>6, <1>10, <3>1, <3>2, <3>3
    <3>5. ASSUME Len(lines) = cursor, NEW i \in 1 .. cursor
          PROVE  lines[i] = LineOf(export.rows[i])
      <4>1. Len(L) = c /\ found[n] - c = n
        BY <1>2, <1>3, <1>6, <1>10, <3>1, <3>2, <3>3, <3>5
      <4>2. CASE i <= c
        BY <1>2, <1>3, <1>10, <3>2, <3>5, <4>1, <4>2
      <4>3. CASE i > c
        <5>1. i - c \in 1 .. n /\ found[i - c] = i
          BY <1>2, <1>6, <3>1, <3>2, <3>3, <4>1, <4>3
        <5>2. lines[i] = LinesOf(page)[i - c]
          BY <1>2, <1>10, <3>2, <3>5, <4>1, <4>3
        <5> QED BY <1>9, <5>1, <5>2
      <4> QED BY <1>2, <3>2, <4>2, <4>3
    <3> QED BY <1>2, <3>2, <3>4, <3>5 DEF Faithful, m
  <2> QED BY <2>1, <2>2
<1> HIDE DEF cursor, lines, n, page, c, L, S, m
<1>13. UNCHANGED <<document, export, attempt, artifact, signed>>
  BY DEF ReadPage
<1>14. ExportsTypeOK'
  <2>1. file' \in [Attempts -> [cursor : Nat, lines : Seq(Lines), done : BOOLEAN]]
    BY <1>6, <1>10, <1>11, <1>12 DEF IInv, ExportsTypeOK
  <2> QED BY <1>13, <2>1 DEF IInv, ExportsTypeOK
<1>15. FilesFaithful'
  <2> SUFFICES ASSUME NEW b \in Attempts PROVE Faithful(file'[b].cursor, file'[b].lines)
    BY <1>13 DEF FilesFaithful, Faithful, LineOf
  <2>1. CASE b = a
    BY <1>11, <1>12, <2>1 DEF IInv, ExportsTypeOK
  <2>2. CASE b # a
    BY <1>11, <2>2 DEF IInv, FilesFaithful, ExportsTypeOK
  <2> QED BY <2>1, <2>2
<1>16. Requested' /\ RowsFollowed' /\ ArtifactFaithful'
  BY <1>13 DEF IInv, Requested, RowsFollowed, Follows, ArtifactFaithful, LineOf
<1> QED BY <1>14, <1>15, <1>16 DEF IInv

-----------------------------------------------------------------------------
LEMMA NextInv == IInv /\ [Next]_vars => IInv'
<1> SUFFICES ASSUME IInv, [Next]_vars PROVE IInv'
  OBVIOUS
<1>1. CASE UNCHANGED vars
  BY <1>1 DEF vars, IInv, ExportsTypeOK, Requested, RowsFollowed, Follows,
              FilesFaithful, Faithful, ArtifactFaithful, LineOf
<1>2. CASE Next
  <2>1. CASE \E d \in Documents :
               ChangeDocumentStatus(d) \/ SaveReview(d) \/ Overtake(d) \/ Approve(d)
    <3>1. UNCHANGED <<export, attempt, file, artifact, signed>>
      BY <2>1 DEF ChangeDocumentStatus, SaveReview, Overtake, Approve, Change
    <3> QED BY <1>2, <3>1, DocumentStep DEF IInv, ExportsTypeOK
  <2>2. CASE \E p \in Products, s \in Statuses : QueueDocumentExport(p, s)
    BY <1>2, <2>2, QueueStep
  <2>3. CASE Claim
    BY <1>2, <2>3, ClaimStep
  <2>4. CASE \E a \in Attempts : ReadPage(a) \/ CompleteExport(a) \/ FailJob(a)
    BY <1>2, <2>4, PageStep, CompleteStep, FailStep
  <2>5. CASE Expire
    BY <1>2, <2>5, ExpireStep
  <2>6. CASE SignDownload \/ URLExpires
    BY <1>2, <2>6, DocumentStep DEF SignDownload, URLExpires
  <2> QED BY <1>2, <2>1, <2>2, <2>3, <2>4, <2>5, <2>6 DEF Next
<1> QED BY <1>1, <1>2

(* Documents, the export, its attempts and files keep their types, for any *)
(* number of documents and attempts and any page.                          *)
THEOREM ExportsTypeCorrect == Spec => []ExportsTypeOK
<1>1. IInv => ExportsTypeOK
  BY DEF IInv
<1> QED BY <1>1, InitInv, NextInv, PTL DEF Spec

(* A file that can be fetched is the whole snapshot, in its order, each    *)
(* line as an export requested now would have it.                          *)
THEOREM NeverStale == Spec => []NothingStaleSent
<1>1. IInv => NothingStaleSent
  <2> SUFFICES ASSUME IInv, Retrievable PROVE NothingStaleSent
    BY DEF NothingStaleSent
  <2>1. export.state = "Completed" /\ SnapshotHolds
    BY DEF Retrievable, Offered
  <2>2. /\ Len(artifact) = Len(export.rows)
        /\ \A i \in DOMAIN export.rows : artifact[i] = LineOf(export.rows[i])
    BY <2>1 DEF IInv, ArtifactFaithful
  <2>3. ASSUME NEW i \in DOMAIN export.rows
        PROVE  /\ artifact[i] = Line(export.product, export.rows[i].id)
               /\ export.rows[i].id \in Selected(export.product, export.status)
    <3>1. Holds(export.rows[i])
      BY <2>1 DEF SnapshotHolds
    <3> QED BY <2>1, <2>2, <3>1, LineHolds
  <2> QED BY <2>1, <2>2, <2>3 DEF NothingStaleSent, Shown
<1> QED BY <1>1, InitInv, NextInv, PTL DEF Spec

(* A file refused because a row had changed is never offered again: what a *)
(* row is compared with only grows, so a row that holds now always held.   *)
THEOREM RefusedForGood == Spec => StaleForGood
<1>1. IInv /\ [Next]_vars =>
        [export.state = "Completed" /\ ~SnapshotHolds => ~Offered']_vars
  <2> SUFFICES ASSUME IInv, Next, export.state = "Completed", Offered'
               PROVE  SnapshotHolds
    OBVIOUS
  <2>1. UNCHANGED export
    <3>1. export'.state = "Completed" /\ export # NoExport
      BY DEF Offered, NoExport
    <3> QED BY <3>1 DEF Next, ChangeDocumentStatus, SaveReview, Overtake, Approve,
               Change, QueueDocumentExport, Claim, ReadPage, CompleteExport,
               FailJob, HasLease, Expire, SignDownload, URLExpires, IInv, ExportsTypeOK
  <2> SUFFICES ASSUME NEW i \in DOMAIN export.rows PROVE Holds(export.rows[i])
    BY DEF SnapshotHolds
  <2> DEFINE row == export.rows[i]
             old == document[row.id]
             new == document'[row.id]
  <2>2. row \in FrozenRow
    <3>1. export.rows \in Seq(FrozenRow)
      BY DEF IInv, ExportsTypeOK
    <3> QED BY <3>1, LenProperties
  <2>3. row.id \in Documents
    BY <2>2 DEF FrozenRow
  <2>4. old \in DocumentRow /\ new \in DocumentRow /\ Onward(old, new)
    BY <2>3, DocumentsGoOn DEF IInv, ExportsTypeOK
  <2>5. /\ row.updated <= old.updated
        /\ export.product # "raw_documents" => row.review \in 1 .. old.review
        /\ export.product = "approved_suggestions" =>
             row.approval \in 1 .. old.approval
    BY DEF IInv, RowsFollowed, Follows
  <2>6. /\ new.updated = row.updated /\ new.status = export.status
        /\ export.product # "raw_documents" => new.review = row.review /\ ~new.overtaken
        /\ export.product = "approved_suggestions" =>
             new.approval = row.approval /\ new.approves = row.review
    BY <2>1 DEF Offered, SnapshotHolds, Holds
  <2>7. /\ row.updated \in Nat /\ old.updated \in Nat /\ new.updated \in Nat
        /\ old.review \in Nat /\ new.review \in Nat
        /\ old.approval \in Nat /\ new.approval \in Nat
    BY <2>2, <2>4 DEF FrozenRow, DocumentRow
  <2> HIDE DEF row, old, new
  <2>8. /\ old.updated = row.updated /\ old.status = export.status
        /\ export.product # "raw_documents" => old.review = row.review /\ ~old.overtaken
        /\ export.product = "approved_suggestions" =>
             old.approval = row.approval /\ old.approves = row.review
    BY <2>4, <2>5, <2>6, <2>7 DEF Onward
  <2> QED BY <2>8 DEF Holds, row, old
<1> QED BY <1>1, InitInv, NextInv, PTL DEF Spec, StaleForGood
=============================================================================
