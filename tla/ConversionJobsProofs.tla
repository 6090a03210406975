------------------------ MODULE ConversionJobsProofs ------------------------
(***************************************************************************)
(* ConversionJobs for any number of rows, uploads, ends of the process and *)
(* faults.                                                                 *)
(*                                                                         *)
(* The inductive invariant ties what a worker remembers to what its row    *)
(* says unless the row was overtaken (JobInv), an open update to the files *)
(* it has put on disk (ReqInv), and a row's files to its columns           *)
(* (FilesInv).                                                             *)
(***************************************************************************)
EXTENDS ConversionJobs, TLAPS

-----------------------------------------------------------------------------
(* The inductive invariant. *)

\* A worker is on a row of its own kinds, and the bundle worker alone reads its row after
\* the claim; nobody works while the process is down.
KindInv ==
  /\ \A w \in Workers : wk[w].at = "claimed" => w = "bundle"
  /\ \A w \in Workers : wk[w] # Idle =>
       KindOf[wk[w].row] \in Serves(w) /\ conv[wk[w].row] # "absent"
  /\ ~up => req = NoRequest /\ \A w \in Workers : wk[w] = Idle

\* Where a result goes: rows without a path need none.
PathInv ==
  \A r \in Rows :
    /\ conv[r] = "absent" => path[r] = 0 /\ source[r] = 0
    /\ conv[r] \in Unsettled \/ (KindOf[r] = "compose" /\ conv[r] \notin Gone) => path[r] # 0

\* Names are fresh: nothing is named by a version that is yet to come.
VersionInv ==
  /\ \A r \in Rows : path[r] <= latest[r] /\ source[r] <= latest[r]
  /\ req # NoRequest => req.path <= latest[req.row] /\ req.source <= latest[req.row]
  /\ \A w \in Workers : wk[w] # Idle => wk[w].dst <= latest[wk[w].row]

\* What a worker remembers is what its row says, unless the row was overtaken.
JobInv ==
  \A w \in Workers :
    LET r == wk[w].row IN
    /\ wk[w].at \in OnJob /\ r \notin overtaken =>
         /\ conv[r] = "converting"
         /\ wk[w].at # "claimed" => wk[w].dst = path[r] /\ wk[w].src = source[r]
         /\ wk[w].at = "built" => <<r, path[r]>> \in rootfs
    /\ wk[w].at = "cleanup" /\ w = "bundle" /\ r \notin overtaken => conv[r] \notin Unsettled

\* An update has its new files on disk, a deletion none but the source of a project, and
\* neither has others of the row.
ReqInv ==
  LET r == req.row IN
  req # NoRequest =>
    /\ conv[r] \notin Gone /\ (r \notin overtaken => ~Busy(r))
    /\ req.conv # "deleted" =>
         /\ KindOf[r] \in {"os", "compose"}
         /\ req.conv = "pending" \/ KindOf[r] = "compose" => req.path # 0
    /\ r \notin overtaken \cup torn =>
         /\ req.conv = "ready" => req.path = 0 \/ <<r, req.path>> \in rootfs
         /\ req.conv = "pending" => <<r, req.source>> \in archives
         /\ \A v \in Versions : <<r, v>> \in rootfs => req.path = v
         /\ \A v \in Versions : <<r, v>> \in archives =>
              req.source = v \/ (req.conv = "deleted" /\ KindOf[r] \in {"os", "compose"})

\* The files of a settled row are those it names, or a worker is about to remove.
FilesInv ==
  \A r \in Settled :
    /\ \A v \in Versions : <<r, v>> \in rootfs => path[r] = v
    /\ \A v \in Versions : <<r, v>> \in archives =>
         \/ source[r] = v
         \/ conv[r] = "deleted" /\ KindOf[r] \in {"os", "compose"}
         \/ \E w \in Workers : wk[w].row = r /\ wk[w].at = "cleanup" /\ wk[w].src = v

IInv ==
  /\ TypeOK /\ KindInv /\ PathInv /\ VersionInv /\ JobInv /\ ReqInv /\ FilesInv
  /\ ReadyIsBuilt /\ BundleKeepsSource

-----------------------------------------------------------------------------
(* One lemma per part, one step per action. *)

\* Types.
LEMMA TypeStep ==
  ASSUME IInv, Next
  PROVE  TypeOK'
<1>. USE RowsAssumption DEF IInv, TypeOK, Versions, Named, Free, PathInv, ReqInv,
        Idle, rowVars, Unsettled, Gone, Kinds, Workers
<1>1. ASSUME NEW r \in Rows, NEW form \in Forms(KindOf[r]), Upload(r, form) PROVE TypeOK'
  BY <1>1 DEF Upload, New, Forms, WriteRow, Columns, SavedArchive, SavedRootfs
<1>2. ASSUME NEW r \in Rows, OrderBase(r) PROVE TypeOK'
  BY <1>2 DEF OrderBase, New, WriteRow
<1>3. ASSUME NEW r \in Rows, NEW form \in Forms(KindOf[r]), BeginUpdate(r, form) PROVE TypeOK'
  BY <1>3 DEF BeginUpdate, Forms, Columns, SavedArchive, SavedRootfs, NoRequest
<1>4. ASSUME Commit PROVE TypeOK'
  BY <1>4 DEF Commit, WriteRow, NoRequest
<1>5. ASSUME Rollback PROVE TypeOK'
  BY <1>5 DEF Rollback, NoRequest
<1>6. ASSUME NEW r \in Rows, DeleteAsset(r) PROVE TypeOK'
  <2>1. req' = [row |-> r, conv |-> "deleted", source |-> 0, path |-> 0]
    BY <1>6 DEF DeleteAsset, BeginDelete, NoRequest
  <2>2. req' \in [row: Rows, conv: {"ready", "pending", "deleted"}, source: Versions, path: Versions]
    BY <2>1
  <2>. QED BY <1>6, <2>2 DEF DeleteAsset, BeginDelete
<1>7. ASSUME NEW r \in Rows, DeleteProject(r) PROVE TypeOK'
  <2>1. req' = [row |-> r, conv |-> "deleted", source |-> 0, path |-> 0]
    BY <1>7 DEF DeleteProject, BeginDelete, NoRequest
  <2>2. req' \in [row: Rows, conv: {"ready", "pending", "deleted"}, source: Versions, path: Versions]
    BY <2>1
  <2>. QED BY <1>7, <2>2 DEF DeleteProject, BeginDelete
<1>8. ASSUME NEW w \in Workers, NEW r \in Rows, Claim(w, r) PROVE TypeOK'
  <2>1. path[r] \in 1 .. MaxVersion /\ source[r] \in 0 .. MaxVersion
    BY <1>8 DEF Claim
  <2>2. CASE w = "bundle"
    <3>1. wk' = [wk EXCEPT ![w] = [at |-> "claimed", row |-> r, src |-> 0, dst |-> 0]]
      BY <1>8, <2>2 DEF Claim
    <3>. QED BY <1>8, <3>1 DEF Claim
  <2>3. CASE w # "bundle"
    <3>1. wk' = [wk EXCEPT ![w] = [at |-> "convert", row |-> r, src |-> source[r], dst |-> path[r]]]
      BY <1>8, <2>3 DEF Claim
    <3>. QED BY <1>8, <2>1, <3>1 DEF Claim
  <2>. QED BY <2>2, <2>3
<1>9. ASSUME ReadBundle PROVE TypeOK'
  BY <1>9 DEF ReadBundle, KindInv, Serves
<1>10. ASSUME NEW w \in Workers, Convert(w) PROVE TypeOK'
  BY <1>10 DEF Convert, HasSource
<1>11. ASSUME NEW w \in Workers, ConvertFails(w) PROVE TypeOK'
  BY <1>11 DEF ConvertFails, HasSource
<1>12. ASSUME NEW w \in Workers, Finish(w) PROVE TypeOK'
  BY <1>12 DEF Finish
<1>13. ASSUME NEW w \in Workers, FinishDeleted(w) PROVE TypeOK'
  BY <1>13 DEF FinishDeleted
<1>14. ASSUME NEW w \in Workers, WriteTimesOut(w) PROVE TypeOK'
  <2>1. rootfs' \in SUBSET Named
    BY <1>14 DEF WriteTimesOut
  <2>2. CASE wk' = [wk EXCEPT ![w] = Idle]
    BY <1>14, <2>1, <2>2 DEF WriteTimesOut
  <2>3. CASE wk[w].at \in {"built", "failed"} /\ \E a \in {"failed", "cleanup"} : wk' = [wk EXCEPT ![w].at = a]
    BY <1>14, <2>1, <2>3 DEF WriteTimesOut
  <2>4. CASE wk[w].at = "claimed" /\ w = "convert"
    BY <2>4 DEF KindInv
  <2>. QED BY <1>14, <2>2, <2>3, <2>4 DEF WriteTimesOut
<1>15. ASSUME NEW w \in Workers, Cleanup(w) PROVE TypeOK'
  BY <1>15 DEF Cleanup
<1>16. ASSUME Crash PROVE TypeOK'
  <2>1. ASSUME NEW w \in Workers, wk[w].at = "cleanup" PROVE wk[w].row \in Rows
    BY <2>1
  <2>2. {req.row} \ {NoRow} \subseteq Rows
    BY DEF NoRequest
  <2>3. torn' \in SUBSET Rows
    BY <1>16, <2>1, <2>2 DEF Crash, Stop
  <2>4. wk' = [w \in Workers |-> Idle] /\ wk' \in [Workers -> {Idle}]
    BY <1>16 DEF Crash, Stop
  <2>5. stops' \in 0 .. MaxStops
    BY <1>16 DEF Crash, Stop
  <2>6. archives' \in SUBSET Named /\ req' \in {req, NoRequest}
    BY <1>16 DEF Crash, Stop
  <2>7. up' = FALSE /\ UNCHANGED <<conv, source, path, latest, rootfs, overtaken>>
    BY <1>16 DEF Crash, Stop
  <2>8. /\ wk' \in [Workers -> {Idle} \cup
               [at: {"claimed"}, row: Rows, src: {0}, dst: {0}] \cup
               [at: {"convert", "built", "failed", "cleanup"}, row: Rows,
                src: Versions, dst: 1 .. MaxVersion]]
    BY <2>4
  <2>9. req' \in {NoRequest} \cup
          [row: Rows, conv: {"ready", "pending", "deleted"}, source: Versions, path: Versions]
    BY <2>6
  <2>10. rootfs' \in SUBSET Named /\ overtaken' \in SUBSET Rows /\ up' \in BOOLEAN
    BY <2>7
  <2>. QED BY <2>3, <2>5, <2>6, <2>7, <2>8, <2>9, <2>10
<1>17. ASSUME Shutdown PROVE TypeOK'
  <2>1. ASSUME NEW w \in Workers, wk[w].at = "cleanup" PROVE wk[w].row \in Rows
    BY <2>1
  <2>2. {req.row} \ {NoRow} \subseteq Rows
    BY DEF NoRequest
  <2>3. torn' \in SUBSET Rows
    BY <1>17, <2>1, <2>2 DEF Shutdown, Stop
  <2>4. wk' = [w \in Workers |-> Idle] /\ wk' \in [Workers -> {Idle}]
    BY <1>17 DEF Shutdown, Stop
  <2>5. stops' \in 0 .. MaxStops
    BY <1>17 DEF Shutdown, Stop
  <2>6. archives' \in SUBSET Named /\ req' \in {req, NoRequest}
    BY <1>17 DEF Shutdown, Stop
  <2>7. up' = FALSE /\ UNCHANGED <<conv, source, path, latest, rootfs, overtaken>>
    BY <1>17 DEF Shutdown, Stop
  <2>8. /\ wk' \in [Workers -> {Idle} \cup
               [at: {"claimed"}, row: Rows, src: {0}, dst: {0}] \cup
               [at: {"convert", "built", "failed", "cleanup"}, row: Rows,
                src: Versions, dst: 1 .. MaxVersion]]
    BY <2>4
  <2>9. req' \in {NoRequest} \cup
          [row: Rows, conv: {"ready", "pending", "deleted"}, source: Versions, path: Versions]
    BY <2>6
  <2>10. rootfs' \in SUBSET Named /\ overtaken' \in SUBSET Rows /\ up' \in BOOLEAN
    BY <2>7
  <2>. QED BY <2>3, <2>5, <2>6, <2>7, <2>8, <2>9, <2>10
<1>18. ASSUME Restart PROVE TypeOK'
  BY <1>18 DEF Restart
<1>19. ASSUME NEW r \in Rows, NEW form \in Forms(KindOf[r]), UploadFails(r, form) PROVE TypeOK'
  BY <1>19 DEF UploadFails, New, SavedArchive, SavedRootfs
<1>. HIDE DEF IInv, TypeOK, PathInv, ReqInv
<1>. QED BY <1>1, <1>2, <1>3, <1>4, <1>5, <1>6, <1>7, <1>8, <1>9, <1>10, <1>11, <1>12,
           <1>13, <1>14, <1>15, <1>16, <1>17, <1>18, <1>19
           DEF Next, Request, Work

\* Rows are never forgotten, and their kinds never change.
LEMMA KindStep ==
  ASSUME IInv, Next
  PROVE  KindInv'
<1>. USE RowsAssumption DEF IInv, TypeOK, KindInv, Free, ReqInv, Idle, rowVars,
        Unsettled, Gone, Kinds, Workers
<1>1. ASSUME NEW r \in Rows, NEW form \in Forms(KindOf[r]), Upload(r, form) PROVE KindInv'
  BY <1>1 DEF Upload, New, Forms, WriteRow, Columns, SavedArchive, SavedRootfs
<1>2. ASSUME NEW r \in Rows, OrderBase(r) PROVE KindInv'
  BY <1>2 DEF OrderBase, New, WriteRow
<1>3. ASSUME NEW r \in Rows, NEW form \in Forms(KindOf[r]), BeginUpdate(r, form) PROVE KindInv'
  BY <1>3 DEF BeginUpdate, Forms, Columns, SavedArchive, SavedRootfs, NoRequest
<1>4. ASSUME Commit PROVE KindInv'
  BY <1>4 DEF Commit, WriteRow, NoRequest
<1>5. ASSUME Rollback PROVE KindInv'
  BY <1>5 DEF Rollback, NoRequest
<1>6. ASSUME NEW r \in Rows, DeleteAsset(r) PROVE KindInv'
  BY <1>6 DEF DeleteAsset, BeginDelete, NoRequest
<1>7. ASSUME NEW r \in Rows, DeleteProject(r) PROVE KindInv'
  BY <1>7 DEF DeleteProject, BeginDelete, NoRequest
<1>8. ASSUME NEW w \in Workers, NEW r \in Rows, Claim(w, r) PROVE KindInv'
  BY <1>8 DEF Claim
<1>9. ASSUME ReadBundle PROVE KindInv'
  BY <1>9 DEF ReadBundle
<1>10. ASSUME NEW w \in Workers, Convert(w) PROVE KindInv'
  BY <1>10 DEF Convert, HasSource
<1>11. ASSUME NEW w \in Workers, ConvertFails(w) PROVE KindInv'
  BY <1>11 DEF ConvertFails, HasSource
<1>12. ASSUME NEW w \in Workers, Finish(w) PROVE KindInv'
  BY <1>12 DEF Finish
<1>13. ASSUME NEW w \in Workers, FinishDeleted(w) PROVE KindInv'
  BY <1>13 DEF FinishDeleted
<1>14. ASSUME NEW w \in Workers, WriteTimesOut(w) PROVE KindInv'
  BY <1>14 DEF WriteTimesOut
<1>15. ASSUME NEW w \in Workers, Cleanup(w) PROVE KindInv'
  BY <1>15 DEF Cleanup
<1>16. ASSUME Crash PROVE KindInv'
  BY <1>16 DEF Crash, Stop, NoRequest
<1>17. ASSUME Shutdown PROVE KindInv'
  BY <1>17 DEF Shutdown, Stop, NoRequest
<1>18. ASSUME Restart PROVE KindInv'
  BY <1>18 DEF Restart
<1>19. ASSUME NEW r \in Rows, NEW form \in Forms(KindOf[r]), UploadFails(r, form) PROVE KindInv'
  BY <1>19 DEF UploadFails, New, SavedArchive, SavedRootfs
<1>. HIDE DEF IInv, TypeOK, KindInv, ReqInv
<1>. QED BY <1>1, <1>2, <1>3, <1>4, <1>5, <1>6, <1>7, <1>8, <1>9, <1>10, <1>11, <1>12,
           <1>13, <1>14, <1>15, <1>16, <1>17, <1>18, <1>19
           DEF Next, Request, Work

\* A row that is to be converted has been told where to.
LEMMA PathStep ==
  ASSUME IInv, Next
  PROVE  PathInv'
<1>. USE RowsAssumption DEF IInv, TypeOK, Versions, KindInv, PathInv, ReqInv, Free,
        Idle, rowVars, Unsettled, Gone, Kinds, Workers
<1>1. ASSUME NEW r \in Rows, NEW form \in Forms(KindOf[r]), Upload(r, form) PROVE PathInv'
  BY <1>1 DEF Upload, New, Forms, WriteRow, Columns, SavedArchive, SavedRootfs
<1>2. ASSUME NEW r \in Rows, OrderBase(r) PROVE PathInv'
  BY <1>2 DEF OrderBase, New, WriteRow
<1>3. ASSUME NEW r \in Rows, NEW form \in Forms(KindOf[r]), BeginUpdate(r, form) PROVE PathInv'
  BY <1>3 DEF BeginUpdate, Forms, Columns, SavedArchive, SavedRootfs, NoRequest
<1>4. ASSUME Commit PROVE PathInv'
  BY <1>4 DEF Commit, WriteRow, NoRequest
<1>5. ASSUME Rollback PROVE PathInv'
  BY <1>5 DEF Rollback, NoRequest
<1>6. ASSUME NEW r \in Rows, DeleteAsset(r) PROVE PathInv'
  BY <1>6 DEF DeleteAsset, BeginDelete, NoRequest
<1>7. ASSUME NEW r \in Rows, DeleteProject(r) PROVE PathInv'
  BY <1>7 DEF DeleteProject, BeginDelete, NoRequest
<1>8. ASSUME NEW w \in Workers, NEW r \in Rows, Claim(w, r) PROVE PathInv'
  BY <1>8 DEF Claim
<1>9. ASSUME ReadBundle PROVE PathInv'
  BY <1>9 DEF ReadBundle
<1>10. ASSUME NEW w \in Workers, Convert(w) PROVE PathInv'
  BY <1>10 DEF Convert, HasSource
<1>11. ASSUME NEW w \in Workers, ConvertFails(w) PROVE PathInv'
  BY <1>11 DEF ConvertFails, HasSource
<1>12. ASSUME NEW w \in Workers, Finish(w) PROVE PathInv'
  BY <1>12 DEF Finish, Serves
<1>13. ASSUME NEW w \in Workers, FinishDeleted(w) PROVE PathInv'
  BY <1>13 DEF FinishDeleted
<1>14. ASSUME NEW w \in Workers, WriteTimesOut(w) PROVE PathInv'
  BY <1>14 DEF WriteTimesOut
<1>15. ASSUME NEW w \in Workers, Cleanup(w) PROVE PathInv'
  BY <1>15 DEF Cleanup
<1>16. ASSUME Crash PROVE PathInv'
  BY <1>16 DEF Crash, Stop, NoRequest
<1>17. ASSUME Shutdown PROVE PathInv'
  BY <1>17 DEF Shutdown, Stop, NoRequest
<1>18. ASSUME Restart PROVE PathInv'
  BY <1>18 DEF Restart
<1>19. ASSUME NEW r \in Rows, NEW form \in Forms(KindOf[r]), UploadFails(r, form) PROVE PathInv'
  BY <1>19 DEF UploadFails, New, SavedArchive, SavedRootfs
<1>. HIDE DEF IInv, TypeOK, KindInv, PathInv, ReqInv
<1>. QED BY <1>1, <1>2, <1>3, <1>4, <1>5, <1>6, <1>7, <1>8, <1>9, <1>10, <1>11, <1>12,
           <1>13, <1>14, <1>15, <1>16, <1>17, <1>18, <1>19
           DEF Next, Request, Work

\* A new version is one above all that came before.
LEMMA VersionStep ==
  ASSUME IInv, Next
  PROVE  VersionInv'
<1>. USE RowsAssumption DEF IInv, TypeOK, Versions, VersionInv, PathInv, KindInv,
        ReqInv, Free, Idle, rowVars, Unsettled, Gone, Kinds, Workers
<1>1. ASSUME NEW r \in Rows, NEW form \in Forms(KindOf[r]), Upload(r, form) PROVE VersionInv'
  BY <1>1 DEF Upload, New, Forms, WriteRow, Columns, SavedArchive, SavedRootfs
<1>2. ASSUME NEW r \in Rows, OrderBase(r) PROVE VersionInv'
  BY <1>2 DEF OrderBase, New, WriteRow
<1>3. ASSUME NEW r \in Rows, NEW form \in Forms(KindOf[r]), BeginUpdate(r, form) PROVE VersionInv'
  BY <1>3 DEF BeginUpdate, Forms, Columns, SavedArchive, SavedRootfs, NoRequest
<1>4. ASSUME Commit PROVE VersionInv'
  BY <1>4 DEF Commit, WriteRow, NoRequest
<1>5. ASSUME Rollback PROVE VersionInv'
  BY <1>5 DEF Rollback, NoRequest
<1>6. ASSUME NEW r \in Rows, DeleteAsset(r) PROVE VersionInv'
  BY <1>6 DEF DeleteAsset, BeginDelete, NoRequest
<1>7. ASSUME NEW r \in Rows, DeleteProject(r) PROVE VersionInv'
  BY <1>7 DEF DeleteProject, BeginDelete, NoRequest
<1>8. ASSUME NEW w \in Workers, NEW r \in Rows, Claim(w, r) PROVE VersionInv'
  BY <1>8 DEF Claim
<1>9. ASSUME ReadBundle PROVE VersionInv'
  BY <1>9 DEF ReadBundle
<1>10. ASSUME NEW w \in Workers, Convert(w) PROVE VersionInv'
  BY <1>10 DEF Convert, HasSource
<1>11. ASSUME NEW w \in Workers, ConvertFails(w) PROVE VersionInv'
  BY <1>11 DEF ConvertFails, HasSource
<1>12. ASSUME NEW w \in Workers, Finish(w) PROVE VersionInv'
  BY <1>12 DEF Finish
<1>13. ASSUME NEW w \in Workers, FinishDeleted(w) PROVE VersionInv'
  BY <1>13 DEF FinishDeleted
<1>14. ASSUME NEW w \in Workers, WriteTimesOut(w) PROVE VersionInv'
  BY <1>14 DEF WriteTimesOut
<1>15. ASSUME NEW w \in Workers, Cleanup(w) PROVE VersionInv'
  BY <1>15 DEF Cleanup
<1>16. ASSUME Crash PROVE VersionInv'
  BY <1>16 DEF Crash, Stop, NoRequest
<1>17. ASSUME Shutdown PROVE VersionInv'
  BY <1>17 DEF Shutdown, Stop, NoRequest
<1>18. ASSUME Restart PROVE VersionInv'
  BY <1>18 DEF Restart
<1>19. ASSUME NEW r \in Rows, NEW form \in Forms(KindOf[r]), UploadFails(r, form) PROVE VersionInv'
  BY <1>19 DEF UploadFails, New, SavedArchive, SavedRootfs
<1>. HIDE DEF IInv, TypeOK, VersionInv, PathInv, KindInv, ReqInv
<1>. QED BY <1>1, <1>2, <1>3, <1>4, <1>5, <1>6, <1>7, <1>8, <1>9, <1>10, <1>11, <1>12,
           <1>13, <1>14, <1>15, <1>16, <1>17, <1>18, <1>19
           DEF Next, Request, Work

\* Whoever changes the row of a job under way marks it overtaken.
LEMMA JobStep ==
  ASSUME IInv, Next
  PROVE  JobInv'
<1>. USE RowsAssumption DEF IInv, TypeOK, KindInv, JobInv, OnJob, Busy, ReqInv, Free,
        Serves, Idle, rowVars, Unsettled, Gone, Kinds, Workers
<1>1. ASSUME NEW r \in Rows, NEW form \in Forms(KindOf[r]), Upload(r, form) PROVE JobInv'
  BY <1>1 DEF Upload, New, Forms, WriteRow, Columns, SavedArchive, SavedRootfs
<1>2. ASSUME NEW r \in Rows, OrderBase(r) PROVE JobInv'
  BY <1>2 DEF OrderBase, New, WriteRow
<1>3. ASSUME NEW r \in Rows, NEW form \in Forms(KindOf[r]), BeginUpdate(r, form) PROVE JobInv'
  BY <1>3 DEF BeginUpdate, Forms, Columns, SavedArchive, SavedRootfs, NoRequest
<1>4. ASSUME Commit PROVE JobInv'
  BY <1>4 DEF Commit, WriteRow, NoRequest
<1>5. ASSUME Rollback PROVE JobInv'
  BY <1>5 DEF Rollback, NoRequest
<1>6. ASSUME NEW r \in Rows, DeleteAsset(r) PROVE JobInv'
  BY <1>6 DEF DeleteAsset, BeginDelete, NoRequest
<1>7. ASSUME NEW r \in Rows, DeleteProject(r) PROVE JobInv'
  BY <1>7 DEF DeleteProject, BeginDelete, NoRequest
<1>8. ASSUME NEW w \in Workers, NEW r \in Rows, Claim(w, r) PROVE JobInv'
  BY <1>8 DEF Claim
<1>9. ASSUME ReadBundle PROVE JobInv'
  BY <1>9 DEF ReadBundle
<1>10. ASSUME NEW w \in Workers, Convert(w) PROVE JobInv'
  BY <1>10 DEF Convert, HasSource
<1>11. ASSUME NEW w \in Workers, ConvertFails(w) PROVE JobInv'
  BY <1>11 DEF ConvertFails, HasSource
<1>12. ASSUME NEW w \in Workers, Finish(w) PROVE JobInv'
  BY <1>12 DEF Finish
<1>13. ASSUME NEW w \in Workers, FinishDeleted(w) PROVE JobInv'
  BY <1>13 DEF FinishDeleted
<1>14. ASSUME NEW w \in Workers, WriteTimesOut(w) PROVE JobInv'
  BY <1>14 DEF WriteTimesOut
<1>15. ASSUME NEW w \in Workers, Cleanup(w) PROVE JobInv'
  BY <1>15 DEF Cleanup
<1>16. ASSUME Crash PROVE JobInv'
  BY <1>16 DEF Crash, Stop, NoRequest
<1>17. ASSUME Shutdown PROVE JobInv'
  BY <1>17 DEF Shutdown, Stop, NoRequest
<1>18. ASSUME Restart PROVE JobInv'
  BY <1>18 DEF Restart
<1>19. ASSUME NEW r \in Rows, NEW form \in Forms(KindOf[r]), UploadFails(r, form) PROVE JobInv'
  BY <1>19 DEF UploadFails, New, SavedArchive, SavedRootfs
<1>. HIDE DEF IInv, TypeOK, KindInv, JobInv, ReqInv
<1>. QED BY <1>1, <1>2, <1>3, <1>4, <1>5, <1>6, <1>7, <1>8, <1>9, <1>10, <1>11, <1>12,
           <1>13, <1>14, <1>15, <1>16, <1>17, <1>18, <1>19
           DEF Next, Request, Work

\* An update exchanges all files of its row.
LEMMA ReqStep ==
  ASSUME IInv, Next
  PROVE  ReqInv'
<1>. USE RowsAssumption DEF IInv, TypeOK, Versions, KindInv, FilesInv, Settled, Busy,
        ReqInv, Free, Idle, rowVars, Unsettled, Gone, Kinds, Workers
<1>1. ASSUME NEW r \in Rows, NEW form \in Forms(KindOf[r]), Upload(r, form) PROVE ReqInv'
  BY <1>1 DEF Upload, New, Forms, WriteRow, Columns, SavedArchive, SavedRootfs
<1>2. ASSUME NEW r \in Rows, OrderBase(r) PROVE ReqInv'
  BY <1>2 DEF OrderBase, New, WriteRow
<1>3. ASSUME NEW r \in Rows, NEW form \in Forms(KindOf[r]), BeginUpdate(r, form) PROVE ReqInv'
  <2>. DEFINE v == latest[r] + 1
              new == Columns(r, form, v)
  <2>1. v \in Versions /\ v # 0 /\ r # NoRow
    BY <1>3 DEF BeginUpdate
  <2>2. /\ req' = new /\ UNCHANGED <<conv, source, path, wk, torn>>
        /\ archives' = (archives \cup SavedArchive(r, form, v)) \ {<<r, source[r]>>}
        /\ rootfs' = (rootfs \cup SavedRootfs(r, form, v)) \ {<<r, path[r]>>}
        /\ overtaken' = IF Busy(r) THEN overtaken \cup {r} ELSE overtaken
        /\ KindOf[r] \in {"os", "compose"} /\ conv[r] \notin Gone /\ req = NoRequest
        /\ source[r] # v /\ path[r] # v /\ r \in Rows
    BY <1>3 DEF BeginUpdate, VersionInv
  <2>3. /\ new.row = r /\ new.conv \in {"ready", "pending"}
        /\ new.conv = "pending" => form = "archive" /\ new.source = v /\ new.path = v
        /\ new.conv = "ready" => new.source = 0 /\ form # "archive"
        /\ form = "ext4" => new.path = v
        /\ form = "default" => new.path = 0
        /\ KindOf[r] = "compose" => form = "archive"
    BY <1>3 DEF Columns, Forms, BeginUpdate
  <2>4. form \in {"archive", "ext4", "default"}
    BY <1>3 DEF Forms, BeginUpdate
  <2>5. r \notin overtaken' => ~Busy(r)' /\ ~Busy(r)
    BY <2>2
  <2>6. ASSUME r \notin overtaken' \cup torn
        PROVE  /\ \A u \in Versions : <<r, u>> \in rootfs => u = path[r]
               /\ \A u \in Versions : <<r, u>> \in archives => u = source[r]
    BY <2>1, <2>2, <2>5, <2>6 DEF NoRequest
  <2>7. ASSUME r \notin overtaken' \cup torn
        PROVE  /\ form = "archive" => <<r, v>> \in archives'
               /\ form = "ext4" => <<r, v>> \in rootfs'
               /\ \A u \in Versions : <<r, u>> \in rootfs' => form = "ext4" /\ u = v
               /\ \A u \in Versions : <<r, u>> \in archives' => form = "archive" /\ u = v
    BY <2>1, <2>2, <2>6, <2>7 DEF SavedArchive, SavedRootfs
  <2>8. conv'[r] \notin Gone /\ (r \notin overtaken' => ~Busy(r)')
    BY <2>2, <2>5
  <2>9. /\ new.conv # "deleted"
        /\ new.conv = "pending" \/ KindOf[r] = "compose" => new.path # 0
    BY <2>1, <2>3
  <2>10. ASSUME r \notin overtaken' \cup torn'
         PROVE  /\ new.conv = "ready" => new.path = 0 \/ <<r, new.path>> \in rootfs'
                /\ new.conv = "pending" => <<r, new.source>> \in archives'
                /\ \A u \in Versions : <<r, u>> \in rootfs' => new.path = u
                /\ \A u \in Versions : <<r, u>> \in archives' => new.source = u
    BY <2>1, <2>2, <2>3, <2>4, <2>7, <2>10
  <2>. HIDE DEF v, new
  <2>. QED BY <2>2, <2>3, <2>8, <2>9, <2>10
<1>4. ASSUME Commit PROVE ReqInv'
  BY <1>4 DEF Commit, WriteRow, NoRequest
<1>5. ASSUME Rollback PROVE ReqInv'
  BY <1>5 DEF Rollback, NoRequest
<1>6. ASSUME NEW r \in Rows, DeleteAsset(r) PROVE ReqInv'
  BY <1>6 DEF DeleteAsset, BeginDelete, NoRequest
<1>7. ASSUME NEW r \in Rows, DeleteProject(r) PROVE ReqInv'
  BY <1>7 DEF DeleteProject, BeginDelete, NoRequest
<1>8. ASSUME NEW w \in Workers, NEW r \in Rows, Claim(w, r) PROVE ReqInv'
  BY <1>8 DEF Claim
<1>9. ASSUME ReadBundle PROVE ReqInv'
  BY <1>9 DEF ReadBundle
<1>10. ASSUME NEW w \in Workers, Convert(w) PROVE ReqInv'
  BY <1>10 DEF Convert, HasSource
<1>11. ASSUME NEW w \in Workers, ConvertFails(w) PROVE ReqInv'
  BY <1>11 DEF ConvertFails, HasSource
<1>12. ASSUME NEW w \in Workers, Finish(w) PROVE ReqInv'
  BY <1>12 DEF Finish
<1>13. ASSUME NEW w \in Workers, FinishDeleted(w) PROVE ReqInv'
  BY <1>13 DEF FinishDeleted
<1>14. ASSUME NEW w \in Workers, WriteTimesOut(w) PROVE ReqInv'
  BY <1>14 DEF WriteTimesOut
<1>15. ASSUME NEW w \in Workers, Cleanup(w) PROVE ReqInv'
  BY <1>15 DEF Cleanup
<1>16. ASSUME Crash PROVE ReqInv'
  BY <1>16 DEF Crash, Stop, NoRequest
<1>17. ASSUME Shutdown PROVE ReqInv'
  BY <1>17 DEF Shutdown, Stop, NoRequest
<1>18. ASSUME Restart PROVE ReqInv'
  BY <1>18 DEF Restart
<1>19. ASSUME NEW r \in Rows, NEW form \in Forms(KindOf[r]), UploadFails(r, form) PROVE ReqInv'
  BY <1>19 DEF UploadFails, New, SavedArchive, SavedRootfs
<1>. HIDE DEF IInv, TypeOK, KindInv, FilesInv, ReqInv
<1>. QED BY <1>1, <1>2, <1>3, <1>4, <1>5, <1>6, <1>7, <1>8, <1>9, <1>10, <1>11, <1>12,
           <1>13, <1>14, <1>15, <1>16, <1>17, <1>18, <1>19
           DEF Next, Request, Work

\* Files come and go with the columns that name them.
LEMMA FilesStep ==
  ASSUME IInv, Next
  PROVE  FilesInv'
<1>. USE RowsAssumption DEF IInv, TypeOK, Versions, Named, KindInv, PathInv, JobInv,
        OnJob, FilesInv, Settled, Busy, ReqInv, Free, Idle, rowVars, Unsettled, Gone,
        Kinds, Workers
<1>1. ASSUME NEW r \in Rows, NEW form \in Forms(KindOf[r]), Upload(r, form) PROVE FilesInv'
  BY <1>1 DEF Upload, New, Forms, WriteRow, Columns, SavedArchive, SavedRootfs
<1>2. ASSUME NEW r \in Rows, OrderBase(r) PROVE FilesInv'
  BY <1>2 DEF OrderBase, New, WriteRow
<1>3. ASSUME NEW r \in Rows, NEW form \in Forms(KindOf[r]), BeginUpdate(r, form) PROVE FilesInv'
  BY <1>3 DEF BeginUpdate, Forms, Columns, SavedArchive, SavedRootfs, NoRequest
<1>4. ASSUME Commit PROVE FilesInv'
  BY <1>4 DEF Commit, WriteRow, NoRequest
<1>5. ASSUME Rollback PROVE FilesInv'
  BY <1>5 DEF Rollback, NoRequest
<1>6. ASSUME NEW r \in Rows, DeleteAsset(r) PROVE FilesInv'
  BY <1>6 DEF DeleteAsset, BeginDelete, NoRequest
<1>7. ASSUME NEW r \in Rows, DeleteProject(r) PROVE FilesInv'
  BY <1>7 DEF DeleteProject, BeginDelete, NoRequest
<1>8. ASSUME NEW w \in Workers, NEW r \in Rows, Claim(w, r) PROVE FilesInv'
  BY <1>8 DEF Claim
<1>9. ASSUME ReadBundle PROVE FilesInv'
  BY <1>9 DEF ReadBundle
<1>10. ASSUME NEW w \in Workers, Convert(w) PROVE FilesInv'
  BY <1>10 DEF Convert, HasSource
<1>11. ASSUME NEW w \in Workers, ConvertFails(w) PROVE FilesInv'
  BY <1>11 DEF ConvertFails, HasSource
<1>12. ASSUME NEW w \in Workers, Finish(w) PROVE FilesInv'
  BY <1>12 DEF Finish, Serves
<1>13. ASSUME NEW w \in Workers, FinishDeleted(w) PROVE FilesInv'
  BY <1>13 DEF FinishDeleted
<1>14. ASSUME NEW w \in Workers, WriteTimesOut(w) PROVE FilesInv'
  BY <1>14 DEF WriteTimesOut
<1>15. ASSUME NEW w \in Workers, Cleanup(w) PROVE FilesInv'
  BY <1>15 DEF Cleanup
<1>16. ASSUME Crash PROVE FilesInv'
  BY <1>16 DEF Crash, Stop, NoRequest
<1>17. ASSUME Shutdown PROVE FilesInv'
  BY <1>17 DEF Shutdown, Stop, NoRequest
<1>18. ASSUME Restart PROVE FilesInv'
  BY <1>18 DEF Restart
<1>19. ASSUME NEW r \in Rows, NEW form \in Forms(KindOf[r]), UploadFails(r, form) PROVE FilesInv'
  BY <1>19 DEF UploadFails, New, SavedArchive, SavedRootfs
<1>. HIDE DEF IInv, TypeOK, KindInv, PathInv, JobInv, FilesInv, ReqInv
<1>. QED BY <1>1, <1>2, <1>3, <1>4, <1>5, <1>6, <1>7, <1>8, <1>9, <1>10, <1>11, <1>12,
           <1>13, <1>14, <1>15, <1>16, <1>17, <1>18, <1>19
           DEF Next, Request, Work

\* Only a job that has built its file makes a row ready, and nobody removes it.
LEMMA ReadyStep ==
  ASSUME IInv, Next
  PROVE  ReadyIsBuilt'
<1>. USE RowsAssumption DEF IInv, TypeOK, KindInv, JobInv, OnJob, ReadyIsBuilt,
        Settled, Busy, ReqInv, Free, Idle, rowVars, Unsettled, Gone, Kinds, Workers
<1>1. ASSUME NEW r \in Rows, NEW form \in Forms(KindOf[r]), Upload(r, form) PROVE ReadyIsBuilt'
  BY <1>1 DEF Upload, New, Forms, WriteRow, Columns, SavedArchive, SavedRootfs
<1>2. ASSUME NEW r \in Rows, OrderBase(r) PROVE ReadyIsBuilt'
  BY <1>2 DEF OrderBase, New, WriteRow
<1>3. ASSUME NEW r \in Rows, NEW form \in Forms(KindOf[r]), BeginUpdate(r, form) PROVE ReadyIsBuilt'
  BY <1>3 DEF BeginUpdate, Forms, Columns, SavedArchive, SavedRootfs, NoRequest
<1>4. ASSUME Commit PROVE ReadyIsBuilt'
  BY <1>4 DEF Commit, WriteRow, NoRequest
<1>5. ASSUME Rollback PROVE ReadyIsBuilt'
  BY <1>5 DEF Rollback, NoRequest
<1>6. ASSUME NEW r \in Rows, DeleteAsset(r) PROVE ReadyIsBuilt'
  BY <1>6 DEF DeleteAsset, BeginDelete, NoRequest
<1>7. ASSUME NEW r \in Rows, DeleteProject(r) PROVE ReadyIsBuilt'
  BY <1>7 DEF DeleteProject, BeginDelete, NoRequest
<1>8. ASSUME NEW w \in Workers, NEW r \in Rows, Claim(w, r) PROVE ReadyIsBuilt'
  BY <1>8 DEF Claim
<1>9. ASSUME ReadBundle PROVE ReadyIsBuilt'
  BY <1>9 DEF ReadBundle
<1>10. ASSUME NEW w \in Workers, Convert(w) PROVE ReadyIsBuilt'
  BY <1>10 DEF Convert, HasSource
<1>11. ASSUME NEW w \in Workers, ConvertFails(w) PROVE ReadyIsBuilt'
  BY <1>11 DEF ConvertFails, HasSource
<1>12. ASSUME NEW w \in Workers, Finish(w) PROVE ReadyIsBuilt'
  BY <1>12 DEF Finish
<1>13. ASSUME NEW w \in Workers, FinishDeleted(w) PROVE ReadyIsBuilt'
  BY <1>13 DEF FinishDeleted
<1>14. ASSUME NEW w \in Workers, WriteTimesOut(w) PROVE ReadyIsBuilt'
  BY <1>14 DEF WriteTimesOut
<1>15. ASSUME NEW w \in Workers, Cleanup(w) PROVE ReadyIsBuilt'
  BY <1>15 DEF Cleanup
<1>16. ASSUME Crash PROVE ReadyIsBuilt'
  BY <1>16 DEF Crash, Stop, NoRequest
<1>17. ASSUME Shutdown PROVE ReadyIsBuilt'
  BY <1>17 DEF Shutdown, Stop, NoRequest
<1>18. ASSUME Restart PROVE ReadyIsBuilt'
  BY <1>18 DEF Restart
<1>19. ASSUME NEW r \in Rows, NEW form \in Forms(KindOf[r]), UploadFails(r, form) PROVE ReadyIsBuilt'
  BY <1>19 DEF UploadFails, New, SavedArchive, SavedRootfs
<1>. HIDE DEF IInv, TypeOK, KindInv, JobInv, ReadyIsBuilt, ReqInv
<1>. QED BY <1>1, <1>2, <1>3, <1>4, <1>5, <1>6, <1>7, <1>8, <1>9, <1>10, <1>11, <1>12,
           <1>13, <1>14, <1>15, <1>16, <1>17, <1>18, <1>19
           DEF Next, Request, Work

\* A bundle is removed when its outcome is recorded, not before.
LEMMA BundleStep ==
  ASSUME IInv, Next
  PROVE  BundleKeepsSource'
<1>. USE RowsAssumption DEF IInv, TypeOK, KindInv, Serves, JobInv, OnJob,
        BundleKeepsSource, Settled, Busy, ReqInv, Free, Idle, rowVars, Unsettled,
        Gone, Kinds, Workers
<1>1. ASSUME NEW r \in Rows, NEW form \in Forms(KindOf[r]), Upload(r, form) PROVE BundleKeepsSource'
  BY <1>1 DEF Upload, New, Forms, WriteRow, Columns, SavedArchive, SavedRootfs
<1>2. ASSUME NEW r \in Rows, OrderBase(r) PROVE BundleKeepsSource'
  BY <1>2 DEF OrderBase, New, WriteRow
<1>3. ASSUME NEW r \in Rows, NEW form \in Forms(KindOf[r]), BeginUpdate(r, form) PROVE BundleKeepsSource'
  BY <1>3 DEF BeginUpdate, Forms, Columns, SavedArchive, SavedRootfs, NoRequest
<1>4. ASSUME Commit PROVE BundleKeepsSource'
  BY <1>4 DEF Commit, WriteRow, NoRequest
<1>5. ASSUME Rollback PROVE BundleKeepsSource'
  BY <1>5 DEF Rollback, NoRequest
<1>6. ASSUME NEW r \in Rows, DeleteAsset(r) PROVE BundleKeepsSource'
  BY <1>6 DEF DeleteAsset, BeginDelete, NoRequest
<1>7. ASSUME NEW r \in Rows, DeleteProject(r) PROVE BundleKeepsSource'
  BY <1>7 DEF DeleteProject, BeginDelete, NoRequest
<1>8. ASSUME NEW w \in Workers, NEW r \in Rows, Claim(w, r) PROVE BundleKeepsSource'
  BY <1>8 DEF Claim
<1>9. ASSUME ReadBundle PROVE BundleKeepsSource'
  BY <1>9 DEF ReadBundle
<1>10. ASSUME NEW w \in Workers, Convert(w) PROVE BundleKeepsSource'
  BY <1>10 DEF Convert, HasSource
<1>11. ASSUME NEW w \in Workers, ConvertFails(w) PROVE BundleKeepsSource'
  BY <1>11 DEF ConvertFails, HasSource
<1>12. ASSUME NEW w \in Workers, Finish(w) PROVE BundleKeepsSource'
  BY <1>12 DEF Finish
<1>13. ASSUME NEW w \in Workers, FinishDeleted(w) PROVE BundleKeepsSource'
  BY <1>13 DEF FinishDeleted
<1>14. ASSUME NEW w \in Workers, WriteTimesOut(w) PROVE BundleKeepsSource'
  BY <1>14 DEF WriteTimesOut
<1>15. ASSUME NEW w \in Workers, Cleanup(w) PROVE BundleKeepsSource'
  BY <1>15 DEF Cleanup
<1>16. ASSUME Crash PROVE BundleKeepsSource'
  BY <1>16 DEF Crash, Stop, NoRequest
<1>17. ASSUME Shutdown PROVE BundleKeepsSource'
  BY <1>17 DEF Shutdown, Stop, NoRequest
<1>18. ASSUME Restart PROVE BundleKeepsSource'
  BY <1>18 DEF Restart
<1>19. ASSUME NEW r \in Rows, NEW form \in Forms(KindOf[r]), UploadFails(r, form) PROVE BundleKeepsSource'
  BY <1>19 DEF UploadFails, New, SavedArchive, SavedRootfs
<1>. HIDE DEF IInv, TypeOK, KindInv, JobInv, BundleKeepsSource, ReqInv
<1>. QED BY <1>1, <1>2, <1>3, <1>4, <1>5, <1>6, <1>7, <1>8, <1>9, <1>10, <1>11, <1>12,
           <1>13, <1>14, <1>15, <1>16, <1>17, <1>18, <1>19
           DEF Next, Request, Work

-----------------------------------------------------------------------------
(* The theorems. *)

LEMMA Invariant == Spec => []IInv
<1>1. Init => IInv
  <2>. SUFFICES ASSUME Init PROVE IInv
    OBVIOUS
  <2>1. TypeOK
    BY RowsAssumption DEF Init, TypeOK, Versions, Idle, Gone, NoRequest
  <2>2. KindInv /\ PathInv /\ VersionInv /\ JobInv /\ ReqInv
    BY RowsAssumption DEF Init, KindInv, PathInv, VersionInv, JobInv, ReqInv, OnJob, Idle,
       Unsettled, Gone, Workers
  <2>3. FilesInv /\ ReadyIsBuilt /\ BundleKeepsSource
    BY DEF Init, FilesInv, ReadyIsBuilt, BundleKeepsSource, Settled, Unsettled
  <2>. QED BY <2>1, <2>2, <2>3 DEF IInv
<1>2. IInv /\ [Next]_vars => IInv'
  <2>1. CASE Next
    BY <2>1, TypeStep, KindStep, PathStep, VersionStep, JobStep, ReqStep, FilesStep,
       ReadyStep, BundleStep DEF IInv
  <2>2. CASE UNCHANGED vars
    BY <2>2 DEF vars, IInv, TypeOK, KindInv, PathInv, VersionInv, JobInv, ReqInv, FilesInv,
       ReadyIsBuilt, BundleKeepsSource, Settled, Busy
  <2>. QED BY <2>1, <2>2
<1>. QED BY <1>1, <1>2, PTL DEF Spec

\* Every variable keeps its type.
THEOREM TypeCorrect == Spec => []TypeOK
BY Invariant, PTL DEF IInv

\* Whatever a start may boot is on disk: conversions and deletions of other rows,
\* failures, timeouts and crashes take no file from a ready row.
THEOREM ReadyRowsAreBuilt == Spec => []ReadyIsBuilt
BY Invariant, PTL DEF IInv

\* A bundle whose build was interrupted, however often, can be built again.
THEOREM BundlesKeepTheirSource == Spec => []BundleKeepsSource
BY Invariant, PTL DEF IInv

\* Failed conversions, exchanged and deleted rows leave no file that no row names.
THEOREM FilesAreNamed == Spec => []NoStrayFiles
<1>1. IInv => NoStrayFiles
  BY DEF IInv, FilesInv, NoStrayFiles, Busy
<1>. QED BY <1>1, Invariant, PTL

-----------------------------------------------------------------------------
(* Where the write lock is always to be had in time, no row is forgotten. *)

HasWorker ==
  \A r \in Rows : up /\ conv[r] = "converting" =>
    \E w \in Workers : wk[w].row = r /\ wk[w].at \in OnJob

\* A row is converting from its claim until its worker records the outcome.
LEMMA HasWorkerStep ==
  ASSUME IInv, HasWorker, "db_busy" \notin Faults, Next
  PROVE  HasWorker'
<1>. USE RowsAssumption DEF IInv, TypeOK, KindInv, ReqInv, HasWorker, OnJob, Free,
        Serves, Idle, rowVars, Unsettled, Gone, Kinds, Workers
<1>1. ASSUME NEW r \in Rows, NEW form \in Forms(KindOf[r]), Upload(r, form) PROVE HasWorker'
  BY <1>1 DEF Upload, New, Forms, WriteRow, Columns, SavedArchive, SavedRootfs
<1>2. ASSUME NEW r \in Rows, OrderBase(r) PROVE HasWorker'
  BY <1>2 DEF OrderBase, New, WriteRow
<1>3. ASSUME NEW r \in Rows, NEW form \in Forms(KindOf[r]), BeginUpdate(r, form) PROVE HasWorker'
  BY <1>3 DEF BeginUpdate, Forms, Columns, SavedArchive, SavedRootfs, NoRequest
<1>4. ASSUME Commit PROVE HasWorker'
  BY <1>4 DEF Commit, WriteRow, NoRequest
<1>5. ASSUME Rollback PROVE HasWorker'
  BY <1>5 DEF Rollback, NoRequest
<1>6. ASSUME NEW r \in Rows, DeleteAsset(r) PROVE HasWorker'
  BY <1>6 DEF DeleteAsset, BeginDelete, NoRequest
<1>7. ASSUME NEW r \in Rows, DeleteProject(r) PROVE HasWorker'
  BY <1>7 DEF DeleteProject, BeginDelete, NoRequest
<1>8. ASSUME NEW w \in Workers, NEW r \in Rows, Claim(w, r) PROVE HasWorker'
  BY <1>8 DEF Claim
<1>9. ASSUME ReadBundle PROVE HasWorker'
  BY <1>9 DEF ReadBundle
<1>10. ASSUME NEW w \in Workers, Convert(w) PROVE HasWorker'
  BY <1>10 DEF Convert, HasSource
<1>11. ASSUME NEW w \in Workers, ConvertFails(w) PROVE HasWorker'
  BY <1>11 DEF ConvertFails, HasSource
<1>12. ASSUME NEW w \in Workers, Finish(w) PROVE HasWorker'
  BY <1>12 DEF Finish
<1>13. ASSUME NEW w \in Workers, FinishDeleted(w) PROVE HasWorker'
  BY <1>13 DEF FinishDeleted
<1>14. ASSUME NEW w \in Workers, WriteTimesOut(w) PROVE HasWorker'
  BY <1>14 DEF WriteTimesOut
<1>15. ASSUME NEW w \in Workers, Cleanup(w) PROVE HasWorker'
  BY <1>15 DEF Cleanup
<1>16. ASSUME Crash PROVE HasWorker'
  BY <1>16 DEF Crash, Stop, NoRequest
<1>17. ASSUME Shutdown PROVE HasWorker'
  BY <1>17 DEF Shutdown, Stop, NoRequest
<1>18. ASSUME Restart PROVE HasWorker'
  BY <1>18 DEF Restart
<1>19. ASSUME NEW r \in Rows, NEW form \in Forms(KindOf[r]), UploadFails(r, form) PROVE HasWorker'
  BY <1>19 DEF UploadFails, New, SavedArchive, SavedRootfs
<1>. HIDE DEF IInv, TypeOK, KindInv, ReqInv
<1>. QED BY <1>1, <1>2, <1>3, <1>4, <1>5, <1>6, <1>7, <1>8, <1>9, <1>10, <1>11, <1>12,
           <1>13, <1>14, <1>15, <1>16, <1>17, <1>18, <1>19
           DEF Next, Request, Work

\* `converting' means that a worker is on the row, if no record of an outcome times out: a
\* crash or a shutdown at any point leaves none behind.
THEOREM ConvertingIsWorkedOn ==
  ASSUME "db_busy" \notin Faults
  PROVE  Spec => []ConvertingHasWorker
<1>1. Init => HasWorker
  BY DEF Init, HasWorker
<1>2. IInv /\ HasWorker /\ [Next]_vars => HasWorker'
  <2>1. CASE Next
    BY <2>1, HasWorkerStep
  <2>2. CASE UNCHANGED vars
    BY <2>2 DEF vars, HasWorker
  <2>. QED BY <2>1, <2>2
<1>3. HasWorker => ConvertingHasWorker
  BY DEF HasWorker, ConvertingHasWorker, Busy
<1>. QED BY <1>1, <1>2, <1>3, Invariant, PTL DEF Spec

-----------------------------------------------------------------------------
(* Refinement of JobQueue.                                                  *)

\* The state and the work that rows and workers stand for.
StateOf == [r \in Rows |-> NameOf[conv[r]]]
JobOf   == [w \in Workers |-> IF wk[w].at \in OnJob THEN wk[w].row ELSE NoRow]

\* If no update meets a running job: the row of a job is converting or deleted, and a row
\* that is being updated has none.
UnmovedInv ==
  /\ \A w \in Workers : wk[w].at \in OnJob => conv[wk[w].row] \in {"converting", "deleted"}
  /\ req.conv \in {"ready", "pending"} => ~Busy(req.row)

\* Nobody but its worker changes the row of a job, save to delete it.
LEMMA UnmovedStep ==
  ASSUME IInv, UnmovedInv, "overtake" \notin Requests, [Next]_vars
  PROVE  UnmovedInv'
<1>. USE RowsAssumption DEF IInv, TypeOK, KindInv, UnmovedInv, Busy, OnJob, Serves, Free,
        Idle, Gone, Unsettled, Workers, rowVars
<1>1. ASSUME NEW r \in Rows, NEW form \in Forms(KindOf[r]), Upload(r, form) PROVE UnmovedInv'
  BY <1>1 DEF Upload, New, WriteRow, Columns, NoRequest
<1>2. ASSUME NEW r \in Rows, OrderBase(r) PROVE UnmovedInv'
  BY <1>2 DEF OrderBase, New, WriteRow, NoRequest
<1>3. ASSUME NEW r \in Rows, NEW form \in Forms(KindOf[r]), BeginUpdate(r, form) PROVE UnmovedInv'
  BY <1>3 DEF BeginUpdate, Columns
<1>4. ASSUME Commit PROVE UnmovedInv'
  BY <1>4 DEF Commit, WriteRow, NoRequest
<1>5. ASSUME Rollback PROVE UnmovedInv'
  BY <1>5 DEF Rollback, NoRequest
<1>6. ASSUME NEW r \in Rows, DeleteAsset(r) \/ DeleteProject(r) PROVE UnmovedInv'
  BY <1>6 DEF DeleteAsset, DeleteProject, BeginDelete, NoRequest
<1>7. ASSUME NEW w \in Workers, NEW r \in Rows, Claim(w, r) PROVE UnmovedInv'
  BY <1>7 DEF Claim, NoRequest
<1>8. ASSUME NEW w \in Workers, Finish(w) PROVE UnmovedInv'
  BY <1>8 DEF Finish, NoRequest
<1>9. ASSUME NEW w \in Workers,
             \/ w = "bundle" /\ ReadBundle
             \/ Convert(w) \/ ConvertFails(w) \/ FinishDeleted(w) \/ WriteTimesOut(w) \/ Cleanup(w)
      PROVE  UnmovedInv'
  <2>1. UNCHANGED <<conv, req>> /\ \A v \in Workers \ {w} : wk'[v] = wk[v]
    BY <1>9 DEF ReadBundle, Convert, ConvertFails, FinishDeleted, WriteTimesOut, Cleanup
  <2>2. \/ wk'[w].at \notin OnJob /\ (wk'[w].row = wk[w].row \/ wk'[w].row = NoRow)
        \/ wk[w].at \in OnJob /\ wk'[w].row = wk[w].row
    BY <1>9 DEF ReadBundle, Convert, ConvertFails, FinishDeleted, WriteTimesOut, Cleanup
  <2>. QED BY <2>1, <2>2 DEF NoRequest
<1>10. CASE Crash \/ Shutdown
  BY <1>10 DEF Crash, Shutdown, Stop, NoRequest
<1>11. CASE Restart
  BY <1>11 DEF Restart
<1>12. CASE UNCHANGED vars
  BY <1>12 DEF vars
<1>13. ASSUME NEW r \in Rows, NEW form \in Forms(KindOf[r]), UploadFails(r, form) PROVE UnmovedInv'
  BY <1>13 DEF UploadFails
<1>. HIDE DEF IInv, TypeOK, KindInv, UnmovedInv
<1>. QED BY <1>1, <1>2, <1>3, <1>4, <1>5, <1>6, <1>7, <1>8, <1>9, <1>10, <1>11, <1>12, <1>13
           DEF Next, Request, Work

\* A column that is written names the state of its row, and of no other.
LEMMA StateChange ==
  ASSUME TypeOK, NEW r \in Rows, NEW c \in Unsettled \cup Gone \cup {"ready", "failed"},
         conv' = [conv EXCEPT ![r] = c]
  PROVE  StateOf' = [StateOf EXCEPT ![r] = NameOf[c]]
BY DEF TypeOK, StateOf

\* So does a worker that begins or ends a job.
LEMMA JobChange ==
  ASSUME TypeOK, NEW w \in Workers, \A v \in Workers \ {w} : wk'[v] = wk[v]
  PROVE  JobOf' = [JobOf EXCEPT ![w] = IF wk'[w].at \in OnJob THEN wk'[w].row ELSE NoRow]
BY DEF JobOf, OnJob

\* Who is on a job has a row, and the row is being converted or was deleted.
LEMMA OnJobRow ==
  ASSUME IInv, UnmovedInv, NEW w \in Workers, wk[w].at \in OnJob
  PROVE  /\ wk[w].row \in Rows /\ wk[w].row # NoRow /\ JobOf[w] = wk[w].row
         /\ conv[wk[w].row] \in {"converting", "deleted"}
<1>1. wk[w].row \in Rows
  BY DEF IInv, TypeOK, OnJob, Idle
<1>2. conv[wk[w].row] \in {"converting", "deleted"}
  BY DEF UnmovedInv
<1>. QED BY <1>1, <1>2, RowsAssumption DEF JobOf

\* Clients' requests are steps of the queue, or none.
LEMMA RequestQueue ==
  ASSUME IInv, UnmovedInv, "overtake" \notin Requests, Request
  PROVE  [Queue!QueueNext]_(Queue!queueVars)
<1>0. TypeOK
  BY DEF IInv
<1>1. ASSUME NEW r \in Rows, NEW c \in {"pending", "ready"}, wk' = wk,
             conv[r] # "deleted", \A w \in Workers : JobOf[w] # r,
             conv' = [conv EXCEPT ![r] = c]
      PROVE  Queue!Submit(r)
  <2>1. StateOf' = [StateOf EXCEPT ![r] = NameOf[c]] /\ NameOf[c] \in {"waiting", "ready"}
    <3>1. StateOf' = [StateOf EXCEPT ![r] = NameOf[c]]
      BY <1>0, <1>1, StateChange DEF Unsettled
    <3>. QED BY <3>1 DEF NameOf
  <2>2. JobOf' = JobOf /\ StateOf[r] # "gone"
    BY <1>0, <1>1 DEF JobOf, StateOf, NameOf, TypeOK, Unsettled, Gone
  <2>. QED BY <1>1, <2>1, <2>2 DEF Queue!Submit, StateOf, JobOf, NameOf
<1>2. ASSUME NEW r \in Rows, conv[r] \notin Gone, wk' = wk,
             conv' = [conv EXCEPT ![r] = "deleted"]
      PROVE  Queue!Remove(r)
  <2>1. StateOf' = [StateOf EXCEPT ![r] = "gone"] /\ JobOf' = JobOf
    <3>1. StateOf' = [StateOf EXCEPT ![r] = NameOf["deleted"]]
      BY <1>0, <1>2, StateChange DEF Gone
    <3>. QED BY <1>2, <3>1 DEF NameOf, JobOf
  <2>2. StateOf[r] \notin {"none", "gone"}
    BY <1>0, <1>2 DEF StateOf, NameOf, TypeOK, Unsettled, Gone
  <2>. QED BY <2>1, <2>2 DEF Queue!Remove, StateOf, JobOf, NameOf
<1>3. ASSUME NEW r \in Rows, conv[r] = "absent"
      PROVE  \A w \in Workers : JobOf[w] # r
  BY <1>3, RowsAssumption DEF IInv, TypeOK, KindInv, JobOf, OnJob, Idle
<1>4. ASSUME NEW r \in Rows, NEW form \in Forms(KindOf[r]), Upload(r, form)
      PROVE  Queue!QueueNext
  <2>1. \E c \in {"pending", "ready"} : conv' = [conv EXCEPT ![r] = c]
    BY <1>4 DEF Upload, New, WriteRow, Columns
  <2>. QED BY <1>1, <1>3, <1>4, <2>1 DEF Upload, New, Queue!QueueNext
<1>5. ASSUME NEW r \in Rows, OrderBase(r) PROVE Queue!QueueNext
  BY <1>1, <1>3, <1>5 DEF OrderBase, New, WriteRow, Queue!QueueNext
<1>6. ASSUME Commit PROVE Queue!QueueNext
  <2>1. /\ req.row \in Rows /\ req.row # NoRow /\ conv[req.row] \notin Gone
        /\ req.conv \in {"pending", "ready", "deleted"}
    BY <1>6, RowsAssumption DEF Commit, IInv, TypeOK, ReqInv, NoRequest, Gone
  <2>2. conv' = [conv EXCEPT ![req.row] = req.conv] /\ wk' = wk
    BY <1>6 DEF Commit, WriteRow
  <2>3. CASE req.conv = "deleted"
    BY <1>2, <2>1, <2>2, <2>3 DEF Queue!QueueNext
  <2>4. CASE req.conv \in {"pending", "ready"}
    <3>1. \A w \in Workers : JobOf[w] # req.row
      BY <2>1, <2>4 DEF JobOf, Busy, UnmovedInv
    <3>. QED BY <1>1, <2>1, <2>2, <2>4, <3>1 DEF Gone, Queue!QueueNext
  <2>. QED BY <2>1, <2>3, <2>4
<1>7. ASSUME UNCHANGED <<conv, wk>> PROVE UNCHANGED Queue!queueVars
  BY <1>7 DEF Queue!queueVars
<1>8. ASSUME NEW r \in Rows, NEW form \in Forms(KindOf[r]),
             BeginUpdate(r, form) \/ UploadFails(r, form)
      PROVE  UNCHANGED <<conv, wk>>
  BY <1>8 DEF BeginUpdate, UploadFails
<1>9. ASSUME NEW r \in Rows, DeleteAsset(r) \/ DeleteProject(r) PROVE UNCHANGED <<conv, wk>>
  BY <1>9 DEF DeleteAsset, DeleteProject, BeginDelete, rowVars
<1>10. CASE Rollback
  BY <1>7, <1>10 DEF Rollback, rowVars
<1>. QED BY <1>4, <1>5, <1>6, <1>7, <1>8, <1>9, <1>10 DEF Request

\* So are the steps of a worker.
LEMMA WorkQueue ==
  ASSUME IInv, UnmovedInv, NEW w \in Workers, Work(w)
  PROVE  [Queue!QueueNext]_(Queue!queueVars)
<1>0. TypeOK
  BY DEF IInv
<1>1. ASSUME UNCHANGED <<conv, JobOf>> PROVE UNCHANGED Queue!queueVars
  BY <1>1 DEF Queue!queueVars, JobOf
<1>2. ASSUME wk[w].at \in OnJob, conv' = conv, \A v \in Workers \ {w} : wk'[v] = wk[v],
             wk'[w].at \notin OnJob
      PROVE  Queue!QueueNext
  <2>1. JobOf' = [JobOf EXCEPT ![w] = NoRow] /\ StateOf' = StateOf
    BY <1>0, <1>2, JobChange DEF StateOf
  <2>2. JobOf[w] # NoRow
    BY <1>2, OnJobRow
  <2>3. Queue!Abandon(w)
    BY <2>1, <2>2 DEF Queue!Abandon, Queue!Idlers, StateOf, JobOf, NameOf
  <2>. QED BY <2>3 DEF Queue!QueueNext
<1>3. ASSUME conv' = conv, \A v \in Workers \ {w} : wk'[v] = wk[v],
             \/ {wk[w].at, wk'[w].at} \subseteq OnJob /\ wk'[w].row = wk[w].row
             \/ {wk[w].at, wk'[w].at} \cap OnJob = {}
      PROVE  UNCHANGED Queue!queueVars
  BY <1>0, <1>1, <1>3 DEF JobOf
<1>4. ASSUME NEW r \in Rows, Claim(w, r) PROVE Queue!QueueNext
  <2>1. StateOf' = [StateOf EXCEPT ![r] = "taken"]
    <3>1. StateOf' = [StateOf EXCEPT ![r] = NameOf["converting"]]
      BY <1>0, <1>4, StateChange DEF Claim, Unsettled
    <3>. QED BY <3>1 DEF NameOf
  <2>2. wk'[w].at \in OnJob /\ wk'[w].row = r /\ \A v \in Workers \ {w} : wk'[v] = wk[v]
    BY <1>0, <1>4 DEF Claim, TypeOK, OnJob, Idle
  <2>3. JobOf' = [JobOf EXCEPT ![w] = r]
    BY <1>0, <2>2, JobChange
  <2>4. JobOf[w] = NoRow /\ StateOf[r] = "waiting"
    BY <1>4 DEF Claim, JobOf, OnJob, Idle, StateOf, NameOf
  <2>5. Queue!Take(w, r)
    BY <2>1, <2>3, <2>4 DEF Queue!Take, Queue!Idlers, StateOf, JobOf, NameOf
  <2>. QED BY <2>5 DEF Queue!QueueNext
<1>5. ASSUME w = "bundle", ReadBundle PROVE [Queue!QueueNext]_(Queue!queueVars)
  <2>1. CASE conv[wk[w].row] = "deleted"
    BY <1>0, <1>2, <1>5, <2>1 DEF ReadBundle, rowVars, TypeOK, OnJob, Idle
  <2>2. CASE conv[wk[w].row] # "deleted"
    BY <1>0, <1>3, <1>5, <2>2 DEF ReadBundle, rowVars, TypeOK, OnJob
  <2>. QED BY <2>1, <2>2
<1>6. CASE Convert(w)
  BY <1>0, <1>3, <1>6 DEF Convert, rowVars, TypeOK, OnJob
<1>7. CASE ConvertFails(w)
  BY <1>0, <1>3, <1>7 DEF ConvertFails, rowVars, TypeOK, OnJob
<1>8. CASE Finish(w)
  <2>. DEFINE r == wk[w].row
  <2>1. PICK c \in {"ready", "failed"} : conv' = [conv EXCEPT ![r] = c]
    BY <1>8 DEF Finish
  <2>2. JobOf[w] = r /\ r \in Rows /\ r # NoRow /\ conv[r] = "converting"
    BY <1>8, OnJobRow DEF Finish, OnJob
  <2>3. StateOf' = [StateOf EXCEPT ![r] = c] /\ StateOf[r] = "taken"
    <3>1. StateOf' = [StateOf EXCEPT ![r] = NameOf[c]]
      BY <1>0, <2>1, <2>2, StateChange
    <3>2. NameOf[c] = c
      BY DEF NameOf
    <3>3. StateOf[r] = "taken"
      BY <2>2 DEF StateOf, NameOf
    <3>. QED BY <3>1, <3>2, <3>3
  <2>4. JobOf' = [JobOf EXCEPT ![w] = NoRow]
    <3>1. wk'[w].at = "cleanup" /\ \A v \in Workers \ {w} : wk'[v] = wk[v]
      BY <1>0, <1>8 DEF Finish, TypeOK
    <3>. QED BY <1>0, <3>1, JobChange DEF OnJob
  <2>5. Queue!Settle(w)
    BY <2>2, <2>3, <2>4 DEF Queue!Settle, Queue!Idlers, StateOf, JobOf, NameOf
  <2>. QED BY <2>5 DEF Queue!QueueNext
<1>9. CASE FinishDeleted(w)
  BY <1>0, <1>2, <1>9 DEF FinishDeleted, rowVars, TypeOK, OnJob, Idle
<1>10. CASE WriteTimesOut(w)
  <2>1. CASE wk[w].at = "built" /\ wk' = [wk EXCEPT ![w].at = "failed"]
    BY <1>0, <1>3, <1>10, <2>1 DEF WriteTimesOut, rowVars, TypeOK, OnJob
  <2>2. CASE /\ wk[w].at \in {"claimed", "failed"}
             /\ wk' = [wk EXCEPT ![w] = IF w = "convert" THEN [@ EXCEPT !.at = "cleanup"] ELSE Idle]
    BY <1>0, <1>2, <1>10, <2>2 DEF WriteTimesOut, rowVars, TypeOK, OnJob, Idle
  <2>. QED BY <1>10, <2>1, <2>2 DEF WriteTimesOut
<1>11. CASE Cleanup(w)
  BY <1>0, <1>3, <1>11 DEF Cleanup, rowVars, TypeOK, OnJob, Idle
<1>. QED BY <1>4, <1>5, <1>6, <1>7, <1>8, <1>9, <1>10, <1>11 DEF Work

\* And the end of the process and its next start.
LEMMA ProcessQueue ==
  ASSUME IInv, Crash \/ Shutdown \/ Restart
  PROVE  Queue!QueueNext
<1>1. CASE Crash \/ Shutdown
  <2>1. JobOf' = [w \in Workers |-> NoRow] /\ StateOf' = StateOf
    BY <1>1 DEF Crash, Shutdown, Stop, rowVars, JobOf, StateOf, OnJob, Idle
  <2>2. Queue!Lose
    BY <2>1 DEF Queue!Lose, StateOf, JobOf, NameOf
  <2>. QED BY <2>2 DEF Queue!QueueNext
<1>2. CASE Restart
  <2>1. \A w \in Workers : JobOf[w] = NoRow
    BY <1>2 DEF Restart, IInv, KindInv, JobOf, Idle, OnJob
  <2>2. StateOf' = [r \in Rows |-> IF StateOf[r] = "taken" THEN "waiting" ELSE StateOf[r]]
    BY <1>2 DEF Restart, IInv, TypeOK, StateOf, NameOf, Unsettled, Gone
  <2>3. JobOf' = JobOf
    BY <1>2 DEF Restart, JobOf
  <2>4. Queue!Requeue
    BY <2>1, <2>2, <2>3 DEF Queue!Requeue, Queue!Idlers, StateOf, JobOf, NameOf
  <2>. QED BY <2>4 DEF Queue!QueueNext
<1>. QED BY <1>1, <1>2

\* The three workers, the clients and the process together implement the job queue where
\* no update meets a running job: no row is settled but by the worker that has it, and
\* whatever is interrupted waits again.
THEOREM WorkersImplementQueue ==
  ASSUME "overtake" \notin Requests
  PROVE  Spec => ImplementsQueue
<1>1. Init => UnmovedInv /\ Queue!QueueInit
  <2>1. Init => UnmovedInv
    BY DEF Init, UnmovedInv, NoRequest, Idle, OnJob
  <2>2. Init => Queue!QueueInit
    BY DEF Init, Queue!QueueInit, NameOf, Idle, OnJob
  <2>. QED BY <2>1, <2>2
<1>2. IInv /\ UnmovedInv /\ [Next]_vars => UnmovedInv'
  BY UnmovedStep
<1>3. IInv /\ UnmovedInv /\ [Next]_vars => [Queue!QueueNext]_(Queue!queueVars)
  <2>1. CASE UNCHANGED vars
    BY <2>1 DEF vars, Queue!queueVars
  <2>. QED BY <2>1, RequestQueue, WorkQueue, ProcessQueue DEF Next
<1>. QED
  BY <1>1, <1>2, <1>3, Invariant, PTL DEF ImplementsQueue, Spec, Queue!QueueSpec
=============================================================================
