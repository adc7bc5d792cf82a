------------------------ MODULE SourceDeliveryProofs ------------------------
(***************************************************************************)
(* What an announced archive is, for every set of paths, contents and      *)
(* exports, every .gitignore and every list of forbidden or excluded       *)
(* paths, and any number of commits and operations of the developer.       *)
(*                                                                         *)
(* The invariant follows an export from git rev-parse to the digest it     *)
(* prints.  While nobody touches index or HEAD, what it has in hand is the *)
(* last commit; once the checks are over it keeps what it has read, and    *)
(* commits are only appended.                                              *)
(***************************************************************************)
EXTENDS SourceDelivery, TLAPS

Holding == {"indexed", "verified", "writing", "written"}
Checked == {"verified", "writing", "written"}

ExportInv(e) ==
    /\ pc[e] \in Running => label[e] \in 1..Newest
    /\ pc[e] \in Holding => entries[e] \in Snapshots /\ Ordinary(entries[e])
    /\ pc[e] \in {"resolved", "indexed"} /\ undisturbed[e] => label[e] = Newest
    /\ pc[e] = "indexed" /\ undisturbed[e] => entries[e] = index
    /\ pc[e] \in Checked => Verdict(entries[e]) = "ok"
    /\ pc[e] \in Checked /\ undisturbed[e] => entries[e] = commits[label[e]]
    /\ pc[e] = "written" => archive[e] = [commit |-> label[e], source |-> entries[e]]
    /\ pc[e] = "done" /\ undisturbed[e] =>
        /\ announced[e].commit \in 1..Newest
        /\ announced[e].source = commits[announced[e].commit]
    /\ pc[e] = "done" => announced[e] \in Archives /\ announced[e] = archive[e]
    /\ announced[e] # None =>
        /\ announced[e] \in Archives
        /\ Ordinary(announced[e].source)
        /\ Verdict(announced[e].source) = "ok"

\* The delivery check has waited for its exports, and compared their archives.
CheckInv ==
    /\ delivery \in {"second", "compare", "clone", "proved"} => pc[First] = "done"
    /\ delivery \in {"compare", "clone", "proved"} => pc[Second] = "done"
    /\ delivery \in {"clone", "proved"} => archive[First] = archive[Second]

DeliveryInv ==
    /\ TypeOK
    /\ \A e \in Exports : ExportInv(e)
    /\ CheckInv

-----------------------------------------------------------------------------
(* What is typed stays so. *)

\* git add turns listings into a listing.
LEMMA StagedType ==
  ASSUME NEW old \in Listing, NEW files \in Listing
  PROVE  Staged(old, files) \in Listing
  BY DEF Staged, Listing

\* So does bringing HEAD back.
LEMMA RestoredType ==
  ASSUME NEW old \in Listing, NEW files \in Listing, NEW to \in Listing
  PROVE  Restored(old, files, to) \in Listing
  BY DEF Restored, Listing

\* What a program reads is a file that is no link, or nothing.
LEMMA FollowedType ==
  ASSUME NEW c \in Contents \cup {Mutated, None}
  PROVE  /\ Followed(c) \in Contents \cup {Mutated, None}
         /\ Followed(c) \notin Links
         /\ c \notin Links => Followed(c) = c
  BY ConstantsOK DEF ConstantsOK, Followed

\* The generated manifest is a listing.
LEMMA GeneratedType ==
  ASSUME NEW files \in Listing
  PROVE  Generated(files) \in Listing
  BY FollowedType DEF Generated, Listing

\* A changed file leaves a snapshot a snapshot.
LEMMA SnapshotExcept ==
  ASSUME NEW s \in Snapshots, NEW p \in Paths, NEW c \in Contents \cup {Mutated, None}
  PROVE  [s EXCEPT !.files = [@ EXCEPT ![p] = c]] \in Snapshots
  BY DEF Snapshots, Listing

\* HEAD is the newest of the commits, each a snapshot with a manifest.
LEMMA HeadIsSnapshot ==
  ASSUME TypeOK
  PROVE  /\ Newest \in Nat \ {0}
         /\ HeadCommit \in Snapshots
         /\ HeadCommit.files \in Listing /\ HeadCommit.manifest \in Manifests
  <1>1. commits \in Seq(Snapshots) /\ commits # <<>>
    BY DEF TypeOK
  <1>2. Len(commits) \in Nat \ {0} /\ commits[Len(commits)] \in Snapshots
    BY <1>1
  <1> QED
    BY <1>2 DEF Newest, HeadCommit, Snapshots

\* The initial state has the types and the invariant.
LEMMA InitType == Init => TypeOK
  <1> SUFFICES ASSUME Init PROVE TypeOK
    OBVIOUS
  <1> DEFINE files == [p \in Paths |-> IF p = Readme THEN Original ELSE None]
  <1>1. files \in Listing
    BY ConstantsOK DEF Listing
  <1>2. [files |-> files, manifest |-> files] \in Snapshots
    BY <1>1 DEF Snapshots, Manifests
  <1>3. index \in Snapshots /\ tree \in Snapshots
    BY <1>2 DEF Init
  <1>4. commits \in Seq(Snapshots) /\ commits # <<>>
    BY <1>3 DEF Init
  <1>5. /\ digests \in Listing \cup {None} /\ unhashed \subseteq Paths
        /\ operations \in 0..MaxOperations
    BY ConstantsOK DEF Init, ConstantsOK
  <1>8. candidate \in BOOLEAN
    BY Zenon DEF Init
  <1>6. /\ pc \in [Exports -> {"idle"} \cup Running \cup Ended]
        /\ label \in [Exports -> Nat]
        /\ undisturbed \in [Exports -> BOOLEAN]
    BY DEF Init
  <1>7. /\ entries \in [Exports -> Snapshots \cup {None}]
        /\ archive \in [Exports -> Archives \cup {None, Garbled}]
        /\ announced \in [Exports -> Archives \cup {None}]
    BY DEF Init
  <1> QED
    BY <1>3, <1>4, <1>5, <1>6, <1>7, <1>8 DEF Init, TypeOK

\* Init maps each variable to a value of its type; the invariant says nothing of
\* an export that has not begun.
LEMMA InitInv == Init => DeliveryInv
  <1> SUFFICES ASSUME Init PROVE DeliveryInv
    OBVIOUS
  <1>1. ASSUME NEW e \in Exports PROVE ExportInv(e)
    BY DEF Init, ExportInv, Running, Holding, Checked
  <1>2. CheckInv
    BY DEF Init, CheckInv
  <1> QED
    BY <1>1, <1>2, InitType DEF DeliveryInv

-----------------------------------------------------------------------------
(* The developer *)

\* What the repository's steps leave of an export: they do not touch it, except
\* for the record that it was disturbed.
LEMMA DeveloperKeepsExport ==
  ASSUME NEW e \in Exports, ExportInv(e), TypeOK,
         UNCHANGED <<pc, label, entries, archive, announced>>,
         undisturbed' \in [Exports -> BOOLEAN],
         undisturbed'[e] => undisturbed[e],
         pc[e] \in {"resolved", "indexed"} /\ undisturbed'[e] =>
             Newest' = Newest /\ index' = index,
         Newest' >= Newest, Newest' \in Nat,
         \A k \in 1..Newest : commits'[k] = commits[k]
  PROVE  ExportInv(e)'
  <1>1. Newest \in Nat
    BY HeadIsSnapshot
  <1> QED
    BY <1>1 DEF ExportInv, Running, Holding, Checked

\* The developer cannot change what a check has found.
LEMMA OperateKeepsChecks ==
  ASSUME CheckInv, UNCHANGED <<pc, archive, delivery>>
  PROVE  CheckInv'
  BY DEF CheckInv

\* Disturbing exports keeps the type, and only ever takes undisturbed away.
LEMMA DisturbType ==
  ASSUME TypeOK, Disturb
  PROVE  /\ undisturbed' \in [Exports -> BOOLEAN]
         /\ \A e \in Exports : undisturbed'[e] => undisturbed[e] /\ pc[e] \notin {"resolved", "indexed"}
  BY DEF TypeOK, Disturb

\* An operation of the developer that leaves commits alone: what it does to
\* working tree, index and manifest has the type, and no export loses its claim.
LEMMA OperationPreserves ==
  ASSUME DeliveryInv, Operate,
         tree' \in Snapshots, index' \in Snapshots,
         digests' \in Listing \cup {None}, unhashed' \subseteq Paths,
         candidate' \in BOOLEAN, commits' = commits,
         \/ UNCHANGED <<index, undisturbed>>
         \/ Disturb
  PROVE  DeliveryInv'
  <1>1. TypeOK /\ CheckInv /\ \A e \in Exports : ExportInv(e)
    BY DEF DeliveryInv
  <1>2. /\ undisturbed' \in [Exports -> BOOLEAN]
        /\ \A e \in Exports : undisturbed'[e] =>
              undisturbed[e] /\ (index' = index \/ pc[e] \notin {"resolved", "indexed"})
    BY <1>1, DisturbType DEF TypeOK
  <1>3. UNCHANGED <<pc, label, entries, archive, announced, delivery>> /\ operations' \in 0..MaxOperations
    BY <1>1, ConstantsOK DEF Operate, TypeOK, ConstantsOK
  <1>4. TypeOK'
    BY <1>1, <1>2, <1>3 DEF TypeOK
  <1>5. Newest' = Newest /\ Newest \in Nat
    BY <1>1, HeadIsSnapshot DEF Newest
  <1>6. ASSUME NEW e \in Exports PROVE ExportInv(e)'
    BY <1>1, <1>2, <1>3, <1>5, <1>6, DeveloperKeepsExport
  <1>7. CheckInv'
    BY <1>1, <1>3, OperateKeepsChecks
  <1> QED
    BY <1>4, <1>6, <1>7 DEF DeliveryInv

\* Editing, creating or deleting a file.
LEMMA EditPreserves ==
  ASSUME DeliveryInv, NEW p \in Paths, NEW c \in Contents \cup {None}, Edit(p, c)
  PROVE  DeliveryInv'
  <1>1. TypeOK
    BY DEF DeliveryInv
  <1>2. tree' \in Snapshots
    BY <1>1, SnapshotExcept DEF Edit, TypeOK
  <1>3. /\ index' \in Snapshots /\ digests' \in Listing \cup {None} /\ unhashed' \subseteq Paths
        /\ commits' = commits /\ UNCHANGED <<index, undisturbed>> /\ Operate
    BY <1>1 DEF Edit, TypeOK, generating
  <1>4. candidate' \in BOOLEAN
    BY Zenon DEF Edit
  <1> QED
    BY <1>2, <1>3, <1>4, OperationPreserves

\* The tree and the index become what HEAD is.
LEMMA RestorePreserves ==
  ASSUME DeliveryInv, Restore
  PROVE  DeliveryInv'
  <1>1. TypeOK
    BY DEF DeliveryInv
  <1>2. index' \in Snapshots
    BY <1>1, HeadIsSnapshot DEF Restore
  <1>3. tree' \in Snapshots
    <2>1. index.files \in Listing /\ tree.files \in Listing
      BY <1>1 DEF TypeOK, Snapshots
    <2>2. HeadCommit.files \in Listing /\ HeadCommit.manifest \in Manifests
      BY <1>1, HeadIsSnapshot
    <2> QED
      BY <2>1, <2>2, RestoredType DEF Restore, Snapshots
  <1>4. /\ digests' \in Listing \cup {None} /\ unhashed' \subseteq Paths
        /\ commits' = commits /\ Disturb /\ Operate
    BY <1>1 DEF Restore, TypeOK, generating
  <1>5. candidate' \in BOOLEAN
    BY Zenon DEF Restore
  <1> QED
    BY <1>2, <1>3, <1>4, <1>5, OperationPreserves

\* git add, of everything or of an ignored file by force.
LEMMA StagePreserves ==
  ASSUME DeliveryInv, StageAll \/ \E p \in Paths : StageForced(p)
  PROVE  DeliveryInv'
  <1>1. TypeOK
    BY DEF DeliveryInv
  <1>2. index' \in Snapshots
    <2>0. index.files \in Listing /\ tree.files \in Listing /\ tree.manifest \in Manifests
          /\ index \in Snapshots
      BY <1>1 DEF TypeOK, Snapshots
    <2>1. CASE StageAll
      BY <2>0, <2>1, StagedType DEF StageAll, Snapshots
    <2>2. ASSUME NEW p \in Paths, StageForced(p) PROVE index' \in Snapshots
      <3>1. tree.files[p] \in Contents \cup {Mutated, None}
        BY <2>0 DEF Listing
      <3> QED
        BY <2>0, <2>2, <3>1, SnapshotExcept DEF StageForced
    <2> QED
      BY <2>1, <2>2
  <1>3. /\ tree' \in Snapshots /\ digests' \in Listing \cup {None} /\ unhashed' \subseteq Paths
        /\ candidate' \in BOOLEAN /\ commits' = commits /\ Disturb /\ Operate
    BY <1>1 DEF StageAll, StageForced, TypeOK, generating
  <1> QED
    BY <1>2, <1>3, OperationPreserves

\* The files of the tree are listed, and none is read yet.
LEMMA ListFilesPreserves ==
  ASSUME DeliveryInv, ListFiles
  PROVE  DeliveryInv'
  <1>1. TypeOK
    BY DEF DeliveryInv
  <1>2. digests' \in Listing \cup {None} /\ unhashed' \subseteq Paths
    BY DEF ListFiles, Listing, Held
  <1>3. /\ tree' \in Snapshots /\ index' \in Snapshots /\ candidate' \in BOOLEAN
        /\ commits' = commits /\ UNCHANGED <<index, undisturbed>> /\ Operate
    BY <1>1 DEF ListFiles, TypeOK, repository
  <1> QED
    BY <1>2, <1>3, OperationPreserves

\* A commit is appended: the older ones stay what they are.
LEMMA CommitPreserves ==
  ASSUME DeliveryInv, Commit
  PROVE  DeliveryInv'
  <1>1. TypeOK /\ CheckInv /\ \A e \in Exports : ExportInv(e)
    BY DEF DeliveryInv
  <1>2. /\ commits' = Append(commits, index)
        /\ UNCHANGED <<tree, index, digests, unhashed, candidate>>
        /\ UNCHANGED <<pc, label, entries, archive, announced, delivery>>
        /\ Disturb /\ operations' \in 0..MaxOperations
    BY <1>1, ConstantsOK DEF Commit, Operate, TypeOK, ConstantsOK, generating
  <1>3. /\ commits \in Seq(Snapshots) /\ index \in Snapshots
    BY <1>1 DEF TypeOK
  <1>4. /\ commits' \in Seq(Snapshots) /\ commits' # <<>>
        /\ Len(commits') = Len(commits) + 1 /\ Len(commits) \in Nat
        /\ \A k \in 1..Len(commits) : commits'[k] = commits[k]
    BY <1>2, <1>3
  <1>5. TypeOK'
    BY <1>1, <1>2, <1>4, DisturbType DEF TypeOK
  <1>6. ASSUME NEW e \in Exports PROVE ExportInv(e)'
    BY <1>1, <1>2, <1>4, DisturbType, DeveloperKeepsExport DEF Newest
  <1>7. CheckInv'
    BY <1>1, <1>2, OperateKeepsChecks
  <1> QED
    BY <1>5, <1>6, <1>7 DEF DeliveryInv

\* What the generator does by itself: exports look at the working tree only to
\* see whether it is clean, and at the digests not at all.
LEMMA ManifestStepPreserves ==
  ASSUME DeliveryInv,
         UNCHANGED <<index, commits, operations, exporting, delivery, candidate>>,
         tree' \in Snapshots, digests' \in Listing \cup {None}, unhashed' \subseteq Paths
  PROVE  DeliveryInv'
  <1>1. TypeOK /\ CheckInv /\ \A e \in Exports : ExportInv(e)
    BY DEF DeliveryInv
  <1>2. TypeOK'
    BY <1>1 DEF TypeOK, exporting
  <1>3. ASSUME NEW e \in Exports PROVE ExportInv(e)'
    BY <1>1 DEF exporting, ExportInv, Newest
  <1>4. CheckInv'
    BY <1>1 DEF CheckInv, exporting
  <1> QED
    BY <1>2, <1>3, <1>4 DEF DeliveryInv

\* One file is read, or is gone.
LEMMA HashFilePreserves ==
  ASSUME DeliveryInv, HashFile
  PROVE  DeliveryInv'
  <1>1. TypeOK
    BY DEF DeliveryInv
  <1>2. PICK p \in unhashed :
          LET digest == Followed(tree.files[p])
          IN \/ /\ digest # None
                /\ digests' = [digests EXCEPT ![p] = digest]
                /\ unhashed' = unhashed \ {p}
             \/ /\ digest = None
                /\ digests' = None
                /\ unhashed' = {}
    BY DEF HashFile
  <1>3. digests \in Listing /\ tree.files \in Listing /\ p \in Paths /\ unhashed \subseteq Paths
    BY <1>1, <1>2 DEF HashFile, TypeOK, Snapshots
  <1>4. Followed(tree.files[p]) \in Contents \cup {Mutated, None}
    BY <1>3, FollowedType DEF Listing
  <1>5. digests' \in Listing \cup {None} /\ unhashed' \subseteq Paths
    BY <1>2, <1>3, <1>4 DEF Listing
  <1>6. /\ UNCHANGED <<index, commits, operations, exporting, delivery, candidate>>
        /\ tree' \in Snapshots
    BY <1>1 DEF HashFile, repository, TypeOK
  <1> QED
    BY <1>5, <1>6, ManifestStepPreserves

\* The manifest is written to the working tree, whole or in part.
LEMMA ManifestPreserves ==
  ASSUME DeliveryInv, WriteManifest \/ InterruptManifest
  PROVE  DeliveryInv'
  <1>1. TypeOK
    BY DEF DeliveryInv
  <1>2. /\ UNCHANGED <<index, commits, operations, exporting, delivery, candidate>>
        /\ digests' = None /\ unhashed' \subseteq Paths
    BY <1>1 DEF WriteManifest, InterruptManifest, TypeOK
  <1>3. tree \in Snapshots /\ digests \in Listing
    BY <1>1 DEF TypeOK, WriteManifest, InterruptManifest
  <1>4. tree' \in Snapshots
    <2>1. CASE WriteManifest
      BY <1>3, <2>1 DEF WriteManifest, Snapshots, Manifests
    <2>2. ASSUME NEW left \in {Garbled} \cup {LinesBefore(p) : p \in Paths},
                 tree' = [tree EXCEPT !.manifest = left]
          PROVE  tree' \in Snapshots
      <3>1. left \in Manifests
        BY <1>3 DEF LinesBefore, Manifests, Listing
      <3> QED
        BY <1>3, <2>2, <3>1 DEF Snapshots
    <2> QED
      BY <1>3, <2>1, <2>2 DEF InterruptManifest
  <1> QED
    BY <1>2, <1>4, ManifestStepPreserves

-----------------------------------------------------------------------------
(* The exports *)

\* A step of one export leaves the others alone; if it begins or goes on only
\* where the delivery check has not counted it as done, the check keeps what it
\* has found.
LEMMA ExportStepPreserves ==
  ASSUME DeliveryInv, NEW e \in Exports,
         NEW goto \in {"idle"} \cup Running \cup Ended,
         NEW commit \in Nat, NEW snapshot \in Snapshots \cup {None},
         Go(e, goto, commit, snapshot),
         pc[e] = "done" => delivery = "idle",
         undisturbed' \in [Exports -> BOOLEAN],
         archive' \in [Exports -> Archives \cup {None, Garbled}],
         announced' \in [Exports -> Archives \cup {None}],
         \A f \in Exports \ {e} : /\ undisturbed'[f] = undisturbed[f]
                                  /\ archive'[f] = archive[f]
                                  /\ announced'[f] = announced[f],
         ExportInv(e)'
  PROVE  DeliveryInv'
  <1>1. TypeOK /\ CheckInv /\ \A f \in Exports : ExportInv(f)
    BY DEF DeliveryInv
  <1>2. /\ pc' = [pc EXCEPT ![e] = goto]
        /\ label' = [label EXCEPT ![e] = commit]
        /\ entries' = [entries EXCEPT ![e] = snapshot]
        /\ UNCHANGED <<tree, index, commits, digests, unhashed, operations, delivery, candidate>>
    BY DEF Go, StayingPut, repository, generating
  <1>3. TypeOK'
    BY <1>1, <1>2 DEF TypeOK
  <1>4. ASSUME NEW f \in Exports, f # e PROVE ExportInv(f)'
    <2>1. pc'[f] = pc[f] /\ label'[f] = label[f] /\ entries'[f] = entries[f]
      BY <1>1, <1>2, <1>4 DEF TypeOK
    <2>2. undisturbed'[f] = undisturbed[f] /\ archive'[f] = archive[f] /\ announced'[f] = announced[f]
      BY <1>4
    <2> QED
      BY <1>1, <1>2, <2>1, <2>2 DEF ExportInv, Newest
  <1>5. CheckInv'
    <2>1. First \in Exports /\ Second \in Exports
      BY ConstantsOK DEF ConstantsOK
    <2>2. delivery # "idle" => \A f \in Exports : pc[f] = "done" =>
              pc'[f] = "done" /\ archive'[f] = archive[f]
      BY <1>1, <1>2 DEF TypeOK
    <2> QED
      BY <1>1, <1>2, <2>1, <2>2 DEF CheckInv
  <1> QED
    BY <1>3, <1>4, <1>5 DEF DeliveryInv

\* git rev-parse names the last commit, and nothing has disturbed the export yet.
LEMMA ResolvePreserves ==
  ASSUME DeliveryInv, NEW e \in Exports, Resolve(e)
  PROVE  DeliveryInv'
  <1>1. TypeOK /\ ExportInv(e)
    BY DEF DeliveryInv
  <1>2. Newest \in Nat \ {0}
    BY <1>1, HeadIsSnapshot
  <1>3. pc[e] = "done" => delivery = "idle"
    BY DEF Resolve, MayStart
  <1>4. /\ Go(e, "resolved", Newest, None)
        /\ undisturbed' = [undisturbed EXCEPT ![e] = TRUE]
        /\ announced' = [announced EXCEPT ![e] = None]
        /\ archive' = archive
    BY DEF Resolve
  <1>5. /\ undisturbed' \in [Exports -> BOOLEAN]
        /\ archive' \in [Exports -> Archives \cup {None, Garbled}]
        /\ announced' \in [Exports -> Archives \cup {None}]
    BY <1>1, <1>4 DEF TypeOK
  <1>6. pc'[e] = "resolved" /\ label'[e] = Newest /\ announced'[e] = None /\ Newest' = Newest
    BY <1>1, <1>4 DEF TypeOK, Go, StayingPut, repository, Newest
  <1>7. ExportInv(e)'
    BY <1>2, <1>6 DEF ExportInv, Holding, Checked
  <1>8. \A f \in Exports \ {e} : /\ undisturbed'[f] = undisturbed[f]
                                 /\ archive'[f] = archive[f]
                                 /\ announced'[f] = announced[f]
    BY <1>1, <1>4 DEF TypeOK
  <1> QED
    BY <1>2, <1>3, <1>4, <1>5, <1>7, <1>8, ExportStepPreserves DEF Running

\* An export that fails or is killed keeps what it announced before.
LEMMA GivingUpPreserves ==
  ASSUME DeliveryInv, NEW e \in Exports, NEW how \in {"failed", "killed"},
         End(e, how), pc[e] \in Running, UNCHANGED <<archive, announced>>
  PROVE  DeliveryInv'
  <1>1. TypeOK /\ ExportInv(e)
    BY DEF DeliveryInv
  <1>2. /\ Go(e, how, 0, None)
        /\ undisturbed' = [undisturbed EXCEPT ![e] = FALSE]
    BY DEF End
  <1>3. /\ undisturbed' \in [Exports -> BOOLEAN]
        /\ archive' \in [Exports -> Archives \cup {None, Garbled}]
        /\ announced' \in [Exports -> Archives \cup {None}]
        /\ \A f \in Exports \ {e} : /\ undisturbed'[f] = undisturbed[f]
                                    /\ archive'[f] = archive[f]
                                    /\ announced'[f] = announced[f]
    BY <1>1, <1>2 DEF TypeOK
  <1>4. pc'[e] = how /\ pc[e] # "done"
    BY <1>1, <1>2 DEF TypeOK, Go, Running
  <1>5. ExportInv(e)'
    BY <1>1, <1>4 DEF ExportInv, Running, Holding, Checked
  <1> QED
    BY <1>2, <1>3, <1>4, <1>5, ExportStepPreserves DEF Ended

\* What is read from the index is the last commit only once git status says so.
LEMMA ReadIndexPreserves ==
  ASSUME DeliveryInv, NEW e \in Exports, ReadIndex(e)
  PROVE  DeliveryInv'
  <1>1. TypeOK /\ ExportInv(e) /\ pc[e] = "resolved" /\ UNCHANGED <<archive, announced>>
    BY DEF DeliveryInv, ReadIndex
  <1>2. CASE ~Ordinary(index) /\ End(e, "failed")
    BY <1>1, <1>2, GivingUpPreserves DEF Running
  <1>3. CASE Ordinary(index) /\ Go(e, "indexed", label[e], index) /\ UNCHANGED undisturbed
    <2>1. label[e] \in Nat /\ index \in Snapshots
      BY <1>1 DEF TypeOK
    <2>2. /\ undisturbed' \in [Exports -> BOOLEAN]
          /\ archive' \in [Exports -> Archives \cup {None, Garbled}]
          /\ announced' \in [Exports -> Archives \cup {None}]
      BY <1>1, <1>3 DEF TypeOK
    <2>3. /\ pc'[e] = "indexed" /\ label'[e] = label[e] /\ entries'[e] = index
          /\ index' = index /\ Newest' = Newest
      BY <1>1, <1>3 DEF TypeOK, Go, StayingPut, repository, Newest
    <2>4. ExportInv(e)'
      BY <1>1, <1>3, <2>1, <2>3 DEF ExportInv, Running, Holding, Checked
    <2> QED
      BY <1>1, <1>3, <2>1, <2>2, <2>4, ExportStepPreserves DEF Running
  <1> QED
    BY <1>2, <1>3 DEF ReadIndex

\* The checks: with a clean tree the index is the last commit, and so is what was
\* read from an index that nobody has touched since.
LEMMA VerifySourcePreserves ==
  ASSUME DeliveryInv, NEW e \in Exports, VerifySource(e)
  PROVE  DeliveryInv'
  <1>1. TypeOK /\ ExportInv(e) /\ pc[e] = "indexed" /\ UNCHANGED <<archive, announced>>
    BY DEF DeliveryInv, VerifySource
  <1>2. CASE End(e, "failed")
    BY <1>1, <1>2, GivingUpPreserves DEF Running
  <1>3. CASE Clean /\ Verdict(entries[e]) = "ok" /\ Proceed(e, "verified") /\ UNCHANGED undisturbed
    <2>1. label[e] \in Nat /\ entries[e] \in Snapshots \cup {None} /\ Go(e, "verified", label[e], entries[e])
      BY <1>1, <1>3 DEF TypeOK, Proceed
    <2>2. /\ undisturbed' \in [Exports -> BOOLEAN]
          /\ archive' \in [Exports -> Archives \cup {None, Garbled}]
          /\ announced' \in [Exports -> Archives \cup {None}]
      BY <1>1, <1>3 DEF TypeOK
    <2>3. /\ pc'[e] = "verified" /\ label'[e] = label[e] /\ entries'[e] = entries[e]
          /\ commits' = commits /\ Newest' = Newest /\ undisturbed'[e] = undisturbed[e]
      BY <1>1, <1>3, <2>1 DEF TypeOK, Go, StayingPut, repository, Newest
    <2>4. undisturbed[e] => entries[e] = commits[label[e]]
      BY <1>1, <1>3 DEF ExportInv, Clean, HeadCommit
    <2>5. ExportInv(e)'
      BY <1>1, <1>3, <2>3, <2>4 DEF ExportInv, Running, Holding, Checked
    <2> QED
      BY <1>1, <1>3, <2>1, <2>2, <2>5, ExportStepPreserves DEF Running
  <1> QED
    BY <1>2, <1>3 DEF VerifySource

\* The archive is written from what the export holds.
LEMMA ArchivePreserves ==
  ASSUME DeliveryInv, NEW e \in Exports, OpenArchive(e) \/ FinishArchive(e)
  PROVE  DeliveryInv'
  <1>1. TypeOK /\ ExportInv(e)
    BY DEF DeliveryInv
  <1>2. PICK goto \in {"writing", "written"}, whole \in BOOLEAN :
           /\ pc[e] \in Checked
           /\ Go(e, goto, label[e], entries[e])
           /\ goto = "written" => whole
           /\ archive' = [archive EXCEPT ![e] =
                  IF whole THEN [commit |-> label[e], source |-> entries[e]] ELSE Garbled]
           /\ UNCHANGED <<undisturbed, announced>>
    BY DEF OpenArchive, FinishArchive, Proceed, Checked
  <1>3. pc[e] \in Running /\ pc[e] \in Holding /\ pc[e] # "done" /\ goto \in Running
    BY <1>2 DEF Checked, Running, Holding
  <1>4. label[e] \in Nat /\ entries[e] \in Snapshots
    BY <1>1, <1>3 DEF TypeOK, ExportInv
  <1>5. (IF whole THEN [commit |-> label[e], source |-> entries[e]] ELSE Garbled) \in Archives \cup {None, Garbled}
    BY <1>4 DEF Archives
  <1>6. /\ undisturbed' \in [Exports -> BOOLEAN]
        /\ archive' \in [Exports -> Archives \cup {None, Garbled}]
        /\ announced' \in [Exports -> Archives \cup {None}]
        /\ \A f \in Exports \ {e} : /\ undisturbed'[f] = undisturbed[f]
                                    /\ archive'[f] = archive[f]
                                    /\ announced'[f] = announced[f]
    BY <1>1, <1>2, <1>5 DEF TypeOK
  <1>7. /\ pc'[e] = goto /\ label'[e] = label[e] /\ entries'[e] = entries[e]
        /\ commits' = commits /\ Newest' = Newest
        /\ goto = "written" => archive'[e] = [commit |-> label[e], source |-> entries[e]]
    BY <1>1, <1>2 DEF TypeOK, Go, StayingPut, repository, Newest
  <1>8. ExportInv(e)'
    BY <1>1, <1>2, <1>3, <1>4, <1>7 DEF ExportInv, Running, Holding, Checked
  <1> QED
    BY <1>2, <1>3, <1>4, <1>6, <1>8, ExportStepPreserves

\* What is announced is the archive as it was written.
LEMMA AnnouncePreserves ==
  ASSUME DeliveryInv, NEW e \in Exports, Announce(e)
  PROVE  DeliveryInv'
  <1>1. TypeOK /\ ExportInv(e) /\ pc[e] = "written"
    BY DEF DeliveryInv, Announce
  <1>2. /\ Go(e, "done", 0, None)
        /\ undisturbed' = [undisturbed EXCEPT ![e] = "done" = "done" /\ @]
        /\ announced' = [announced EXCEPT ![e] = archive[e]]
        /\ archive' = archive
    BY DEF Announce, End
  <1>3. /\ archive[e] = [commit |-> label[e], source |-> entries[e]]
        /\ label[e] \in 1..Newest /\ entries[e] \in Snapshots /\ Ordinary(entries[e])
        /\ Verdict(entries[e]) = "ok"
        /\ undisturbed[e] => entries[e] = commits[label[e]]
    BY <1>1 DEF ExportInv, Running, Holding, Checked
  <1>4. archive[e] \in Archives /\ archive[e].commit = label[e] /\ archive[e].source = entries[e]
    <2>1. label[e] \in Nat
      BY <1>1 DEF TypeOK
    <2> QED
      BY <1>3, <2>1 DEF Archives
  <1>5. /\ undisturbed' \in [Exports -> BOOLEAN]
        /\ archive' \in [Exports -> Archives \cup {None, Garbled}]
        /\ announced' \in [Exports -> Archives \cup {None}]
        /\ \A f \in Exports \ {e} : /\ undisturbed'[f] = undisturbed[f]
                                    /\ archive'[f] = archive[f]
                                    /\ announced'[f] = announced[f]
    BY <1>1, <1>2, <1>4 DEF TypeOK
  <1>6. /\ pc'[e] = "done" /\ announced'[e] = archive[e] /\ archive'[e] = archive[e]
        /\ undisturbed'[e] = undisturbed[e]
        /\ commits' = commits /\ Newest' = Newest
    BY <1>1, <1>2 DEF TypeOK, Go, StayingPut, repository, Newest
  <1>7. ExportInv(e)'
    BY <1>3, <1>4, <1>6 DEF ExportInv, Running, Holding, Checked
  <1> QED
    BY <1>1, <1>2, <1>5, <1>7, ExportStepPreserves DEF Ended

-----------------------------------------------------------------------------
(* The delivery check and the candidate check *)

\* A step of the delivery check that reads the exports and leaves them alone
LEMMA JudgementPreserves ==
  ASSUME DeliveryInv, UNCHANGED <<repository, generating, operations, exporting>>,
         delivery' \in {"idle", "first", "second", "compare", "clone", "proved", "refused"},
         candidate' \in BOOLEAN,
         CheckInv'
  PROVE  DeliveryInv'
  <1>1. TypeOK /\ \A e \in Exports : ExportInv(e)
    BY DEF DeliveryInv
  <1>2. /\ UNCHANGED <<tree, index, commits, digests, unhashed, operations>>
        /\ UNCHANGED <<pc, label, entries, undisturbed, archive, announced>>
    BY DEF repository, generating, exporting
  <1>3. TypeOK'
    BY <1>1, <1>2 DEF TypeOK
  <1>4. ASSUME NEW e \in Exports PROVE ExportInv(e)'
    BY <1>1, <1>2 DEF ExportInv, Newest
  <1> QED
    BY <1>3, <1>4 DEF DeliveryInv

\* Both exports begin anew, in directories of their own.
LEMMA StartDeliveryPreserves ==
  ASSUME DeliveryInv, StartDelivery
  PROVE  DeliveryInv'
  <1>1. TypeOK /\ \A e \in Exports : ExportInv(e)
    BY DEF DeliveryInv
  <1>2. /\ UNCHANGED <<tree, index, commits, digests, unhashed, operations, candidate, label, entries, undisturbed>>
        /\ delivery' \in {"first", "refused"}
    BY DEF StartDelivery, Deliver, repository, generating
  <1>3. \A e \in Exports :
          \/ pc'[e] = "idle" /\ archive'[e] = None /\ announced'[e] = None
          \/ pc'[e] = pc[e] /\ archive'[e] = archive[e] /\ announced'[e] = announced[e]
    BY DEF StartDelivery
  <1>4. /\ pc' \in [Exports -> {"idle"} \cup Running \cup Ended]
        /\ archive' \in [Exports -> Archives \cup {None, Garbled}]
        /\ announced' \in [Exports -> Archives \cup {None}]
    BY <1>1 DEF StartDelivery, TypeOK
  <1>5. TypeOK'
    BY <1>1, <1>2, <1>4 DEF TypeOK
  <1>6. ASSUME NEW e \in Exports PROVE ExportInv(e)'
    BY <1>1, <1>2, <1>3 DEF ExportInv, Newest, Running, Holding, Checked
  <1>7. CheckInv'
    BY <1>2 DEF CheckInv
  <1> QED
    BY <1>5, <1>6, <1>7 DEF DeliveryInv

\* An export that is waited for has ended, and counts only if it is done; the
\* archives are compared before the clone is mutated.
LEMMA DeliveryStepPreserves ==
  ASSUME DeliveryInv, DeliveryStep
  PROVE  DeliveryInv'
  <1>1. CheckInv
    BY DEF DeliveryInv
  <1>2. /\ UNCHANGED <<repository, generating, operations, exporting, candidate>>
        /\ delivery' \in {"second", "compare", "clone", "proved", "refused"}
    BY DEF DeliveryStep, AwaitExport, Compare, MutateClone, Deliver
  <1>3. CheckInv'
    BY <1>1 DEF DeliveryStep, AwaitExport, Compare, MutateClone, Deliver, CheckInv, exporting
  <1>4. candidate' \in BOOLEAN
    <2>1. TypeOK
      BY DEF DeliveryInv
    <2> QED
      BY <1>2, <2>1 DEF TypeOK
  <1> QED
    BY <1>2, <1>3, <1>4, JudgementPreserves

\* The candidate check reads, and gives a verdict.
LEMMA CandidateCheckPreserves ==
  ASSUME DeliveryInv, CandidateCheck
  PROVE  DeliveryInv'
  <1>1. TypeOK /\ CheckInv
    BY DEF DeliveryInv
  <1>2. UNCHANGED <<repository, generating, operations, exporting, delivery>>
    BY DEF CandidateCheck
  <1>3. candidate' \in BOOLEAN
    BY Zenon DEF CandidateCheck
  <1>4. CheckInv'
    BY <1>1, <1>2 DEF CheckInv, exporting
  <1> QED
    BY <1>1, <1>2, <1>3, <1>4, JudgementPreserves DEF TypeOK

-----------------------------------------------------------------------------
\* The invariant holds in every state: each export has in hand what the commit
\* in its name, the index and the checks of package_source.py say it has.
THEOREM DeliveryInvariant == Spec => []DeliveryInv
  <1>1. Init => DeliveryInv
    BY InitInv
  <1>2. DeliveryInv /\ [Next]_vars => DeliveryInv'
    <2> SUFFICES ASSUME DeliveryInv, [Next]_vars PROVE DeliveryInv'
      OBVIOUS
    <2>1. CASE Developer
      BY <2>1, EditPreserves, StagePreserves, RestorePreserves, CommitPreserves,
         ListFilesPreserves, HashFilePreserves, ManifestPreserves DEF Developer
    <2>2. ASSUME NEW e \in Exports, Resolve(e) \/ Export(e) PROVE DeliveryInv'
      BY <2>2, ResolvePreserves, ReadIndexPreserves, VerifySourcePreserves,
         ArchivePreserves, AnnouncePreserves DEF Export
    <2>3. ASSUME NEW e \in Exports, Kill(e) PROVE DeliveryInv'
      BY <2>3, GivingUpPreserves DEF Kill
    <2>4. CASE StartDelivery \/ DeliveryStep \/ CandidateCheck
      BY <2>4, StartDeliveryPreserves, DeliveryStepPreserves, CandidateCheckPreserves
    <2>5. CASE UNCHANGED vars
      <3>1. UNCHANGED <<repository, generating, operations, exporting, delivery, candidate>>
        BY <2>5 DEF vars
      <3>2. TypeOK /\ CheckInv
        BY DEF DeliveryInv
      <3>3. CheckInv'
        BY <3>1, <3>2 DEF CheckInv, exporting
      <3> QED
        BY <3>1, <3>2, <3>3, JudgementPreserves DEF TypeOK
    <2> QED
      BY <2>1, <2>2, <2>3, <2>4, <2>5 DEF Next
  <1> QED
    BY <1>1, <1>2, PTL DEF Spec

\* A verdict of "ok" says that manifest and files are one listing: they name the
\* same files, and each has the digest the manifest gives it.
LEMMA OkMeansMatch ==
  ASSUME NEW s \in Snapshots, Verdict(s) = "ok"
  PROVE  s.manifest = s.files /\ Held(s.files) \cap Forbidden = {}
  <1>1. /\ s.manifest # None /\ s.manifest # Garbled
        /\ Held(s.files) \cap Forbidden = {}
        /\ Held(s.manifest) = Held(s.files)
        /\ \A p \in Held(s.files) : s.manifest[p] = s.files[p]
    BY DEF Verdict
  <1>2. s.files \in Listing /\ s.manifest \in Listing
    BY <1>1 DEF Snapshots, Manifests
  <1>3. ASSUME NEW p \in Paths PROVE s.manifest[p] = s.files[p]
    BY <1>1 DEF Held
  <1>4. s.manifest = s.files
    BY <1>2, <1>3 DEF Listing
  <1> QED
    BY <1>1, <1>4

\* The model's variables keep their types: an archive is whole, part or absent,
\* and what an export has read is a snapshot of the repository.
THEOREM TypeCorrect == Spec => []TypeOK
  <1>1. DeliveryInv => TypeOK
    BY DEF DeliveryInv
  <1> QED
    BY <1>1, DeliveryInvariant, PTL

\* Whatever the developer does meanwhile, an announced archive is whole, its
\* manifest is what it holds, and it holds ordinary files, none of them
\* forbidden.
THEOREM AnnouncedMatches == Spec => []AnnouncedMatchesManifest
  <1>1. DeliveryInv => AnnouncedMatchesManifest
    <2> SUFFICES ASSUME DeliveryInv, NEW e \in Exports, announced[e] # None
                 PROVE  /\ Whole(announced[e])
                        /\ LET s == announced[e].source IN
                              /\ s.manifest = s.files
                              /\ Ordinary(s)
                              /\ Held(s.files) \cap Forbidden = {}
      BY DEF AnnouncedMatchesManifest
    <2>1. announced[e] \in Archives /\ Ordinary(announced[e].source) /\ Verdict(announced[e].source) = "ok"
      BY DEF DeliveryInv, ExportInv
    <2>2. announced[e].source \in Snapshots
      BY <2>1 DEF Archives
    <2>3. Whole(announced[e])
      BY <2>1, NoArchive DEF Whole, NoArchive
    <2> QED
      BY <2>1, <2>2, <2>3, OkMeansMatch
  <1> QED
    BY <1>1, DeliveryInvariant, PTL

\* An export that nobody disturbs until git status has printed nothing is the
\* commit in its name.
THEOREM Undisturbed == Spec => []UndisturbedIsCommit
  <1>1. DeliveryInv => UndisturbedIsCommit
    BY DEF DeliveryInv, ExportInv, UndisturbedIsCommit
  <1> QED
    BY <1>1, DeliveryInvariant, PTL

\* A delivery check that succeeds has two equal, whole archives, and if either
\* export was undisturbed they are the commit they name.
THEOREM Reproduced == Spec => []DeliveryProvesReproduction
  <1>1. DeliveryInv => DeliveryProvesReproduction
    <2> SUFFICES ASSUME DeliveryInv, delivery = "proved"
                 PROVE  /\ Whole(archive[First])
                        /\ archive[First] = archive[Second]
                        /\ undisturbed[First] \/ undisturbed[Second] =>
                              archive[First].source = commits[archive[First].commit]
      BY DEF DeliveryProvesReproduction
    <2>1. First \in Exports /\ Second \in Exports
      BY ConstantsOK DEF ConstantsOK
    <2>2. pc[First] = "done" /\ pc[Second] = "done" /\ archive[First] = archive[Second]
      BY DEF DeliveryInv, CheckInv
    <2>3. \A e \in {First, Second} :
             /\ announced[e] \in Archives /\ announced[e] = archive[e]
             /\ undisturbed[e] => announced[e].source = commits[announced[e].commit]
      BY <2>1, <2>2 DEF DeliveryInv, ExportInv
    <2>4. Whole(archive[First])
      BY <2>3, NoArchive DEF Whole, NoArchive
    <2> QED
      BY <2>2, <2>3, <2>4
  <1> QED
    BY <1>1, DeliveryInvariant, PTL

\* On a clean tree whose manifest was just generated and committed, the export of
\* the commit is accepted exactly if no symbolic link is tracked, nothing
\* forbidden or left out of the manifest is, and no ignored file got into the
\* manifest: the three programs disagree on nothing else.
THEOREM FreshVerdict == Spec => []FreshManifestVerdict
  <1>1. TypeOK => FreshManifestVerdict
    <2> DEFINE s == HeadCommit
               tracked == /\ Held(s.files) \cap (Forbidden \cup Excluded) = {}
                          /\ Held(s.manifest) \cap Ignored \subseteq Held(s.files)
    <2> SUFFICES ASSUME TypeOK, Clean, s.manifest = Generated(tree.files), Ordinary(s)
                 PROVE  Verdict(s) = "ok" <=> tracked
      BY DEF FreshManifestVerdict, Accepted
    <2>1. s.files \in Listing /\ tree.files \in Listing
      BY HeadIsSnapshot DEF TypeOK, Snapshots
    <2>2. s.manifest \in Listing /\ s.manifest # None /\ s.manifest # Garbled
      BY <2>1, GeneratedType, NoArchive DEF NoArchive
    <2>3. ASSUME NEW p \in Paths
          PROVE  /\ p \in Excluded => s.manifest[p] = None
                 /\ p \notin Excluded /\ tree.files[p] = s.files[p] => s.manifest[p] = s.files[p]
                 /\ tree.files[p] # s.files[p] => s.files[p] = None /\ p \in Ignored
      <3>1. s.manifest[p] = IF p \in Excluded THEN None ELSE Followed(tree.files[p])
        BY DEF Generated
      <3>2. Followed(s.files[p]) = s.files[p]
        BY <2>1, FollowedType DEF Ordinary, Listing
      <3> QED
        BY <3>1, <3>2 DEF Clean
    <2>4. Verdict(s) = "ok" <=>
             /\ Held(s.files) \cap Forbidden = {}
             /\ \A p \in Paths : s.manifest[p] = s.files[p]
      BY <2>2 DEF Verdict, Held
    <2>5. (\A p \in Paths : s.manifest[p] = s.files[p]) <=>
             /\ Held(s.files) \cap Excluded = {}
             /\ Held(s.manifest) \cap Ignored \subseteq Held(s.files)
      BY <2>3 DEF Held
    <2> QED
      BY <2>4, <2>5
  <1> QED
    BY <1>1, TypeCorrect, PTL

-----------------------------------------------------------------------------
(* The candidate check *)

\* What the candidate check has found out about the files of the working tree.
CandidateAccepted ==
    /\ Copyable
    /\ Accepted(CandidateCommit)
    /\ Hygienic(CandidateCommit)
    /\ MutationRefused(CandidateCommit)

\* Its verdict stays good until a file is written: who writes a file starts over.
CandidateInv == candidate => CandidateAccepted

\* The verdict is about the files, and about nothing else of the repository.
LEMMA VerdictStays ==
  ASSUME CandidateInv, tree'.files = tree.files, candidate' = candidate
  PROVE  CandidateInv'
  <1>1. CandidateCommit' = CandidateCommit /\ Copyable' = Copyable
    BY DEF CandidateCommit, Copied, Copyable
  <1> QED
    BY <1>1 DEF CandidateInv, CandidateAccepted

\* Every step keeps the verdict true.
LEMMA CandidateStep ==
  TypeOK /\ CandidateInv /\ [Next]_vars => CandidateInv'
  <1> SUFFICES ASSUME TypeOK, CandidateInv, [Next]_vars PROVE CandidateInv'
    OBVIOUS
  <1>1. CASE Developer
    <2>1. ASSUME \/ \E p \in Paths : \E c \in Contents \cup {None} : Edit(p, c)
                 \/ Restore
          PROVE  CandidateInv'
      BY <2>1 DEF Edit, Restore, CandidateInv
    <2>2. ASSUME (\E p \in Paths : StageForced(p)) \/ StageAll \/ Commit \/ ListFiles \/ HashFile
          PROVE  tree'.files = tree.files /\ candidate' = candidate
      BY <2>2 DEF StageForced, StageAll, Commit, ListFiles, HashFile, repository
    <2>3. ASSUME WriteManifest \/ InterruptManifest
          PROVE  tree'.files = tree.files /\ candidate' = candidate
      BY <2>3 DEF WriteManifest, InterruptManifest, TypeOK, Snapshots
    <2> QED
      BY <1>1, <2>1, <2>2, <2>3, VerdictStays DEF Developer
  <1>2. ASSUME NEW e \in Exports, Resolve(e) \/ Export(e) \/ Kill(e) PROVE CandidateInv'
    <2>1. tree' = tree /\ candidate' = candidate
      BY <1>2 DEF Resolve, Export, Kill, ReadIndex, VerifySource, OpenArchive, FinishArchive,
                  Announce, End, Proceed, Go, StayingPut, repository
    <2> QED
      BY <2>1, VerdictStays
  <1>3. CASE StartDelivery \/ DeliveryStep
    <2>1. tree' = tree /\ candidate' = candidate
      BY <1>3 DEF StartDelivery, DeliveryStep, AwaitExport, Compare, MutateClone, Deliver, repository
    <2> QED
      BY <2>1, VerdictStays
  <1>4. CASE CandidateCheck
    <2>1. candidate' = CandidateAccepted /\ tree' = tree
      BY <1>4, Zenon DEF CandidateCheck, CandidateAccepted, repository
    <2>2. CandidateCommit' = CandidateCommit /\ Copyable' = Copyable
      BY <2>1 DEF CandidateCommit, Copied, Copyable
    <2> QED
      BY <2>1, <2>2 DEF CandidateInv, CandidateAccepted
  <1>5. CASE UNCHANGED vars
    BY <1>5, VerdictStays DEF vars, repository
  <1> QED
    BY <1>1, <1>2, <1>3, <1>4, <1>5 DEF Next

\* On a clean tree of ordinary files with a fresh manifest, the commit the
\* candidate check has made is the last commit: what it has left out is not
\* tracked, and no tracked file is another one when it is followed.
LEMMA CandidateIsHead ==
  ASSUME TypeOK, Clean, HeadCommit.manifest = Generated(tree.files),
         Held(index.files) \cap (Ignored \cup Uncopied) = {},
         Ordinary(HeadCommit)
  PROVE  CandidateCommit = HeadCommit
  <1> DEFINE nothing == [p \in Paths |-> None]
  <1>1. HeadCommit = index /\ index \in Snapshots /\ index.files \in Listing /\ tree.files \in Listing
    BY DEF Clean, TypeOK, Snapshots
  <1>2. ASSUME NEW p \in Paths
        PROVE  (IF p \in Ignored THEN None ELSE Copied[p]) = index.files[p]
    <2>1. tree.files[p] # index.files[p] => index.files[p] = None /\ p \in Ignored
      BY DEF Clean
    <2>2. p \in Ignored \cup Uncopied => index.files[p] = None
      BY DEF Held
    <2>3. Followed(index.files[p]) = index.files[p]
      BY <1>1, FollowedType DEF Ordinary, Listing
    <2> QED
      BY <2>1, <2>2, <2>3 DEF Copied
  <1>3. Staged(nothing, Copied) = index.files
    BY <1>1, <1>2 DEF Staged, Listing
  <1>4. Generated(Copied) = Generated(tree.files)
    <2>1. ASSUME NEW p \in Paths, p \notin Excluded
          PROVE  Followed(Copied[p]) = Followed(tree.files[p])
      <3>1. Copied[p] = Followed(tree.files[p])
        BY <2>1, ConstantsOK DEF ConstantsOK, Copied
      <3>2. tree.files[p] \in Contents \cup {Mutated, None}
        BY <1>1 DEF Listing
      <3> QED
        BY <3>1, <3>2, FollowedType
    <2> QED
      BY <2>1 DEF Generated
  <1>5. CandidateCommit = [files |-> index.files, manifest |-> index.manifest]
    BY <1>1, <1>3, <1>4 DEF CandidateCommit
  <1> QED
    BY <1>1, <1>5 DEF Snapshots

\* When the candidate check has passed, the files stay and are committed with a
\* manifest of them, and no tracked file is hidden from the check, the commit
\* passes the real checks exactly if none of its files is a symbolic link: the
\* check follows links, the exporter refuses them.
THEOREM CandidatePrediction == Spec => []CandidatePredicts
  <1>1. Init => CandidateInv
    BY DEF Init, CandidateInv
  <1>2. TypeOK /\ CandidateInv => CandidatePredicts
    BY CandidateIsHead DEF CandidateInv, CandidateAccepted, CandidatePredicts, Accepted
  <1> QED
    BY <1>1, <1>2, CandidateStep, TypeCorrect, PTL DEF Spec

=============================================================================
