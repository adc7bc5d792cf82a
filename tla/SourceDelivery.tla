--------------------------- MODULE SourceDelivery ---------------------------
(***************************************************************************)
(* Source delivery: generate_checksums.py writes the checksum manifest,    *)
(* package_source.py exports the tracked source, check_emp010.py proves    *)
(* the export reproducible.  A developer edits, stages, commits and resets *)
(* the same Git repository while they run.  Git itself is external.        *)
(*                                                                         *)
(* A file is a path and its content; the SHA-256 of a content stands for   *)
(* the content.  Each export has an output directory of its own.           *)
(***************************************************************************)
EXTENDS Naturals, Sequences

CONSTANTS
    Paths,          \* paths of the repository, the manifest's excepted
    Contents,       \* what a file may hold
    Original,       \* what README.md holds in the first commit
    Links,          \* contents that are symbolic links
    Target,         \* what the file holds a link points to, None if there is none
    Mutated,        \* README.md after the controlled mutation
    None,           \* no file, no archive, no answer
    Garbled,        \* a manifest, or a ZIP, with a part of it missing
    Readme,         \* the path of README.md
    Ignored,        \* paths .gitignore names
    Excluded,       \* paths generate_checksums.py leaves out
    Forbidden,      \* paths package_source.py refuses
    Unhygienic,     \* paths check_emp010.py refuses in an archive
    Uncopied,       \* paths the candidate check does not copy
    Rank,           \* the place of a path among the sorted paths
    MayHold,        \* what the developer writes to each path
    Exports,        \* runs of package_source.py
    First, Second,  \* the two of them the delivery check makes
    MaxCommits,     \* bound on the commits of the branch
    MaxOperations   \* bound on what the developer does

ASSUME ConstantsOK ==
    /\ Links \subseteq Contents
    /\ Original \in Contents \ Links
    /\ Mutated \notin Contents
    /\ {None, Garbled} \cap (Contents \cup {Mutated}) = {}
    /\ Readme \in Paths
    /\ Ignored \cup Excluded \cup Forbidden \cup Unhygienic \subseteq Paths
    /\ Uncopied \subseteq Excluded
    /\ Target \in [Links -> (Contents \ Links) \cup {None}]
    /\ Rank \in [Paths -> Nat]
    /\ \A p, q \in Paths : Rank[p] = Rank[q] => p = q
    /\ MayHold \in [Paths -> SUBSET Contents]
    /\ First \in Exports /\ Second \in Exports /\ First # Second
    /\ MaxCommits \in Nat /\ MaxOperations \in Nat

VARIABLES
    tree,        \* the working tree
    index,       \* Git's index
    commits,     \* the commits of the branch; HEAD is the last
    digests,     \* what generate_checksums.py has computed, before it writes
    unhashed,    \* the files it has listed and not yet read
    operations,  \* operations of the developer so far
    pc,          \* where an export is
    label,       \* the commit an export has resolved HEAD to
    entries,     \* what an export has read from the index
    undisturbed, \* index and HEAD stayed from resolving HEAD to the checks
    archive,     \* the ZIP in the directory of an export
    announced,   \* the ZIP whose digest the last run of an export printed
    delivery,    \* where the delivery check is
    candidate    \* the candidate check has passed on this working tree

repository == <<tree, index, commits>>
exporting == <<pc, label, entries, undisturbed, archive, announced>>
generating == <<digests, unhashed>>
vars == <<repository, generating, operations, exporting, delivery, candidate>>

-----------------------------------------------------------------------------
(* Snapshots: what a working tree, an index or a commit holds *)

Listing == [Paths -> Contents \cup {Mutated, None}]
Manifests == Listing \cup {None, Garbled}
Snapshots == [files : Listing, manifest : Manifests]

\* A whole ZIP: the commit in its name, and what it holds
Archives == [commit : Nat, source : Snapshots]

ASSUME NoArchive == {None, Garbled} \cap (Archives \cup Listing) = {}

Newest == Len(commits)
HeadCommit == commits[Newest]

Held(files) == {p \in Paths : files[p] # None}

\* What a program reads that opens a file of the working tree
Followed(c) == IF c \in Links THEN Target[c] ELSE c

\* Mutant: .gitignore decides, too, and so leaves out files that are tracked.
GeneratedUnlessIgnored(files) ==
    [p \in Paths |-> IF p \in Excluded \cup Ignored THEN None ELSE Followed(files[p])]

\* The manifest of a working tree: it knows of neither Git nor .gitignore, and
\* gives a symbolic link the digest of the file it points to.
Generated(files) == [p \in Paths |-> IF p \in Excluded THEN None ELSE Followed(files[p])]

\* git add -A: an ignored file is staged only if it is tracked already.
Staged(old, files) ==
    [p \in Paths |-> IF p \in Ignored /\ old[p] = None THEN None ELSE files[p]]

\* git reset --hard: untracked files stay.
Restored(old, files, to) ==
    [p \in Paths |-> IF to[p] = None /\ old[p] = None THEN files[p] ELSE to[p]]

\* git status --porcelain prints nothing.
Clean ==
    /\ index = HeadCommit
    /\ tree.manifest = index.manifest
    /\ \A p \in Paths : tree.files[p] # index.files[p] =>
          index.files[p] = None /\ p \in Ignored

\* Mutant: the manifest may list more than is tracked.
VerdictOfSupersets(s) ==
    CASE s.manifest = None -> "not tracked"
      [] Held(s.files) \cap Forbidden # {} -> "forbidden"
      [] s.manifest = Garbled -> "malformed"
      [] ~(Held(s.files) \subseteq Held(s.manifest)) -> "does not match"
      [] \E p \in Held(s.files) : s.manifest[p] # s.files[p] -> "stale"
      [] OTHER -> "ok"

\* verify_source, from the tracked entries on
Verdict(s) ==
    CASE s.manifest = None -> "not tracked"
      [] Held(s.files) \cap Forbidden # {} -> "forbidden"
      [] s.manifest = Garbled -> "malformed"
      [] Held(s.manifest) # Held(s.files) -> "does not match"
      [] \E p \in Held(s.files) : s.manifest[p] # s.files[p] -> "stale"
      [] OTHER -> "ok"

\* tracked_entries stops at a symbolic link.
Ordinary(s) == \A p \in Paths : s.files[p] \notin Links

\* What package_source.py makes an archive of, on a clean tree
Accepted(s) == Ordinary(s) /\ Verdict(s) = "ok"

\* The commit of the delivery check's self test: README.md, one line longer
WithMutation(s) == [s EXCEPT !.files = [@ EXCEPT ![Readme] = Mutated]]

\* The self test wants the export of the mutated commit refused as stale.  If
\* README.md is a link, the line goes to another file and git commit fails; if
\* another file is one, the export is refused for that.
MutationRefused(s) == Ordinary(s) /\ Verdict(WithMutation(s)) = "stale"

Hygienic(s) == Held(s.files) \cap Unhygienic = {}

-----------------------------------------------------------------------------
Init ==
    /\ LET files == [p \in Paths |-> IF p = Readme THEN Original ELSE None]
       IN index = [files |-> files, manifest |-> files]
    /\ tree = index
    /\ commits = <<index>>
    /\ digests = None
    /\ unhashed = {}
    /\ operations = 0
    /\ pc = [e \in Exports |-> "idle"]
    /\ label = [e \in Exports |-> 0]
    /\ entries = [e \in Exports |-> None]
    /\ undisturbed = [e \in Exports |-> TRUE]
    /\ archive = [e \in Exports |-> None]
    /\ announced = [e \in Exports |-> None]
    /\ delivery = "idle"
    /\ candidate = FALSE

-----------------------------------------------------------------------------
(* The developer *)

Operate ==
    /\ operations < MaxOperations
    /\ operations' = operations + 1
    /\ UNCHANGED <<pc, label, entries, archive, announced, delivery>>

Disturb ==
    undisturbed' = [e \in Exports |-> undisturbed[e] /\ pc[e] \notin {"resolved", "indexed"}]

\* Write or delete (c = None) a file.
Edit(p, c) ==
    /\ Operate
    /\ c \in MayHold[p] \cup {None}
    /\ tree.files[p] # c
    /\ tree' = [tree EXCEPT !.files = [@ EXCEPT ![p] = c]]
    /\ candidate' = FALSE
    /\ UNCHANGED <<index, commits, generating, undisturbed>>

\* git reset --hard
Restore ==
    /\ Operate
    /\ Disturb
    /\ tree' = [files |-> Restored(index.files, tree.files, HeadCommit.files),
                manifest |-> HeadCommit.manifest]
    /\ index' = HeadCommit
    /\ candidate' = FALSE
    /\ UNCHANGED <<commits, generating>>

\* git add -A
StageAll ==
    /\ Operate
    /\ Disturb
    /\ index' = [files |-> Staged(index.files, tree.files), manifest |-> tree.manifest]
    /\ UNCHANGED <<tree, commits, generating, candidate>>

\* git add -f
StageForced(p) ==
    /\ Operate
    /\ Disturb
    /\ tree.files[p] # None
    /\ index' = [index EXCEPT !.files = [@ EXCEPT ![p] = tree.files[p]]]
    /\ UNCHANGED <<tree, commits, generating, candidate>>

\* git commit
Commit ==
    /\ Operate
    /\ Disturb
    /\ Newest < MaxCommits
    /\ index # HeadCommit
    /\ commits' = Append(commits, index)
    /\ UNCHANGED <<tree, index, generating, candidate>>

\* generate_checksums.py lists the files ...
ListFiles ==
    /\ Operate
    /\ digests = None
    /\ digests' = [p \in Paths |-> None]
    /\ unhashed' = Held(Generated(tree.files))
    /\ UNCHANGED <<repository, undisturbed, candidate>>

\* ... reads them one after the other, and fails if one is gone by then ...
HashFile ==
    /\ digests # None
    /\ \E p \in unhashed :
          /\ \A q \in unhashed : Rank[p] <= Rank[q]
          /\ LET digest == Followed(tree.files[p])
             IN \/ /\ digest # None
                   /\ digests' = [digests EXCEPT ![p] = digest]
                   /\ unhashed' = unhashed \ {p}
                \/ /\ digest = None
                   /\ digests' = None
                   /\ unhashed' = {}
    /\ UNCHANGED <<repository, operations, exporting, delivery, candidate>>

\* ... and writes their digests in order.
WriteManifest ==
    /\ digests # None /\ unhashed = {}
    /\ tree' = [tree EXCEPT !.manifest = digests]
    /\ digests' = None
    /\ UNCHANGED <<index, commits, unhashed, operations, exporting, delivery, candidate>>

LinesBefore(p) == [q \in Paths |-> IF Rank[q] < Rank[p] THEN digests[q] ELSE None]

\* A write that is interrupted leaves the first lines, the last of them perhaps
\* torn.
InterruptManifest ==
    /\ digests # None
    /\ \/ UNCHANGED tree
       \/ /\ unhashed = {}
          /\ \E left \in {Garbled} \cup {LinesBefore(p) : p \in Paths} :
                tree' = [tree EXCEPT !.manifest = left]
    /\ digests' = None
    /\ unhashed' = {}
    /\ UNCHANGED <<index, commits, operations, exporting, delivery, candidate>>

-----------------------------------------------------------------------------
(* package_source.py.  Each export may be killed between any two steps; what *)
(* a process has read is gone when it ends.                                   *)

Ended == {"done", "failed", "killed"}
Running == {"resolved", "indexed", "verified", "writing", "written"}

StayingPut == UNCHANGED <<repository, generating, operations, delivery, candidate>>

\* An export runs by itself, or in its turn of the delivery check.
MayStart(e) ==
    \/ delivery = "idle" /\ e # Second /\ pc[e] \in {"idle"} \cup Ended
    \/ delivery = "first" /\ e = First /\ pc[e] = "idle"
    \/ delivery = "second" /\ e = Second /\ pc[e] = "idle"

\* The step of an export: to goto, with what it has in hand
Go(e, goto, commit, snapshot) ==
    /\ pc' = [pc EXCEPT ![e] = goto]
    /\ label' = [label EXCEPT ![e] = commit]
    /\ entries' = [entries EXCEPT ![e] = snapshot]
    /\ StayingPut

Proceed(e, goto) == Go(e, goto, label[e], entries[e])

End(e, how) ==
    /\ Go(e, how, 0, None)
    /\ undisturbed' = [undisturbed EXCEPT ![e] = how = "done" /\ @]

\* git rev-parse HEAD
Resolve(e) ==
    /\ MayStart(e)
    /\ Go(e, "resolved", Newest, None)
    /\ undisturbed' = [undisturbed EXCEPT ![e] = TRUE]
    /\ announced' = [announced EXCEPT ![e] = None]
    /\ UNCHANGED archive

\* git ls-files --stage
ReadIndex(e) ==
    /\ pc[e] = "resolved"
    /\ \/ Ordinary(index) /\ Go(e, "indexed", label[e], index) /\ UNCHANGED undisturbed
       \/ ~Ordinary(index) /\ End(e, "failed")
    /\ UNCHANGED <<archive, announced>>

\* Mutant: the working tree is not looked at.
VerifyOnlyEntries(e) ==
    /\ pc[e] = "indexed"
    /\ \/ Verdict(entries[e]) = "ok" /\ Proceed(e, "verified") /\ UNCHANGED undisturbed
       \/ Verdict(entries[e]) # "ok" /\ End(e, "failed")
    /\ UNCHANGED <<archive, announced>>

\* verify_source: git status, then the entries and their blobs
VerifySource(e) ==
    /\ pc[e] = "indexed"
    /\ LET ok == Clean /\ Verdict(entries[e]) = "ok"
       IN \/ ok /\ Proceed(e, "verified") /\ UNCHANGED undisturbed
          \/ ~ok /\ End(e, "failed")
    /\ UNCHANGED <<archive, announced>>

\* An older archive of this name is removed, and the new one begun.
OpenArchive(e) ==
    /\ pc[e] = "verified"
    /\ Proceed(e, "writing")
    /\ archive' = [archive EXCEPT ![e] = Garbled]
    /\ UNCHANGED <<undisturbed, announced>>

FinishArchive(e) ==
    /\ pc[e] = "writing"
    /\ Proceed(e, "written")
    /\ archive' = [archive EXCEPT ![e] = [commit |-> label[e], source |-> entries[e]]]
    /\ UNCHANGED <<undisturbed, announced>>

\* Mutant: the archive is announced while it is being written.
AnnounceEarly(e) ==
    /\ pc[e] = "writing"
    /\ End(e, "done")
    /\ announced' = [announced EXCEPT ![e] = archive[e]]
    /\ UNCHANGED archive

\* The digest printed is that of the file on disk.
Announce(e) ==
    /\ pc[e] = "written"
    /\ End(e, "done")
    /\ announced' = [announced EXCEPT ![e] = archive[e]]
    /\ UNCHANGED archive

Kill(e) ==
    /\ pc[e] \in Running
    /\ End(e, "killed")
    /\ UNCHANGED <<archive, announced>>

Export(e) ==
    \/ ReadIndex(e)
    \/ VerifySource(e)
    \/ OpenArchive(e)
    \/ FinishArchive(e)
    \/ Announce(e)

-----------------------------------------------------------------------------
(* check_emp010.py *)

Deliver(to) ==
    /\ delivery' = to
    /\ UNCHANGED <<repository, generating, operations, candidate>>

\* delivery_check wants a clean tree; its two exports get fresh directories.
StartDelivery ==
    /\ delivery \in {"idle", "proved", "refused"}
    /\ \A e \in {First, Second} : pc[e] \notin Running
    /\ Deliver(IF Clean THEN "first" ELSE "refused")
    /\ pc' = [e \in Exports |-> IF e \in {First, Second} THEN "idle" ELSE pc[e]]
    /\ archive' = [e \in Exports |-> IF e \in {First, Second} THEN None ELSE archive[e]]
    /\ announced' = [e \in Exports |-> IF e \in {First, Second} THEN None ELSE announced[e]]
    /\ UNCHANGED <<label, entries, undisturbed>>

\* Mutant: an export that fails is waited for.
AwaitSuccess(e, turn, next) ==
    /\ delivery = turn
    /\ pc[e] = "done"
    /\ Deliver(next)
    /\ UNCHANGED exporting

\* run_export: an export that fails, or is killed, fails the check.
AwaitExport(e, turn, next) ==
    /\ delivery = turn
    /\ pc[e] \in Ended
    /\ Deliver(IF pc[e] = "done" THEN next ELSE "refused")
    /\ UNCHANGED exporting

\* Mutant: only the hygiene of the archives is looked at.
CompareHygieneOnly ==
    /\ delivery = "compare"
    /\ Deliver(IF \A e \in {First, Second} : Hygienic(archive[e].source)
               THEN "clone" ELSE "refused")
    /\ UNCHANGED exporting

\* The digests of both archives, and the names in them
Compare ==
    /\ delivery = "compare"
    /\ Deliver(IF /\ archive[First] = archive[Second]
                  /\ \A e \in {First, Second} : Hygienic(archive[e].source)
               THEN "clone" ELSE "refused")
    /\ UNCHANGED exporting

\* The export of a clone with a mutated README.md has to fail.
MutateClone ==
    /\ delivery = "clone"
    /\ Deliver(IF MutationRefused(HeadCommit) THEN "proved" ELSE "refused")
    /\ UNCHANGED exporting

DeliveryStep ==
    \/ AwaitExport(First, "first", "second")
    \/ AwaitExport(Second, "second", "compare")
    \/ Compare
    \/ MutateClone

\* What shutil.copytree copies of the files: it follows symbolic links.
Copied == [p \in Paths |-> IF p \in Uncopied THEN None ELSE Followed(tree.files[p])]

\* It fails on a link that points to nothing.
Copyable == \A p \in Paths \ Uncopied : tree.files[p] # None => Followed(tree.files[p]) # None

\* The commit the candidate check makes of the copy
CandidateCommit ==
    [files |-> Staged([p \in Paths |-> None], Copied), manifest |-> Generated(Copied)]

\* Mutant: the exports of the candidate are not looked at.
CandidateCheckLenient ==
    /\ candidate' = Hygienic(CandidateCommit)
    /\ UNCHANGED <<repository, generating, operations, exporting, delivery>>

\* candidate_delivery_check: manifest, commit and delivery_check, in a repository
\* that nobody else works on
CandidateCheck ==
    /\ candidate' = (/\ Copyable
                     /\ Accepted(CandidateCommit)
                     /\ Hygienic(CandidateCommit)
                     /\ MutationRefused(CandidateCommit))
    /\ UNCHANGED <<repository, generating, operations, exporting, delivery>>

-----------------------------------------------------------------------------
Developer ==
    \/ \E p \in Paths : \E c \in Contents \cup {None} : Edit(p, c)
    \/ \E p \in Paths : StageForced(p)
    \/ Restore
    \/ StageAll
    \/ Commit
    \/ ListFiles
    \/ HashFile
    \/ WriteManifest
    \/ InterruptManifest

Next ==
    \/ Developer
    \/ \E e \in Exports : Resolve(e) \/ Export(e) \/ Kill(e)
    \/ StartDelivery
    \/ DeliveryStep
    \/ CandidateCheck

Spec == Init /\ [][Next]_vars

\* A process that runs takes its next step; nobody has to start one, and the
\* developer has to do nothing.
FairSpec ==
    /\ Spec
    /\ \A e \in Exports : WF_vars(Export(e))
    /\ WF_vars(Resolve(First) /\ delivery = "first")
    /\ WF_vars(Resolve(Second) /\ delivery = "second")
    /\ WF_vars(DeliveryStep)

-----------------------------------------------------------------------------
Whole(a) == a \notin {None, Garbled}

TypeOK ==
    /\ tree \in Snapshots
    /\ index \in Snapshots
    /\ commits \in Seq(Snapshots) /\ commits # <<>>
    /\ digests \in Listing \cup {None}
    /\ unhashed \subseteq Paths
    /\ operations \in 0..MaxOperations
    /\ pc \in [Exports -> {"idle"} \cup Running \cup Ended]
    /\ label \in [Exports -> Nat]
    /\ entries \in [Exports -> Snapshots \cup {None}]
    /\ undisturbed \in [Exports -> BOOLEAN]
    /\ archive \in [Exports -> Archives \cup {None, Garbled}]
    /\ announced \in [Exports -> Archives \cup {None}]
    /\ delivery \in {"idle", "first", "second", "compare", "clone", "proved", "refused"}
    /\ candidate \in BOOLEAN

\* Whoever gets an announced archive can check it against the manifest in it:
\* both name the same files with the same digests, no file is forbidden and
\* each is an ordinary one.  It holds whatever the developer did meanwhile
\* (package_source.py reads the index once, and blobs by their identifier).
AnnouncedMatchesManifest ==
    \A e \in Exports : announced[e] # None =>
        /\ Whole(announced[e])
        /\ LET s == announced[e].source IN
              /\ s.manifest = s.files
              /\ Ordinary(s)
              /\ Held(s.files) \cap Forbidden = {}

\* An archive is the commit in its name if neither the index nor HEAD moved
\* between git rev-parse and git status of its export.
UndisturbedIsCommit ==
    \A e \in Exports :
        pc[e] = "done" /\ undisturbed[e] =>
            /\ announced[e].commit \in 1..Newest
            /\ announced[e].source = commits[announced[e].commit]

\* What the documentation promises of each archive: "from immutable blobs of a
\* clean Git commit".
ArchiveIsItsCommit ==
    \A e \in Exports : announced[e] # None =>
        announced[e].source = commits[announced[e].commit]

\* A delivery check that succeeds has two archives with the same bytes; and one
\* export that nobody disturbed is enough for both to be the commit they name.
DeliveryProvesReproduction ==
    delivery = "proved" =>
        /\ Whole(archive[First])
        /\ archive[First] = archive[Second]
        /\ undisturbed[First] \/ undisturbed[Second] =>
              archive[First].source = commits[archive[First].commit]

\* A tree that is committed as it is, with a manifest just regenerated, can be
\* exported, unless an ignored file of the developer's was digested, a file is
\* tracked that no export may hold, or one is a symbolic link, whose digest the
\* generator takes from the file it points to: .gitignore, generate_checksums.py
\* and package_source.py each decide for themselves what is a file of the source.
FreshManifestVerdict ==
    Clean /\ HeadCommit.manifest = Generated(tree.files) =>
        (Accepted(HeadCommit) <=>
            /\ Ordinary(HeadCommit)
            /\ Held(HeadCommit.files) \cap (Forbidden \cup Excluded) = {}
            /\ Held(HeadCommit.manifest) \cap Ignored \subseteq Held(HeadCommit.files))

\* The candidate check tries a delivery before the commit: when that passed, the
\* files stay and they are committed with a manifest of them, their export passes,
\* too, and fails once README.md is mutated; except that the check sees no tracked
\* file that is ignored or not copied, and that it sees the file a symbolic link
\* points to where the export sees the link.
CandidatePredicts ==
    /\ candidate
    /\ Clean
    /\ HeadCommit.manifest = Generated(tree.files)
    /\ Held(index.files) \cap (Ignored \cup Uncopied) = {}
    => (Ordinary(HeadCommit) <=> Accepted(HeadCommit) /\ MutationRefused(HeadCommit))

\* A delivery check that began ends, also when an export is killed.
DeliveryEnds ==
    delivery \in {"first", "second", "compare", "clone"} ~> delivery \in {"proved", "refused"}
=============================================================================
