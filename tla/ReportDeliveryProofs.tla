------------------------- MODULE ReportDeliveryProofs -------------------------
(***************************************************************************)
(* What holds of ReportDelivery for every set of inputs and observations   *)
(* and any number of pushes.                                               *)
(***************************************************************************)
EXTENDS ReportDelivery, TLAPS

(***************************************************************************)
(* The inductive invariant.                                                *)
(***************************************************************************)

\* A report commit grew from the report it was compared with, and differs
\* from it in material.
CommitsSound ==
  \A c \in DOMAIN commits :
    /\ commits[c].base = commits[c].prior
    /\ commits[c].material # MaterialOf(commits[c].prior)

\* A run works from one checkout; past the decision its material is news to
\* that checkout, and past the push it is the newest commit's.  Nothing has
\* tested that commit before the run dispatches Quality for it.
RunSound ==
  /\ run.base = run.prior
  /\ run.phase = "publishing" => run.material # MaterialOf(run.prior)
  /\ run.phase \in {"pushed", "listed", "proposed"} =>
       /\ run.material = commits[Tip].material
       /\ commits[Tip].quality = "none"

\* Open pull requests follow the branch, of which there is only one, and a
\* merged one was tested.
PullsSound ==
  /\ \A m, n \in OpenPulls : m = n
  /\ \A n \in OpenPulls : pulls[n].head = Tip
  /\ \A n \in PullNumbers :
       pulls[n].state = "merged" => commits[pulls[n].head].quality = "passed"

\* Once anything has tested the head of a workflow pull request, its body
\* carries that head's signature, unless the owner declined it.
BodiesTrue ==
  \A n \in PullNumbers :
    /\ pulls[n].author = "bot"
    /\ pulls[n].state # "closed"
    /\ commits[pulls[n].head].quality # "none"
    => pulls[n].signature = commits[pulls[n].head].material

\* Between listing and testing, the only workflow pull request that may be
\* open is the run's own, and it carries the run's material once edited.
ProposalSound ==
  /\ run.phase = "listed" =>
       \A n \in OpenPulls : pulls[n].author = "bot" => n = run.pull
  /\ run.phase = "listed" /\ run.pull # 0 => pulls[run.pull].state # "merged"
  /\ run.phase = "proposed" =>
       \A n \in OpenPulls : pulls[n].author = "bot" => pulls[n].signature = run.material

\* Every report on main has a push of its own.
MainlineSound ==
  /\ Len(mainline) <= Main
  /\ Len(commits) <= MaxPushes

IInv == TypeOK /\ CommitsSound /\ RunSound /\ PullsSound
        /\ BodiesTrue /\ ProposalSound /\ MainlineSound

-----------------------------------------------------------------------------
(***************************************************************************)
(* How steps change the repository.                                        *)
(***************************************************************************)

\* A step that changes one pull request, and not its head, moves nothing else.
LEMMA PullChange ==
  ASSUME RepositoryTypeOK, NEW n \in PullNumbers, NEW new \in Pull,
         new.head = pulls[n].head,
         new.author = "bot" => new.signature \in Materials,
         pulls' = [pulls EXCEPT ![n] = new],
         mainline' \in Seq(DOMAIN commits),
         UNCHANGED <<inputs, commits>>
  PROVE  /\ RepositoryTypeOK'
         /\ PullNumbers' = PullNumbers
         /\ Len(pulls') = Len(pulls)
         /\ \A m \in PullNumbers : pulls'[m] = IF m = n THEN new ELSE pulls[m]
<1>1. n \in DOMAIN pulls /\ pulls \in Seq(Pull)
  BY DEF PullNumbers, RepositoryTypeOK
<1>2. pulls' \in Seq(Pull) /\ DOMAIN pulls' = DOMAIN pulls /\ Len(pulls') = Len(pulls)
  BY <1>1
<1>3. \A m \in DOMAIN pulls : pulls'[m] = IF m = n THEN new ELSE pulls[m]
  BY <1>1
<1> QED
  BY <1>1, <1>2, <1>3 DEF RepositoryTypeOK, PullNumbers

\* A step that adds evidence to one commit changes nothing else about it.
LEMMA CommitChange ==
  ASSUME RepositoryTypeOK, NEW c \in DOMAIN commits, NEW new \in Commit,
         new.material = commits[c].material,
         new.prior = commits[c].prior, new.base = commits[c].base,
         commits' = [commits EXCEPT ![c] = new],
         UNCHANGED <<inputs, mainline, pulls>>
  PROVE  /\ RepositoryTypeOK'
         /\ DOMAIN commits' = DOMAIN commits
         /\ Len(commits') = Len(commits)
         /\ \A d \in DOMAIN commits : commits'[d] = IF d = c THEN new ELSE commits[d]
<1>1. commits \in Seq(Commit)
  BY DEF RepositoryTypeOK
<1>2. commits' \in Seq(Commit) /\ DOMAIN commits' = DOMAIN commits /\ Len(commits') = Len(commits)
  BY <1>1
<1>3. \A d \in DOMAIN commits : commits'[d] = IF d = c THEN new ELSE commits[d]
  BY <1>1
<1> QED
  BY <1>1, <1>2, <1>3 DEF RepositoryTypeOK, PullNumbers

\* A new pull request takes the next number.
LEMMA PullAppend ==
  ASSUME RepositoryTypeOK, NEW new \in Pull,
         new.head \in 1 .. Len(commits),
         new.author = "bot" => new.signature \in Materials,
         pulls' = Append(pulls, new),
         UNCHANGED <<inputs, mainline, commits>>
  PROVE  /\ RepositoryTypeOK'
         /\ PullNumbers' = PullNumbers \cup {Len(pulls) + 1}
         /\ Len(pulls') = Len(pulls) + 1
         /\ pulls'[Len(pulls) + 1] = new
         /\ \A m \in PullNumbers : pulls'[m] = pulls[m]
<1>1. pulls \in Seq(Pull) /\ Len(pulls) \in Nat
  BY DEF RepositoryTypeOK
<1>2. /\ pulls' \in Seq(Pull)
      /\ DOMAIN pulls' = DOMAIN pulls \cup {Len(pulls) + 1}
      /\ Len(pulls') = Len(pulls) + 1
      /\ pulls'[Len(pulls) + 1] = new
      /\ \A m \in DOMAIN pulls : pulls'[m] = pulls[m]
  BY <1>1
<1> QED
  BY <1>1, <1>2 DEF RepositoryTypeOK, PullNumbers

\* A force-push adds one commit and moves the open pull requests to it.
LEMMA PushChange ==
  ASSUME RepositoryTypeOK, RunTypeOK, Push
  PROVE  /\ RepositoryTypeOK'
         /\ Len(commits') = Len(commits) + 1
         /\ DOMAIN commits' = DOMAIN commits \cup {Len(commits) + 1}
         /\ commits'[Len(commits) + 1] =
              [material |-> run.material, prior |-> run.prior, base |-> run.base,
               quality |-> "none", statuses |-> FALSE]
         /\ \A c \in DOMAIN commits : commits'[c] = commits[c]
         /\ PullNumbers' = PullNumbers
         /\ Len(pulls') = Len(pulls)
         /\ \A n \in PullNumbers :
              /\ n \in OpenPulls => pulls'[n] = [pulls[n] EXCEPT !.head = Len(commits) + 1]
              /\ n \notin OpenPulls => pulls'[n] = pulls[n]
<1> DEFINE new == [material |-> run.material, prior |-> run.prior, base |-> run.base,
                   quality |-> "none", statuses |-> FALSE]
<1>1. /\ commits \in Seq(Commit) /\ Len(commits) \in Nat
      /\ pulls \in Seq(Pull) /\ Len(pulls) \in Nat
      /\ mainline \in Seq(DOMAIN commits)
  BY DEF RepositoryTypeOK
<1>2. new \in Commit /\ {new.prior, new.base} \subseteq 0 .. Len(commits)
  <2>1. run.material \in Materials /\ run.prior \in 0 .. Len(commits) /\ run.base \in 0 .. Len(commits)
    BY DEF Push, RunTypeOK
  <2> QED
    BY <1>1, <2>1 DEF Commit
<1>3. commits' = Append(commits, new)
  BY DEF Push
<1> HIDE DEF new
<1>4. /\ commits' \in Seq(Commit)
      /\ Len(commits') = Len(commits) + 1
      /\ DOMAIN commits' = DOMAIN commits \cup {Len(commits) + 1}
      /\ commits'[Len(commits) + 1] = new
      /\ \A c \in DOMAIN commits : commits'[c] = commits[c]
  BY <1>1, <1>2, <1>3
<1>5. /\ DOMAIN pulls' = DOMAIN pulls
      /\ \A n \in DOMAIN pulls :
           /\ n \in OpenPulls => pulls'[n] = [pulls[n] EXCEPT !.head = Len(commits) + 1]
           /\ n \notin OpenPulls => pulls'[n] = pulls[n]
  BY DEF Push, PullNumbers, Tip
<1>6. \A n \in DOMAIN pulls :
        /\ pulls'[n] \in Pull
        /\ pulls'[n].author = pulls[n].author /\ pulls'[n].signature = pulls[n].signature
        /\ pulls'[n].head \in {pulls[n].head, Len(commits) + 1}
  <2> TAKE n \in DOMAIN pulls
  <2>1. pulls[n] \in Pull
    BY <1>1
  <2>2. CASE n \in OpenPulls
    <3> DEFINE next == Len(commits) + 1
    <3>1. pulls'[n] = [pulls[n] EXCEPT !.head = next]
      BY <1>5, <2>2
    <3>2. next \in Nat
      BY <1>1
    <3> HIDE DEF next
    <3>3. /\ [pulls[n] EXCEPT !.head = next] \in Pull
          /\ [pulls[n] EXCEPT !.head = next].author = pulls[n].author
          /\ [pulls[n] EXCEPT !.head = next].signature = pulls[n].signature
          /\ [pulls[n] EXCEPT !.head = next].head = next
      BY <2>1, <3>2 DEF Pull
    <3> QED
      BY <3>1, <3>3 DEF next
  <2>3. CASE n \notin OpenPulls
    BY <1>5, <2>1, <2>3
  <2> QED
    BY <2>2, <2>3
<1>7. pulls' \in Seq(Pull) /\ Len(pulls') = Len(pulls)
  <2>1. pulls' = [n \in DOMAIN pulls |-> pulls'[n]]
    BY DEF Push, PullNumbers
  <2>2. DOMAIN pulls = 1 .. Len(pulls)
    BY <1>1
  <2>3. pulls' \in [1 .. Len(pulls) -> Pull]
    BY <1>6, <2>1, <2>2
  <2> QED
    BY <1>1, <2>3
<1>8. mainline' \in Seq(DOMAIN commits') /\ inputs' = inputs
  <2>1. mainline' = mainline /\ DOMAIN commits \subseteq DOMAIN commits'
    BY <1>4 DEF Push
  <2> QED
    BY <1>1, <2>1 DEF Push
<1>9. RepositoryTypeOK'
  <2>1. \A n \in DOMAIN pulls' :
          /\ pulls'[n].head \in 1 .. Len(commits')
          /\ pulls'[n].author = "bot" => pulls'[n].signature \in Materials
    <3>1. \A n \in DOMAIN pulls :
            /\ pulls[n].head \in 1 .. Len(commits)
            /\ pulls[n].author = "bot" => pulls[n].signature \in Materials
      BY DEF RepositoryTypeOK, PullNumbers
    <3>2. Len(commits') = Len(commits) + 1 /\ DOMAIN pulls' = DOMAIN pulls
      BY <1>4, <1>5
    <3>3. \A n \in DOMAIN pulls : pulls'[n].head \in 1 .. Len(commits) + 1
      BY <1>1, <1>6, <3>1
    <3>4. \A n \in DOMAIN pulls : pulls'[n].author = "bot" => pulls'[n].signature \in Materials
      BY <1>6, <3>1
    <3> QED
      BY <3>2, <3>3, <3>4
  <2>2. \A c \in DOMAIN commits' : {commits'[c].prior, commits'[c].base} \subseteq 0 .. c - 1
    BY <1>1, <1>2, <1>4 DEF RepositoryTypeOK
  <2> QED
    BY <1>4, <1>7, <1>8, <2>1, <2>2 DEF RepositoryTypeOK, PullNumbers
<1> QED
  BY <1>4, <1>5, <1>7, <1>9 DEF PullNumbers, new

-----------------------------------------------------------------------------
(***************************************************************************)
(* Type correctness.                                                       *)
(***************************************************************************)

\* A run and a worker that do not move keep their types when the repository
\* only grows.
LEMMA RunFrame ==
  ASSUME RepositoryTypeOK, RunTypeOK, RepositoryTypeOK', UNCHANGED run,
         Len(commits') >= Len(commits), Len(pulls') >= Len(pulls)
  PROVE  RunTypeOK'
<1>1. /\ Len(commits) \in Nat /\ Len(commits') \in Nat
      /\ Len(pulls) \in Nat /\ Len(pulls') \in Nat
  BY DEF RepositoryTypeOK
<1>2. 0 .. Len(commits) \subseteq 0 .. Len(commits') /\ 0 .. Len(pulls) \subseteq 0 .. Len(pulls')
  BY <1>1
<1>3. run \in [phase : RunPhases, prior : 0 .. Len(commits'), base : 0 .. Len(commits'),
               inputs : Inputs, material : Materials \cup {NoMaterial},
               pull : 0 .. Len(pulls')]
  BY <1>2 DEF RunTypeOK
<1> QED
  BY <1>1, <1>3 DEF RunTypeOK

\* A worker that does not move keeps its type when pull requests are only added.
LEMMA WorkerFrame ==
  ASSUME RepositoryTypeOK, WorkerTypeOK, RepositoryTypeOK', UNCHANGED worker,
         Len(pulls') >= Len(pulls)
  PROVE  WorkerTypeOK'
<1>1. Len(pulls) \in Nat /\ Len(pulls') \in Nat
  BY DEF RepositoryTypeOK
<1> QED
  BY <1>1 DEF WorkerTypeOK

\* A step that leaves the repository alone leaves its type alone.
LEMMA RepositoryFrame ==
  ASSUME RepositoryTypeOK, UNCHANGED repository
  PROVE  RepositoryTypeOK' /\ Len(commits') = Len(commits) /\ Len(pulls') = Len(pulls)
  BY DEF RepositoryTypeOK, repository, PullNumbers

\* A run starts, and ends, with nothing in hand.
LEMMA NoRunType ==
  ASSUME NEW c \in Nat, NEW n \in Nat
  PROVE  /\ NoRun \in [phase : RunPhases, prior : 0 .. c, base : 0 .. c, inputs : Inputs,
                       material : Materials \cup {NoMaterial}, pull : 0 .. n]
         /\ NoRun.phase = "idle" /\ NoRun.base = NoRun.prior
<1>1. AnyInputs \in Inputs
  BY InputsAssumption DEF AnyInputs
<1> QED
  BY <1>1 DEF NoRun, RunPhases

\* The report on main is a pushed commit, or none.
LEMMA MainType ==
  ASSUME RepositoryTypeOK
  PROVE  Main \in 0 .. Len(commits)
  BY DEF RepositoryTypeOK, Main

\* The initial state is well typed (Init of the three components).
LEMMA TypeInit == Init => TypeOK
<1> SUFFICES ASSUME Init PROVE TypeOK
  OBVIOUS
<1>1. RepositoryTypeOK
  BY DEF Init, RepositoryInit, RepositoryTypeOK, PullNumbers
<1>2. RunTypeOK
  BY <1>1, NoRunType DEF Init, RunInit, RunTypeOK, RepositoryTypeOK
<1>3. WorkerTypeOK
  BY <1>1 DEF Init, WorkerInit, NoWork, WorkerTypeOK, RepositoryTypeOK
<1> QED
  BY <1>1, <1>2, <1>3 DEF TypeOK

-----------------------------------------------------------------------------
(***************************************************************************)
(* The effect of each step that writes a commit or a pull request.         *)
(***************************************************************************)

\* Commit c gains evidence; nothing else of any commit changes.
Evidence(c) ==
  /\ RepositoryTypeOK'
  /\ DOMAIN commits' = DOMAIN commits /\ Len(commits') = Len(commits)
  /\ \A d \in DOMAIN commits :
       /\ commits'[d].material = commits[d].material
       /\ commits'[d].prior = commits[d].prior
       /\ commits'[d].base = commits[d].base
       /\ d # c => commits'[d] = commits[d]
  /\ UNCHANGED <<inputs, mainline, pulls>>

\* Pull request n becomes new, with the head and author it had.
Revision(n, new) ==
  /\ RepositoryTypeOK'
  /\ new.head = pulls[n].head /\ new.author = pulls[n].author
  /\ PullNumbers' = PullNumbers /\ Len(pulls') = Len(pulls)
  /\ \A m \in PullNumbers : pulls'[m] = IF m = n THEN new ELSE pulls[m]
  /\ UNCHANGED <<inputs, commits>>

\* A Quality run that ends leaves its commit tested.
LEMMA QualityEndsEffect ==
  ASSUME RepositoryTypeOK, NEW c \in DOMAIN commits, QualityEnds(c)
  PROVE  /\ Evidence(c)
         /\ commits[c].quality = "dispatched"
         /\ commits'[c].quality \in {"passed", "failed"}
<1>1. PICK result \in {"passed", "failed"} :
        commits' = [commits EXCEPT ![c] = [commits[c] EXCEPT !.quality = result]]
  BY DEF QualityEnds
<1>2. commits[c] \in Commit
  BY DEF RepositoryTypeOK
<1> DEFINE new == [commits[c] EXCEPT !.quality = result]
<1>3. /\ new \in Commit /\ new.material = commits[c].material
      /\ new.prior = commits[c].prior /\ new.base = commits[c].base
      /\ new.quality = result
  BY <1>2 DEF Commit
<1>4. commits' = [commits EXCEPT ![c] = new] /\ UNCHANGED <<inputs, mainline, pulls>>
  BY <1>1 DEF QualityEnds
<1> HIDE DEF new
<1>5. /\ RepositoryTypeOK'
      /\ DOMAIN commits' = DOMAIN commits /\ Len(commits') = Len(commits)
      /\ \A d \in DOMAIN commits : commits'[d] = IF d = c THEN new ELSE commits[d]
  BY <1>3, <1>4, CommitChange
<1> QED
  BY <1>3, <1>4, <1>5 DEF QualityEnds, Evidence

\* Dispatching Quality marks the newest commit.
LEMMA DispatchQualityEffect ==
  ASSUME RepositoryTypeOK, RunTypeOK, DispatchQuality
  PROVE  Evidence(Tip) /\ Tip \in DOMAIN commits /\ commits'[Tip].quality = "dispatched"
<1>1. Tip \in DOMAIN commits /\ commits \in Seq(Commit)
  BY DEF DispatchQuality, RunTypeOK, RepositoryTypeOK, Tip
<1>2. commits[Tip] \in Commit
  BY <1>1
<1> DEFINE new == [commits[Tip] EXCEPT !.quality = "dispatched"]
<1>3. /\ new \in Commit /\ new.material = commits[Tip].material
      /\ new.prior = commits[Tip].prior /\ new.base = commits[Tip].base
      /\ new.quality = "dispatched"
  BY <1>2 DEF Commit
<1>4. commits' = [commits EXCEPT ![Tip] = new] /\ UNCHANGED <<inputs, mainline, pulls>>
  BY DEF DispatchQuality
<1> HIDE DEF new
<1>5. /\ RepositoryTypeOK'
      /\ DOMAIN commits' = DOMAIN commits /\ Len(commits') = Len(commits)
      /\ \A d \in DOMAIN commits : commits'[d] = IF d = Tip THEN new ELSE commits[d]
  BY <1>1, <1>3, <1>4, CommitChange
<1> QED
  BY <1>1, <1>3, <1>4, <1>5 DEF Evidence

\* The bridge adds the required contexts to a commit it does not otherwise touch.
LEMMA BridgeEffect ==
  ASSUME RepositoryTypeOK, RunTypeOK, Bridge
  PROVE  /\ Evidence(Tip)
         /\ \A d \in DOMAIN commits : commits'[d].quality = commits[d].quality
<1>1. Tip \in DOMAIN commits /\ commits \in Seq(Commit)
  BY DEF Bridge, RunTypeOK, RepositoryTypeOK, Tip
<1>2. commits[Tip] \in Commit
  BY <1>1
<1>3. CASE BridgeAccepts
  <2> DEFINE new == [commits[Tip] EXCEPT !.statuses = TRUE]
  <2>1. /\ new \in Commit /\ new.material = commits[Tip].material
        /\ new.prior = commits[Tip].prior /\ new.base = commits[Tip].base
        /\ new.quality = commits[Tip].quality
    BY <1>2 DEF Commit
  <2>2. commits' = [commits EXCEPT ![Tip] = new] /\ UNCHANGED <<inputs, mainline, pulls>>
    BY <1>3 DEF Bridge
  <2> HIDE DEF new
  <2>3. /\ RepositoryTypeOK'
        /\ DOMAIN commits' = DOMAIN commits /\ Len(commits') = Len(commits)
        /\ \A d \in DOMAIN commits : commits'[d] = IF d = Tip THEN new ELSE commits[d]
    BY <1>1, <2>1, <2>2, CommitChange
  <2> QED
    BY <1>1, <2>1, <2>2, <2>3 DEF Evidence
<1>4. CASE ~BridgeAccepts
  <2>1. UNCHANGED repository
    BY <1>4 DEF Bridge, repository
  <2> QED
    BY <2>1, RepositoryFrame DEF Evidence, repository
<1> QED
  BY <1>3, <1>4

\* The owner's decision changes the state or the marker of one pull request.
LEMMA OwnerEffect ==
  ASSUME RepositoryTypeOK, NEW n \in PullNumbers,
         OwnerCloses(n) \/ OwnerHolds(n) \/ OwnerReleases(n)
  PROVE  \E new \in Pull :
           /\ Revision(n, new)
           /\ new.signature = pulls[n].signature
           /\ pulls[n].state = "open" /\ new.state \in {"open", "closed"}
           /\ UNCHANGED mainline
<1>1. PICK new \in {[pulls[n] EXCEPT !.state = "closed"],
                    [pulls[n] EXCEPT !.autonomous = FALSE],
                    [pulls[n] EXCEPT !.autonomous = TRUE]} :
        pulls' = [pulls EXCEPT ![n] = new]
  BY DEF OwnerCloses, OwnerHolds, OwnerReleases
<1>2. pulls[n] \in Pull /\ pulls[n].state = "open"
  BY DEF RepositoryTypeOK, PullNumbers, OwnerCloses, OwnerHolds, OwnerReleases, OpenPulls
<1>3. /\ new \in Pull /\ new.head = pulls[n].head
      /\ new.author = pulls[n].author /\ new.signature = pulls[n].signature
      /\ new.state \in {"open", "closed"}
  BY <1>1, <1>2 DEF Pull
<1>4. new.author = "bot" => new.signature \in Materials
  BY <1>3 DEF RepositoryTypeOK
<1>5. UNCHANGED <<inputs, mainline, commits>> /\ mainline' \in Seq(DOMAIN commits)
  BY DEF OwnerCloses, OwnerHolds, OwnerReleases, RepositoryTypeOK
<1>6. /\ RepositoryTypeOK'
      /\ PullNumbers' = PullNumbers /\ Len(pulls') = Len(pulls)
      /\ \A m \in PullNumbers : pulls'[m] = IF m = n THEN new ELSE pulls[m]
  BY <1>1, <1>3, <1>4, <1>5, PullChange
<1>7. Revision(n, new)
  BY <1>3, <1>5, <1>6 DEF Revision
<1> QED
  BY <1>2, <1>3, <1>5, <1>7

\* An edit replaces the body, whatever became of the pull request meanwhile.
LEMMA EditEffect ==
  ASSUME RepositoryTypeOK, RunTypeOK, Edit
  PROVE  /\ run.pull \in PullNumbers
         /\ \E new \in Pull :
              /\ Revision(run.pull, new)
              /\ new.signature = run.material /\ new.state = pulls[run.pull].state
         /\ UNCHANGED mainline
<1>1. run.pull \in PullNumbers /\ pulls \in Seq(Pull) /\ run.material \in Materials
  BY DEF Edit, RunTypeOK, RepositoryTypeOK, PullNumbers
<1>2. pulls[run.pull] \in Pull
  BY <1>1 DEF PullNumbers
<1> DEFINE new == [pulls[run.pull] EXCEPT !.signature = run.material, !.autonomous = TRUE]
<1>3. /\ new \in Pull /\ new.head = pulls[run.pull].head
      /\ new.author = pulls[run.pull].author /\ new.state = pulls[run.pull].state
      /\ new.signature = run.material
  BY <1>1, <1>2 DEF Pull
<1>4. pulls' = [pulls EXCEPT ![run.pull] = new]
  BY DEF Edit
<1> HIDE DEF new
<1>5. UNCHANGED <<inputs, mainline, commits>> /\ mainline' \in Seq(DOMAIN commits)
  BY DEF Edit, RepositoryTypeOK
<1>6. /\ RepositoryTypeOK'
      /\ PullNumbers' = PullNumbers /\ Len(pulls') = Len(pulls)
      /\ \A m \in PullNumbers : pulls'[m] = IF m = run.pull THEN new ELSE pulls[m]
  BY <1>1, <1>3, <1>4, <1>5, PullChange
<1>7. Revision(run.pull, new)
  BY <1>3, <1>5, <1>6 DEF Revision
<1> QED
  BY <1>1, <1>3, <1>5, <1>7

\* A merge appends the pull request's head to main and decides it.
LEMMA MergeEffect ==
  ASSUME RepositoryTypeOK, WorkerTypeOK, GateMerges
  PROVE  /\ worker.pull \in PullNumbers /\ GateAccepts(worker.pull)
         /\ \E new \in Pull :
              /\ Revision(worker.pull, new)
              /\ new.signature = pulls[worker.pull].signature /\ new.state = "merged"
         /\ mainline' = Append(mainline, pulls[worker.pull].head)
         /\ pulls[worker.pull].head \in DOMAIN commits
<1>1. pulls \in Seq(Pull) /\ commits \in Seq(Commit) /\ mainline \in Seq(DOMAIN commits)
  BY DEF RepositoryTypeOK
<1>2. worker.pull \in PullNumbers
  BY <1>1 DEF GateMerges, WorkerTypeOK, PullNumbers
<1>3. pulls[worker.pull] \in Pull /\ pulls[worker.pull].head \in DOMAIN commits
  BY <1>1, <1>2 DEF RepositoryTypeOK, PullNumbers
<1> DEFINE new == [pulls[worker.pull] EXCEPT !.state = "merged"]
<1>4. /\ new \in Pull /\ new.head = pulls[worker.pull].head
      /\ new.author = pulls[worker.pull].author
      /\ new.signature = pulls[worker.pull].signature
      /\ new.state = "merged"
  BY <1>3 DEF Pull
<1>5. pulls' = [pulls EXCEPT ![worker.pull] = new]
  BY DEF GateMerges
<1> HIDE DEF new
<1>6. /\ mainline' = Append(mainline, pulls[worker.pull].head)
      /\ GateAccepts(worker.pull) /\ UNCHANGED <<inputs, commits>>
  BY DEF GateMerges
<1>7. mainline' \in Seq(DOMAIN commits)
  BY <1>1, <1>3, <1>6
<1>8. new.author = "bot" => new.signature \in Materials
  BY <1>2, <1>4 DEF RepositoryTypeOK
<1>9. /\ RepositoryTypeOK'
      /\ PullNumbers' = PullNumbers /\ Len(pulls') = Len(pulls)
      /\ \A m \in PullNumbers : pulls'[m] = IF m = worker.pull THEN new ELSE pulls[m]
  BY <1>2, <1>4, <1>5, <1>6, <1>7, <1>8, PullChange
<1>10. Revision(worker.pull, new)
  BY <1>4, <1>6, <1>9 DEF Revision
<1> QED
  BY <1>2, <1>3, <1>4, <1>6, <1>10

\* A pull request is opened by hand, or by a run, at the branch's newest commit.
Opened(new) ==
  /\ RepositoryTypeOK'
  /\ OpenPulls = {}
  /\ new.state = "open" /\ new.head = Tip /\ Tip \in DOMAIN commits
  /\ PullNumbers' = PullNumbers \cup {Len(pulls) + 1}
  /\ Len(pulls') = Len(pulls) + 1
  /\ pulls'[Len(pulls) + 1] = new
  /\ \A m \in PullNumbers : pulls'[m] = pulls[m]
  /\ UNCHANGED <<inputs, mainline, commits>>

\* A pull request opened by hand stands at the tip and carries no marker.
LEMMA HumanOpensEffect ==
  ASSUME RepositoryTypeOK, HumanOpens
  PROVE  \E new \in Pull : Opened(new) /\ new.author = "human"
<1> DEFINE new == [author |-> "human", state |-> "open", head |-> Len(commits),
                   signature |-> NoMaterial, autonomous |-> FALSE]
<1>1. Len(commits) \in Nat /\ commits \in Seq(Commit)
  BY DEF RepositoryTypeOK
<1>2. Len(commits) \in 1 .. Len(commits) /\ Len(commits) \in DOMAIN commits
  BY <1>1, MainType DEF HumanOpens
<1>3. /\ new \in Pull /\ new.head \in 1 .. Len(commits)
      /\ new.author = "human" /\ new.state = "open" /\ new.head = Len(commits)
  BY <1>1, <1>2 DEF Pull
<1>4. /\ pulls' = Append(pulls, new) /\ UNCHANGED <<inputs, mainline, commits>>
      /\ OpenPulls = {}
  BY DEF HumanOpens
<1> HIDE DEF new
<1>5. new.author = "bot" => new.signature \in Materials
  BY <1>3
<1>6. /\ RepositoryTypeOK'
      /\ PullNumbers' = PullNumbers \cup {Len(pulls) + 1}
      /\ Len(pulls') = Len(pulls) + 1
      /\ pulls'[Len(pulls) + 1] = new
      /\ \A m \in PullNumbers : pulls'[m] = pulls[m]
  BY <1>3, <1>4, <1>5, PullAppend
<1>7. Opened(new)
  BY <1>2, <1>3, <1>4, <1>6 DEF Opened, Tip
<1> QED
  BY <1>3, <1>7

\* The pull request a run creates stands at the tip and carries its signature.
LEMMA CreateEffect ==
  ASSUME RepositoryTypeOK, RunTypeOK, Create
  PROVE  \E new \in Pull :
           Opened(new) /\ new.author = "bot" /\ new.signature = run.material
<1>1. Len(commits) \in Nat /\ commits \in Seq(Commit)
  BY DEF RepositoryTypeOK
<1>2. /\ Len(commits) \in 1 .. Len(commits) /\ Len(commits) \in DOMAIN commits
      /\ run.material \in Materials
  BY <1>1 DEF Create, RunTypeOK
<1> DEFINE new == ComposedBody
<1>3. /\ new \in Pull /\ new.head \in 1 .. Len(commits)
      /\ new.author = "bot" /\ new.state = "open" /\ new.head = Len(commits)
      /\ new.signature = run.material
  BY <1>1, <1>2 DEF Pull, ComposedBody, Tip
<1>4. /\ pulls' = Append(pulls, new) /\ UNCHANGED <<inputs, mainline, commits>>
      /\ OpenPulls = {}
  BY DEF Create
<1> HIDE DEF new
<1>5. /\ RepositoryTypeOK'
      /\ PullNumbers' = PullNumbers \cup {Len(pulls) + 1}
      /\ Len(pulls') = Len(pulls) + 1
      /\ pulls'[Len(pulls) + 1] = new
      /\ \A m \in PullNumbers : pulls'[m] = pulls[m]
  BY <1>2, <1>3, <1>4, PullAppend
<1>6. Opened(new)
  BY <1>2, <1>3, <1>4, <1>5 DEF Opened, Tip
<1> QED
  BY <1>3, <1>6

-----------------------------------------------------------------------------
(***************************************************************************)
(* The invariant is inductive: types first.                                *)
(***************************************************************************)

\* No step of the world, of a run or of the worker breaks a type.
LEMMA TypeStep == TypeOK /\ [Next]_vars => TypeOK'
<1> SUFFICES ASSUME TypeOK, [Next]_vars
             PROVE  TypeOK'
  OBVIOUS
<1>1. /\ RepositoryTypeOK /\ RunTypeOK /\ WorkerTypeOK
      /\ Len(commits) \in Nat /\ Len(pulls) \in Nat
  BY DEF TypeOK, RepositoryTypeOK
<1>2. CASE UNCHANGED vars
  BY <1>1, <1>2, RepositoryFrame, RunFrame, WorkerFrame DEF vars, TypeOK
<1>3. CASE World /\ UNCHANGED <<run, worker>>
  <2>1. SUFFICES RepositoryTypeOK' /\ Len(commits') >= Len(commits) /\ Len(pulls') >= Len(pulls)
    BY <1>1, <1>3, RunFrame, WorkerFrame DEF TypeOK
  <2>2. CASE InputsChange
    BY <1>1, <2>2 DEF InputsChange, RepositoryTypeOK, PullNumbers
  <2>3. CASE \E c \in DOMAIN commits : QualityEnds(c)
    <3>1. PICK c \in DOMAIN commits : QualityEnds(c)
      BY <2>3
    <3> QED
      BY <1>1, <3>1, QualityEndsEffect DEF Evidence
  <2>4. CASE \E n \in PullNumbers : OwnerCloses(n) \/ OwnerHolds(n) \/ OwnerReleases(n)
    <3>1. PICK n \in PullNumbers : OwnerCloses(n) \/ OwnerHolds(n) \/ OwnerReleases(n)
      BY <2>4
    <3>2. PICK new \in Pull : Revision(n, new)
      BY <1>1, <3>1, OwnerEffect
    <3> QED
      BY <1>1, <3>2 DEF Revision
  <2>5. CASE HumanOpens
    BY <1>1, <2>5, HumanOpensEffect DEF Opened
  <2> QED
    BY <1>3, <2>2, <2>3, <2>4, <2>5 DEF World
<1>4. CASE AdvisoryStep /\ UNCHANGED worker
  <2>1. CASE UNCHANGED repository /\ RunTypeOK'
    BY <1>1, <1>4, <2>1, RepositoryFrame, WorkerFrame DEF TypeOK
  <2>2. CASE CheckOut
    <3>1. Main \in 0 .. Len(commits) /\ inputs \in Inputs
      BY <1>1, MainType DEF RepositoryTypeOK
    <3>2. run' = [run EXCEPT !.phase = "checkedOut", !.prior = Main, !.base = Main,
                             !.inputs = inputs]
      BY <2>2 DEF CheckOut
    <3>3. UNCHANGED repository /\ Len(commits') = Len(commits) /\ Len(pulls') = Len(pulls)
      BY <1>1, <2>2, RepositoryFrame DEF CheckOut
    <3> QED
      BY <1>1, <2>1, <3>1, <3>2, <3>3 DEF RunTypeOK, RunPhases
  <2>3. CASE Review
    <3>1. PICK found \in Observations :
            run' = [run EXCEPT !.phase = "reviewed",
                               !.material = [inputs |-> run.inputs, observed |-> found]]
      BY <2>3 DEF Review
    <3>2. [inputs |-> run.inputs, observed |-> found] \in Materials
      BY <1>1 DEF RunTypeOK, Materials
    <3>3. UNCHANGED repository /\ Len(commits') = Len(commits) /\ Len(pulls') = Len(pulls)
      BY <1>1, <2>3, RepositoryFrame DEF Review
    <3> HIDE DEF Materials
    <3> QED
      BY <1>1, <2>1, <3>1, <3>2, <3>3 DEF RunTypeOK, RunPhases
  <2>4. CASE Decide
    <3>1. UNCHANGED repository /\ RepositoryTypeOK'
          /\ Len(commits') = Len(commits) /\ Len(pulls') = Len(pulls)
      BY <1>1, <2>4, RepositoryFrame DEF Decide
    <3>2. CASE run' = NoRun
      BY <1>1, <2>1, <3>1, <3>2, NoRunType DEF RunTypeOK
    <3>3. CASE run' = [run EXCEPT !.phase = "publishing"]
      BY <1>1, <2>1, <2>4, <3>1, <3>3 DEF Decide, RunTypeOK, RunPhases
    <3> QED
      BY <2>4, <3>2, <3>3 DEF Decide
  <2>5. CASE Abort
    <3>1. UNCHANGED repository /\ Len(commits') = Len(commits) /\ Len(pulls') = Len(pulls)
          /\ run' = NoRun
      BY <1>1, <2>5, RepositoryFrame DEF Abort
    <3> QED
      BY <1>1, <2>1, <3>1, NoRunType DEF RunTypeOK
  <2>6. CASE Push
    <3>1. /\ RepositoryTypeOK' /\ Len(commits') = Len(commits) + 1 /\ Len(pulls') = Len(pulls)
      BY <1>1, <2>6, PushChange
    <3>2. run' = [run EXCEPT !.phase = "pushed"] /\ run.phase = "publishing"
      BY <2>6 DEF Push
    <3>3. RunTypeOK'
      <4>1. 0 .. Len(commits) \subseteq 0 .. Len(commits')
        BY <1>1, <3>1
      <4> QED
        BY <1>1, <3>1, <3>2, <4>1 DEF RunTypeOK, RunPhases
    <3> QED
      BY <1>1, <1>4, <3>1, <3>3, WorkerFrame DEF TypeOK
  <2>7. CASE ListOpen
    <3>1. UNCHANGED repository /\ Len(commits') = Len(commits) /\ Len(pulls') = Len(pulls)
      BY <1>1, <2>7, RepositoryFrame DEF ListOpen
    <3>2. PICK n \in 0 .. Len(pulls) : run' = [run EXCEPT !.phase = "listed", !.pull = n]
      <4>1. OpenPulls \subseteq 0 .. Len(pulls) /\ 0 \in 0 .. Len(pulls)
        BY <1>1 DEF OpenPulls, PullNumbers, RepositoryTypeOK
      <4>2. \E n \in IF OpenPulls = {} THEN {0} ELSE OpenPulls :
              run' = [run EXCEPT !.phase = "listed", !.pull = n]
        BY <2>7 DEF ListOpen
      <4> QED
        BY <4>1, <4>2
    <3> QED
      BY <1>1, <2>1, <2>7, <3>1, <3>2 DEF RunTypeOK, RunPhases, ListOpen
  <2>8. CASE Edit
    <3>1. RepositoryTypeOK' /\ Len(commits') = Len(commits) /\ Len(pulls') = Len(pulls)
      BY <1>1, <2>8, EditEffect DEF Revision
    <3>2. run' = [run EXCEPT !.phase = "proposed"] /\ run.phase = "listed"
      BY <2>8 DEF Edit
    <3>3. RunTypeOK'
      BY <1>1, <3>1, <3>2 DEF RunTypeOK, RunPhases
    <3> QED
      BY <1>1, <1>4, <3>1, <3>3, WorkerFrame DEF TypeOK
  <2>9. CASE Create
    <3>1. RepositoryTypeOK' /\ Len(commits') = Len(commits) /\ Len(pulls') = Len(pulls) + 1
      BY <1>1, <2>9, CreateEffect DEF Opened
    <3>2. /\ run' = [run EXCEPT !.phase = "proposed", !.pull = Len(pulls) + 1]
          /\ run.phase = "listed"
      BY <2>9 DEF Create
    <3>3. RunTypeOK'
      <4>1. Len(pulls) + 1 \in 0 .. Len(pulls')
        BY <1>1, <3>1
      <4> QED
        BY <1>1, <3>1, <3>2, <4>1 DEF RunTypeOK, RunPhases
    <3> QED
      BY <1>1, <1>4, <3>1, <3>3, WorkerFrame DEF TypeOK
  <2>10. CASE DispatchQuality
    <3>1. RepositoryTypeOK' /\ Len(commits') = Len(commits) /\ Len(pulls') = Len(pulls)
      BY <1>1, <2>10, DispatchQualityEffect DEF Evidence
    <3>2. run' = [run EXCEPT !.phase = "watching"] /\ run.phase = "proposed"
      BY <2>10 DEF DispatchQuality
    <3>3. RunTypeOK'
      BY <1>1, <3>1, <3>2 DEF RunTypeOK, RunPhases
    <3> QED
      BY <1>1, <1>4, <3>1, <3>3, WorkerFrame DEF TypeOK
  <2>11. CASE Bridge
    <3>1. RepositoryTypeOK' /\ Len(commits') = Len(commits) /\ Len(pulls') = Len(pulls)
      BY <1>1, <2>11, BridgeEffect DEF Evidence
    <3>2. run' = NoRun
      BY <2>11 DEF Bridge
    <3>3. RunTypeOK'
      BY <1>1, <3>1, <3>2, NoRunType DEF RunTypeOK
    <3> QED
      BY <1>1, <1>4, <3>1, <3>3, WorkerFrame DEF TypeOK
  <2> QED
    BY <1>4, <2>2, <2>3, <2>4, <2>5, <2>6, <2>7, <2>8, <2>9, <2>10, <2>11 DEF AdvisoryStep
<1>5. CASE WorkerStep /\ UNCHANGED run
  <2>1. CASE UNCHANGED repository /\ WorkerTypeOK'
    BY <1>1, <1>5, <2>1, RepositoryFrame, RunFrame DEF TypeOK
  <2>2. CASE ListCandidates
    <3>1. PICK n \in OpenPulls : worker' = [phase |-> "listed", pull |-> n]
      BY <2>2 DEF ListCandidates
    <3>2. n \in 1 .. Len(pulls)
      BY <1>1 DEF OpenPulls, PullNumbers, RepositoryTypeOK
    <3>3. UNCHANGED repository /\ Len(pulls') = Len(pulls)
      BY <1>1, <2>2, RepositoryFrame DEF ListCandidates
    <3> QED
      BY <1>1, <2>1, <3>1, <3>2, <3>3 DEF WorkerTypeOK
  <2>3. CASE GateDefers \/ HandOff
    <3>1. UNCHANGED repository /\ Len(pulls') = Len(pulls) /\ worker' = NoWork
      BY <1>1, <2>3, RepositoryFrame DEF GateDefers, HandOff
    <3> QED
      BY <1>1, <2>1, <3>1 DEF WorkerTypeOK, NoWork
  <2>4. CASE GateMerges
    <3>1. /\ RepositoryTypeOK' /\ Len(commits') = Len(commits) /\ Len(pulls') = Len(pulls)
      BY <1>1, <2>4, MergeEffect DEF Revision
    <3>2. worker' \in {[worker EXCEPT !.phase = "merged"], NoWork} /\ worker.phase = "listed"
      BY <2>4 DEF GateMerges
    <3>3. WorkerTypeOK'
      BY <1>1, <3>1, <3>2 DEF WorkerTypeOK, NoWork
    <3> QED
      BY <1>1, <1>5, <3>1, <3>3, RunFrame DEF TypeOK
  <2> QED
    BY <1>5, <2>2, <2>3, <2>4 DEF WorkerStep
<1> QED
  BY <1>2, <1>3, <1>4, <1>5 DEF Next

-----------------------------------------------------------------------------
(***************************************************************************)
(* Then the rest of it, one conjunct at a time.                            *)
(***************************************************************************)

\* Materials never change, nor does which commit an older commit was made on.
LEMMA HistoryKept ==
  ASSUME RepositoryTypeOK, RunTypeOK, WorkerTypeOK, Next
  PROVE  /\ DOMAIN commits \subseteq DOMAIN commits'
         /\ DOMAIN commits' = DOMAIN commits \/ Push
         /\ \A c \in DOMAIN commits :
              /\ commits'[c].material = commits[c].material
              /\ commits'[c].prior = commits[c].prior
              /\ commits'[c].base = commits[c].base
<1>1. CASE UNCHANGED commits
  BY <1>1
<1>2. CASE \E c \in DOMAIN commits : QualityEnds(c)
  BY <1>2, QualityEndsEffect DEF Evidence
<1>3. CASE Push
  BY <1>3, PushChange
<1>4. CASE DispatchQuality
  BY <1>4, DispatchQualityEffect DEF Evidence
<1>5. CASE Bridge
  BY <1>5, BridgeEffect DEF Evidence
<1>6. CASE World \/ WorkerStep
  BY <1>1, <1>2, <1>6 DEF World, WorkerStep, InputsChange, OwnerCloses, OwnerHolds,
     OwnerReleases, HumanOpens, ListCandidates, GateMerges, GateDefers, HandOff, repository
<1>7. CASE AdvisoryStep
  BY <1>1, <1>3, <1>4, <1>5, <1>7 DEF AdvisoryStep, CheckOut, Review, Decide, ListOpen, Edit,
     Create, Abort, repository
<1> QED
  BY <1>6, <1>7 DEF Next

\* Only a push adds a commit, and a pushed commit is sound because the run that
\* pushes it decided on a checkout's own report (Decide, Push).
LEMMA CommitsStep ==
  ASSUME RepositoryTypeOK, RunTypeOK, WorkerTypeOK, CommitsSound, RunSound, Next
  PROVE  CommitsSound'
<1>1. ASSUME NEW c \in DOMAIN commits
      PROVE  (commits[c].base = commits[c].prior
                /\ commits[c].material # MaterialOf(commits[c].prior))'
  <2>1. /\ commits[c].base = commits[c].prior
        /\ commits[c].material # MaterialOf(commits[c].prior)
    BY DEF CommitsSound
  <2>2. commits[c].prior = 0 \/ commits[c].prior \in DOMAIN commits
    <3>1. DOMAIN commits = 1 .. Len(commits) /\ Len(commits) \in Nat
      BY DEF RepositoryTypeOK
    <3>2. commits[c].prior \in 0 .. c - 1
      BY DEF RepositoryTypeOK
    <3> QED
      BY <3>1, <3>2
  <2>3. /\ commits'[c].base = commits[c].base /\ commits'[c].prior = commits[c].prior
        /\ commits'[c].material = commits[c].material
        /\ commits[c].prior # 0 =>
             commits'[commits[c].prior].material = commits[commits[c].prior].material
    BY <2>2, HistoryKept
  <2> QED
    BY <2>1, <2>3 DEF MaterialOf
<1>2. CASE DOMAIN commits' = DOMAIN commits
  BY <1>1, <1>2 DEF CommitsSound
<1>3. CASE Push
  <2> DEFINE next == Len(commits) + 1
  <2>1. /\ DOMAIN commits' = DOMAIN commits \cup {next}
        /\ commits'[next] =
             [material |-> run.material, prior |-> run.prior, base |-> run.base,
              quality |-> "none", statuses |-> FALSE]
        /\ \A c \in DOMAIN commits : commits'[c] = commits[c]
    BY <1>3, PushChange
  <2>2. run.base = run.prior /\ run.material # MaterialOf(run.prior)
    BY <1>3 DEF Push, RunSound
  <2>3. run.prior = 0 \/ run.prior \in DOMAIN commits
    BY DEF RunTypeOK, RepositoryTypeOK
  <2>4. /\ commits'[next].material = run.material
        /\ commits'[next].prior = run.prior
        /\ commits'[next].base = run.base
    BY <2>1
  <2> HIDE DEF next
  <2>5. run.prior # 0 => commits'[run.prior].material = commits[run.prior].material
    BY <2>1, <2>3
  <2>6. commits'[next].material #
          (IF commits'[next].prior = 0 THEN NoMaterial ELSE commits'[commits'[next].prior].material)
    BY <2>2, <2>4, <2>5 DEF MaterialOf
  <2>7. \A c \in DOMAIN commits' :
          /\ commits'[c].base = commits'[c].prior
          /\ commits'[c].material #
               (IF commits'[c].prior = 0 THEN NoMaterial ELSE commits'[commits'[c].prior].material)
    BY <1>1, <2>1, <2>2, <2>4, <2>6 DEF MaterialOf
  <2> QED
    BY <2>7 DEF CommitsSound, MaterialOf
<1> QED
  BY <1>2, <1>3, HistoryKept

\* Nor does the material any number stands for, "no report" included.
LEMMA MaterialKept ==
  ASSUME RepositoryTypeOK, RunTypeOK, WorkerTypeOK, Next, NEW c \in 0 .. Len(commits)
  PROVE  MaterialOf(c)' = MaterialOf(c)
<1>1. c = 0 \/ c \in DOMAIN commits
  BY DEF RepositoryTypeOK
<1> QED
  BY <1>1, HistoryKept DEF MaterialOf

\* While a run prepares its proposal, the branch and what tested its newest
\* commit are the run's own: a step of somebody else leaves both alone.
LEMMA BranchKept ==
  ASSUME RepositoryTypeOK, WorkerTypeOK, World \/ WorkerStep
  PROVE  /\ Len(commits') = Len(commits)
         /\ \A c \in DOMAIN commits :
              /\ commits[c].quality = "none" => commits'[c].quality = "none"
              /\ commits[c].quality # "dispatched" => commits'[c].quality = commits[c].quality
              /\ commits[c].quality # "none" => commits'[c].quality # "none"
<1>1. CASE UNCHANGED commits
  BY <1>1
<1>2. ASSUME NEW c \in DOMAIN commits, QualityEnds(c)
      PROVE  /\ Len(commits') = Len(commits)
             /\ \A d \in DOMAIN commits :
                  /\ commits[d].quality = "none" => commits'[d].quality = "none"
                  /\ commits[d].quality # "dispatched" => commits'[d].quality = commits[d].quality
                  /\ commits[d].quality # "none" => commits'[d].quality # "none"
  <2>1. /\ Evidence(c) /\ commits[c].quality = "dispatched"
        /\ commits'[c].quality \in {"passed", "failed"}
    BY <1>2, QualityEndsEffect
  <2> QED
    BY <2>1 DEF Evidence
<1> QED
  BY <1>1, <1>2 DEF World, WorkerStep, InputsChange, OwnerCloses, OwnerHolds, OwnerReleases,
     HumanOpens, ListCandidates, GateMerges, GateDefers, HandOff, repository

\* What a run knows of its own material and of the newest commit: nothing but
\* the run itself pushes, and nothing tests a commit before it dispatches
\* Quality (the workflow's concurrency group).
LEMMA RunStep ==
  ASSUME RepositoryTypeOK, RunTypeOK, WorkerTypeOK, RunSound, Next
  PROVE  RunSound'
<1>1. PICK p \in 0 .. Len(commits) : p = run.prior
  BY DEF RunTypeOK
<1>2. MaterialOf(p)' = MaterialOf(p)
  BY MaterialKept
<1>3. /\ commits \in Seq(Commit) /\ Len(commits) \in Nat
      /\ run.phase \in {"pushed", "listed", "proposed"} => Tip \in DOMAIN commits
  BY DEF RepositoryTypeOK, RunTypeOK, Tip
<1>4. CASE (World \/ WorkerStep) /\ UNCHANGED run
  <2>1. Tip' = Tip
    BY <1>4, BranchKept DEF Tip
  <2>2. run.phase \in {"pushed", "listed", "proposed"} =>
          /\ commits'[Tip].quality = commits[Tip].quality
          /\ commits'[Tip].material = commits[Tip].material
    BY <1>3, <1>4, BranchKept, HistoryKept DEF RunSound
  <2>3. run.phase = "publishing" => run.material # MaterialOf(p)'
    BY <1>1, <1>2 DEF RunSound
  <2> QED
    BY <1>1, <1>4, <2>1, <2>2, <2>3 DEF RunSound
<1>5. CASE run' = NoRun
  BY <1>3, <1>5, NoRunType DEF RunSound
<1>6. CASE CheckOut \/ Review
  <2>1. run'.phase \in {"checkedOut", "reviewed"} /\ run'.base = run'.prior
    BY <1>6 DEF CheckOut, Review, RunTypeOK, RunSound
  <2> QED
    BY <2>1 DEF RunSound
<1>7. CASE Decide
  <2>1. CASE run' = [run EXCEPT !.phase = "publishing"]
                /\ Decision(run.material, run.prior, LatestDecision) = "changed"
    <3>1. run.material # MaterialOf(p)
      BY <1>1, <2>1 DEF Decision
    <3>2. /\ run'.phase = "publishing" /\ run'.prior = p /\ run'.base = p
          /\ run'.material = run.material
      BY <1>1, <2>1 DEF RunTypeOK, RunSound
    <3> QED
      BY <1>2, <3>1, <3>2 DEF RunSound
  <2> QED
    BY <1>5, <1>7, <2>1 DEF Decide
<1>8. CASE Push
  <2>1. /\ Len(commits') = Len(commits) + 1
        /\ commits'[Len(commits) + 1].material = run.material
        /\ commits'[Len(commits) + 1].quality = "none"
    BY <1>8, PushChange
  <2>2. /\ run'.phase = "pushed" /\ run'.material = run.material
        /\ run'.base = run.base /\ run'.prior = run.prior
    BY <1>8 DEF Push, RunTypeOK
  <2> QED
    BY <2>1, <2>2 DEF RunSound, Tip
<1>9. CASE ListOpen \/ Edit \/ Create
  <2>1. /\ run.phase \in {"pushed", "listed"} /\ run'.phase \in {"listed", "proposed"}
        /\ run'.material = run.material /\ run'.base = run.base /\ run'.prior = run.prior
    BY <1>9 DEF ListOpen, Edit, Create, RunTypeOK
  <2>2. UNCHANGED commits
    BY <1>9 DEF ListOpen, Edit, Create, repository
  <2> QED
    BY <2>1, <2>2 DEF RunSound, Tip
<1>10. CASE DispatchQuality
  <2>1. /\ run'.phase = "watching" /\ run'.base = run.base /\ run'.prior = run.prior
    BY <1>10 DEF DispatchQuality, RunTypeOK
  <2> QED
    BY <2>1 DEF RunSound
<1> QED
  BY <1>4, <1>5, <1>6, <1>7, <1>8, <1>9, <1>10
     DEF Next, AdvisoryStep, Abort, Bridge

\* Pull requests: GitHub keeps at most one open per branch, a push carries it
\* along, and the gate merges only what passed (Push, Create, GateMerges).
LEMMA PullsStep ==
  ASSUME RepositoryTypeOK, RunTypeOK, WorkerTypeOK, RunSound, PullsSound, Next
  PROVE  PullsSound'
<1>1. /\ commits \in Seq(Commit) /\ Len(commits) \in Nat /\ pulls \in Seq(Pull)
      /\ \A n \in PullNumbers : pulls[n].head \in DOMAIN commits
  BY DEF RepositoryTypeOK
<1>2. CASE UNCHANGED <<commits, pulls>>
  BY <1>2 DEF PullsSound, OpenPulls, PullNumbers, Tip
<1>3. ASSUME NEW c \in DOMAIN commits, Evidence(c),
             commits[c].quality # "passed" \/ commits'[c].quality = commits[c].quality
      PROVE  PullsSound'
  <2>1. UNCHANGED pulls /\ Len(commits') = Len(commits)
    BY <1>3 DEF Evidence
  <2>2. \A d \in DOMAIN commits :
          commits[d].quality = "passed" => commits'[d].quality = "passed"
    BY <1>3 DEF Evidence
  <2> QED
    BY <1>1, <2>1, <2>2 DEF PullsSound, OpenPulls, PullNumbers, Tip
<1>4. ASSUME NEW n \in PullNumbers, NEW new \in Pull, Revision(n, new),
             new.state = "open" => pulls[n].state = "open",
             new.state = "merged" => commits[pulls[n].head].quality = "passed"
      PROVE  PullsSound'
  <2>1. /\ PullNumbers' = PullNumbers /\ UNCHANGED commits
        /\ \A m \in PullNumbers :
             /\ pulls'[m].head = pulls[m].head
             /\ pulls'[m].state = "open" => pulls[m].state = "open"
             /\ pulls'[m].state = "merged" => commits[pulls[m].head].quality = "passed"
    BY <1>4 DEF Revision, PullsSound
  <2> QED
    BY <2>1 DEF PullsSound, OpenPulls, Tip
<1>5. ASSUME NEW new \in Pull, Opened(new)
      PROVE  PullsSound'
  <2>1. /\ \A m \in PullNumbers : pulls[m].state # "open" /\ pulls'[m] = pulls[m]
        /\ PullNumbers' = PullNumbers \cup {Len(pulls) + 1}
        /\ pulls'[Len(pulls) + 1] = new /\ new.state = "open" /\ new.head = Tip
        /\ UNCHANGED commits
    BY <1>5 DEF Opened, OpenPulls
  <2>2. OpenPulls' = {Len(pulls) + 1}
    BY <2>1 DEF OpenPulls
  <2> QED
    BY <2>1, <2>2 DEF PullsSound, Tip
<1>6. CASE Push
  <2>1. /\ Len(commits') = Len(commits) + 1
        /\ \A c \in DOMAIN commits : commits'[c] = commits[c]
        /\ PullNumbers' = PullNumbers
        /\ \A n \in PullNumbers :
              /\ n \in OpenPulls => pulls'[n] = [pulls[n] EXCEPT !.head = Len(commits) + 1]
              /\ n \notin OpenPulls => pulls'[n] = pulls[n]
    BY <1>6, PushChange
  <2>2. \A n \in PullNumbers : pulls[n] \in Pull
    BY <1>1 DEF PullNumbers
  <2>3. \A n \in PullNumbers :
          /\ pulls'[n].state = pulls[n].state
          /\ n \in OpenPulls => pulls'[n].head = Len(commits) + 1
          /\ n \notin OpenPulls => pulls'[n].head = pulls[n].head
    BY <2>1, <2>2 DEF Pull
  <2>4. OpenPulls' = OpenPulls
    BY <2>1, <2>3 DEF OpenPulls
  <2>5. \A n \in PullNumbers : pulls[n].state = "merged" => n \notin OpenPulls
    BY DEF OpenPulls
  <2>6. \A n \in PullNumbers :
          pulls'[n].state = "merged" => commits'[pulls'[n].head].quality = "passed"
    BY <1>1, <2>1, <2>3, <2>5 DEF PullsSound
  <2>7. /\ \A m, n \in OpenPulls' : m = n
        /\ \A n \in OpenPulls' : pulls'[n].head = Len(commits')
    <3>1. OpenPulls \subseteq PullNumbers
      BY DEF OpenPulls
    <3> QED
      BY <2>1, <2>3, <2>4, <3>1 DEF PullsSound
  <2> QED
    BY <2>1, <2>6, <2>7 DEF PullsSound, Tip
<1>7. CASE World
  <2>1. CASE \E c \in DOMAIN commits : QualityEnds(c)
    BY <1>3, <2>1, QualityEndsEffect
  <2>2. ASSUME NEW n \in PullNumbers, OwnerCloses(n) \/ OwnerHolds(n) \/ OwnerReleases(n)
        PROVE  PullsSound'
    <3>1. PICK new \in Pull :
            /\ Revision(n, new) /\ pulls[n].state = "open" /\ new.state \in {"open", "closed"}
      BY <2>2, OwnerEffect
    <3> QED
      BY <1>4, <3>1
  <2> QED
    BY <1>2, <1>5, <1>7, <2>1, <2>2, HumanOpensEffect DEF World, InputsChange
<1>8. CASE AdvisoryStep
  <2>1. CASE Edit
    <3>1. PICK new \in Pull : Revision(run.pull, new) /\ new.state = pulls[run.pull].state
      BY <2>1, EditEffect
    <3> QED
      BY <1>4, <2>1, <3>1, EditEffect DEF PullsSound
  <2>2. CASE Create
    BY <1>5, <2>2, CreateEffect
  <2>3. CASE DispatchQuality
    <3>1. commits[Tip].quality = "none"
      BY <2>3 DEF DispatchQuality, RunSound
    <3> QED
      BY <1>3, <2>3, <3>1, DispatchQualityEffect
  <2>4. CASE Bridge
    <3>1. Tip \in DOMAIN commits
      BY <1>1, <2>4 DEF Bridge, RunTypeOK, Tip
    <3> QED
      BY <1>3, <2>4, <3>1, BridgeEffect
  <2> QED
    BY <1>2, <1>6, <1>8, <2>1, <2>2, <2>3, <2>4
       DEF AdvisoryStep, CheckOut, Review, Decide, ListOpen, Abort, repository
<1>9. CASE WorkerStep
  <2>1. CASE GateMerges
    <3>1. PICK new \in Pull : Revision(worker.pull, new) /\ new.state = "merged"
      BY <2>1, MergeEffect
    <3>2. worker.pull \in PullNumbers /\ commits[pulls[worker.pull].head].quality = "passed"
      BY <2>1, MergeEffect DEF GateAccepts
    <3> QED
      BY <1>4, <3>1, <3>2
  <2> QED
    BY <1>2, <1>9, <2>1 DEF WorkerStep, ListCandidates, GateDefers, HandOff, repository
<1> QED
  BY <1>7, <1>8, <1>9 DEF Next

\* Bodies: a push leaves the moved body behind but also an untested head; by
\* the time Quality is dispatched, the body is the head's again, or closed.
LEMMA BodiesStep ==
  ASSUME RepositoryTypeOK, RunTypeOK, WorkerTypeOK, RunSound, PullsSound, ProposalSound,
         BodiesTrue, Next
  PROVE  BodiesTrue'
<1>1. /\ commits \in Seq(Commit) /\ Len(commits) \in Nat /\ pulls \in Seq(Pull)
      /\ \A n \in PullNumbers : pulls[n].head \in DOMAIN commits
  BY DEF RepositoryTypeOK
<1>0. \A n \in PullNumbers : pulls[n].state \in {"open", "closed", "merged"}
  <2>1. \A n \in PullNumbers : pulls[n] \in Pull
    BY <1>1 DEF PullNumbers
  <2> QED
    BY <2>1 DEF Pull
<1>2. CASE UNCHANGED <<commits, pulls>>
  BY <1>2 DEF BodiesTrue, PullNumbers
<1>3. ASSUME NEW c \in DOMAIN commits, Evidence(c),
             commits[c].quality # "none" \/ commits'[c].quality = commits[c].quality
      PROVE  BodiesTrue'
  <2>1. UNCHANGED pulls
    BY <1>3 DEF Evidence
  <2>2. \A d \in DOMAIN commits :
          /\ commits'[d].quality # "none" => commits[d].quality # "none"
          /\ commits'[d].material = commits[d].material
    BY <1>3 DEF Evidence
  <2> QED
    BY <1>1, <2>1, <2>2 DEF BodiesTrue, PullNumbers
<1>4. ASSUME NEW n \in PullNumbers, NEW new \in Pull, Revision(n, new),
             new.state # "closed" => pulls[n].state # "closed",
             new.signature = pulls[n].signature
      PROVE  BodiesTrue'
  <2>1. /\ PullNumbers' = PullNumbers /\ UNCHANGED commits
        /\ \A m \in PullNumbers :
             /\ pulls'[m].head = pulls[m].head
             /\ pulls'[m].author = pulls[m].author
             /\ pulls'[m].signature = pulls[m].signature
             /\ pulls'[m].state # "closed" => pulls[m].state # "closed"
    BY <1>4 DEF Revision
  <2> QED
    BY <2>1 DEF BodiesTrue
<1>5. ASSUME NEW new \in Pull, Opened(new),
             new.author = "bot" => new.signature = commits[Tip].material
      PROVE  BodiesTrue'
  <2>1. /\ \A m \in PullNumbers : pulls'[m] = pulls[m]
        /\ PullNumbers' = PullNumbers \cup {Len(pulls) + 1}
        /\ pulls'[Len(pulls) + 1] = new /\ new.head = Tip
        /\ UNCHANGED commits
    BY <1>5 DEF Opened
  <2> QED
    BY <1>5, <2>1 DEF BodiesTrue
<1>6. CASE Push
  <2>1. /\ \A c \in DOMAIN commits : commits'[c] = commits[c]
        /\ commits'[Len(commits) + 1].quality = "none"
        /\ PullNumbers' = PullNumbers
        /\ \A n \in PullNumbers :
              /\ n \in OpenPulls => pulls'[n] = [pulls[n] EXCEPT !.head = Len(commits) + 1]
              /\ n \notin OpenPulls => pulls'[n] = pulls[n]
    BY <1>6, PushChange
  <2>2. \A n \in PullNumbers : pulls[n] \in Pull
    BY <1>1 DEF PullNumbers
  <2>3. \A n \in OpenPulls : commits'[pulls'[n].head].quality = "none"
    BY <2>1, <2>2 DEF Pull, OpenPulls
  <2>4. \A n \in PullNumbers \ OpenPulls :
          pulls'[n] = pulls[n] /\ commits'[pulls'[n].head] = commits[pulls[n].head]
    BY <1>1, <2>1
  <2> QED
    BY <2>1, <2>3, <2>4 DEF BodiesTrue
<1>7. CASE World
  <2>1. CASE \E c \in DOMAIN commits : QualityEnds(c)
    <3>1. PICK c \in DOMAIN commits : Evidence(c) /\ commits[c].quality = "dispatched"
      BY <2>1, QualityEndsEffect
    <3> QED
      BY <1>3, <3>1
  <2>2. ASSUME NEW n \in PullNumbers, OwnerCloses(n) \/ OwnerHolds(n) \/ OwnerReleases(n)
        PROVE  BodiesTrue'
    <3>1. PICK new \in Pull :
            /\ Revision(n, new) /\ pulls[n].state = "open"
            /\ new.signature = pulls[n].signature
      BY <2>2, OwnerEffect
    <3> QED
      BY <1>4, <3>1
  <2>3. CASE HumanOpens
    BY <1>5, <2>3, HumanOpensEffect
  <2> QED
    BY <1>2, <1>7, <2>1, <2>2, <2>3 DEF World, InputsChange
<1>8. CASE Edit
  <2>1. PICK new \in Pull : Revision(run.pull, new) /\ new.state = pulls[run.pull].state
    BY <1>8, EditEffect
  <2>2. run.pull \in PullNumbers
    BY <1>8, EditEffect
  <2>3. pulls[run.pull].state \in {"open", "closed"}
    BY <1>0, <1>8, <2>2 DEF Edit, ProposalSound
  <2>4. pulls[run.pull].state = "open" => commits[pulls[run.pull].head].quality = "none"
    BY <1>8, <2>2 DEF Edit, PullsSound, RunSound, OpenPulls
  <2>5. /\ PullNumbers' = PullNumbers /\ UNCHANGED commits
        /\ \A m \in PullNumbers :
             /\ m # run.pull => pulls'[m] = pulls[m]
             /\ m = run.pull => pulls'[m].state = pulls[m].state
                                /\ pulls'[m].head = pulls[m].head
    BY <2>1 DEF Revision
  <2> QED
    BY <2>2, <2>3, <2>4, <2>5 DEF BodiesTrue
<1>9. CASE DispatchQuality
  <2>1. /\ UNCHANGED pulls
        /\ \A d \in DOMAIN commits :
             /\ commits'[d].material = commits[d].material
             /\ d # Tip => commits'[d] = commits[d]
    BY <1>9, DispatchQualityEffect DEF Evidence
  <2>2. commits[Tip].quality = "none" /\ run.material = commits[Tip].material
    BY <1>9 DEF DispatchQuality, RunSound
  <2>3. ASSUME NEW n \in PullNumbers, pulls[n].author = "bot", pulls[n].state # "closed",
               pulls[n].head = Tip
        PROVE  pulls[n].signature = commits[Tip].material
    <3>1. pulls[n].state = "open"
      BY <1>0, <2>2, <2>3 DEF PullsSound
    <3> QED
      BY <1>9, <2>2, <2>3, <3>1 DEF DispatchQuality, ProposalSound, OpenPulls
  <2>4. ASSUME NEW n \in PullNumbers, pulls[n].author = "bot", pulls[n].state # "closed",
               commits'[pulls[n].head].quality # "none"
        PROVE  pulls[n].signature = commits'[pulls[n].head].material
    BY <1>1, <2>1, <2>3, <2>4 DEF BodiesTrue
  <2> QED
    BY <2>1, <2>4 DEF BodiesTrue, PullNumbers
<1>10. CASE AdvisoryStep
  <2>1. CASE Create
    <3>1. PICK new \in Pull : Opened(new) /\ new.signature = run.material
      BY <2>1, CreateEffect
    <3>2. run.material = commits[Tip].material
      BY <2>1 DEF Create, RunSound
    <3> QED
      BY <1>5, <3>1, <3>2
  <2>2. CASE Bridge
    <3>1. Tip \in DOMAIN commits
      BY <1>1, <2>2 DEF Bridge, RunTypeOK, Tip
    <3> QED
      BY <1>3, <2>2, <3>1, BridgeEffect
  <2> QED
    BY <1>2, <1>6, <1>8, <1>9, <1>10, <2>1, <2>2
       DEF AdvisoryStep, CheckOut, Review, Decide, ListOpen, Abort, repository
<1>11. CASE WorkerStep
  <2>1. CASE GateMerges
    <3>1. PICK new \in Pull :
            Revision(worker.pull, new) /\ new.signature = pulls[worker.pull].signature
      BY <2>1, MergeEffect
    <3>2. worker.pull \in PullNumbers /\ pulls[worker.pull].state = "open"
      BY <2>1, MergeEffect DEF GateAccepts
    <3> QED
      BY <1>4, <3>1, <3>2
  <2> QED
    BY <1>2, <1>11, <2>1 DEF WorkerStep, ListCandidates, GateDefers, HandOff, repository
<1> QED
  BY <1>7, <1>10, <1>11 DEF Next

\* The proposal: nobody but the run opens a workflow pull request, and a pull
\* request whose new head is untested cannot merge under the run.
LEMMA ProposalStep ==
  ASSUME RepositoryTypeOK, RunTypeOK, WorkerTypeOK, RunSound, PullsSound, ProposalSound, Next
  PROVE  ProposalSound'
<1>1. /\ commits \in Seq(Commit) /\ Len(commits) \in Nat
      /\ pulls \in Seq(Pull) /\ Len(pulls) \in Nat
      /\ \A n \in PullNumbers : pulls[n].head \in DOMAIN commits
      /\ PullNumbers = 1 .. Len(pulls) /\ OpenPulls \subseteq PullNumbers
  BY DEF RepositoryTypeOK, PullNumbers, OpenPulls
<1>2. CASE run'.phase \notin {"listed", "proposed"}
  BY <1>2 DEF ProposalSound
<1>3. CASE UNCHANGED <<run, pulls>>
  BY <1>3 DEF ProposalSound, OpenPulls, PullNumbers
<1>4. ASSUME UNCHANGED run, NEW n \in PullNumbers, NEW new \in Pull, Revision(n, new),
             new.signature = pulls[n].signature, pulls[n].state = "open",
             new.state # "merged" \/ ~(run.phase = "listed" /\ n = run.pull)
      PROVE  ProposalSound'
  <2>1. /\ UNCHANGED <<run, commits>> /\ PullNumbers' = PullNumbers
        /\ \A m \in PullNumbers :
             /\ pulls'[m].author = pulls[m].author
             /\ pulls'[m].signature = pulls[m].signature
             /\ m # n => pulls'[m] = pulls[m]
    BY <1>4 DEF Revision
  <2>2. OpenPulls' \subseteq OpenPulls
    BY <1>4, <2>1 DEF OpenPulls
  <2>3. run.phase = "listed" /\ run.pull # 0 => pulls'[run.pull].state # "merged"
    <3>1. run.phase = "listed" /\ run.pull # 0 => run.pull \in PullNumbers
      BY <1>1 DEF RunTypeOK
    <3>2. CASE run.pull = n
      BY <1>4, <3>2 DEF Revision
    <3>3. CASE run.pull # n
      BY <2>1, <3>1, <3>3 DEF ProposalSound
    <3> QED
      BY <3>2, <3>3
  <2> QED
    BY <1>1, <2>1, <2>2, <2>3 DEF ProposalSound
<1>5. CASE HumanOpens /\ UNCHANGED run
  <2>1. PICK new \in Pull : Opened(new) /\ new.author = "human"
    BY <1>5, HumanOpensEffect
  <2>2. /\ \A m \in PullNumbers : pulls[m].state # "open" /\ pulls'[m] = pulls[m]
        /\ PullNumbers' = PullNumbers \cup {Len(pulls) + 1}
        /\ pulls'[Len(pulls) + 1].author = "human"
    BY <2>1 DEF Opened, OpenPulls
  <2>3. \A n \in OpenPulls' : pulls'[n].author = "human"
    BY <2>2 DEF OpenPulls
  <2>4. run.pull # 0 => run.pull \in PullNumbers
    BY <1>1 DEF RunTypeOK
  <2> QED
    BY <1>5, <2>2, <2>3, <2>4 DEF ProposalSound
<1>6. CASE ListOpen
  <2>1. PICK n \in IF OpenPulls = {} THEN {0} ELSE OpenPulls :
          run' = [run EXCEPT !.phase = "listed", !.pull = n]
    BY <1>6 DEF ListOpen
  <2>2. run'.phase = "listed" /\ run'.pull = n /\ UNCHANGED pulls
    BY <1>6, <2>1 DEF ListOpen, RunTypeOK, repository
  <2>3. OpenPulls' = OpenPulls
    BY <2>2 DEF OpenPulls, PullNumbers
  <2>4. \A m \in OpenPulls : m = n
    BY DEF PullsSound
  <2>5. n # 0 => pulls[n].state = "open"
    BY DEF OpenPulls
  <2> QED
    BY <2>2, <2>3, <2>4, <2>5 DEF ProposalSound
<1>7. CASE Edit
  <2>1. PICK new \in Pull : Revision(run.pull, new) /\ new.signature = run.material
                             /\ new.state = pulls[run.pull].state
    BY <1>7, EditEffect
  <2>2. /\ PullNumbers' = PullNumbers
        /\ \A m \in PullNumbers :
             /\ pulls'[m].state = pulls[m].state /\ pulls'[m].author = pulls[m].author
             /\ m = run.pull => pulls'[m].signature = run.material
    BY <2>1 DEF Revision
  <2>3. OpenPulls' = OpenPulls
    BY <2>2 DEF OpenPulls
  <2>4. \A n \in OpenPulls : pulls[n].author = "bot" => n = run.pull
    BY <1>7 DEF Edit, ProposalSound
  <2>5. run'.phase = "proposed" /\ run'.material = run.material
    BY <1>7 DEF Edit, RunTypeOK
  <2> QED
    BY <1>1, <2>2, <2>3, <2>4, <2>5 DEF ProposalSound
<1>8. CASE Create
  <2>1. PICK new \in Pull : Opened(new) /\ new.signature = run.material
    BY <1>8, CreateEffect
  <2>2. /\ \A m \in PullNumbers : pulls[m].state # "open" /\ pulls'[m] = pulls[m]
        /\ PullNumbers' = PullNumbers \cup {Len(pulls) + 1}
        /\ pulls'[Len(pulls) + 1].signature = run.material
    BY <2>1 DEF Opened, OpenPulls
  <2>3. \A n \in OpenPulls' : pulls'[n].signature = run.material
    BY <2>2 DEF OpenPulls
  <2>4. run'.phase = "proposed" /\ run'.material = run.material
    BY <1>8 DEF Create, RunTypeOK
  <2> QED
    BY <2>3, <2>4 DEF ProposalSound
<1>9. CASE World /\ UNCHANGED run
  <2>1. CASE \E c \in DOMAIN commits : QualityEnds(c)
    BY <1>3, <1>9, <2>1 DEF QualityEnds
  <2>2. ASSUME NEW n \in PullNumbers, OwnerCloses(n) \/ OwnerHolds(n) \/ OwnerReleases(n)
        PROVE  ProposalSound'
    <3>1. PICK new \in Pull :
            /\ Revision(n, new) /\ pulls[n].state = "open" /\ new.state \in {"open", "closed"}
            /\ new.signature = pulls[n].signature
      BY <2>2, OwnerEffect
    <3> QED
      BY <1>4, <1>9, <3>1
  <2> QED
    BY <1>3, <1>5, <1>9, <2>1, <2>2 DEF World, InputsChange
<1>10. CASE AdvisoryStep
  <2>1. CASE CheckOut \/ Review \/ Decide \/ Push \/ DispatchQuality \/ Bridge \/ Abort
    <3>1. run'.phase \notin {"listed", "proposed"}
      BY <2>1, NoRunType DEF CheckOut, Review, Decide, Push, DispatchQuality, Bridge, Abort,
         RunTypeOK, NoRun
    <3> QED
      BY <1>2, <3>1
  <2> QED
    BY <1>6, <1>7, <1>8, <1>10, <2>1 DEF AdvisoryStep
<1>11. CASE WorkerStep /\ UNCHANGED run
  <2>1. CASE GateMerges
    <3>1. PICK new \in Pull :
            Revision(worker.pull, new) /\ new.signature = pulls[worker.pull].signature
      BY <2>1, MergeEffect
    <3>2. /\ worker.pull \in PullNumbers /\ pulls[worker.pull].state = "open"
          /\ commits[pulls[worker.pull].head].quality = "passed"
      BY <2>1, MergeEffect DEF GateAccepts
    <3>3. ~(run.phase = "listed" /\ worker.pull = run.pull)
      BY <3>2 DEF RunSound, PullsSound, OpenPulls
    <3> QED
      BY <1>4, <1>11, <3>1, <3>2, <3>3
  <2> QED
    BY <1>3, <1>11, <2>1 DEF WorkerStep, ListCandidates, GateDefers, HandOff, repository
<1> QED
  BY <1>9, <1>10, <1>11 DEF Next

\* The mainline: a mergeable head is newer than every report on main, because
\* it was made on the last of them (Mergeable).
LEMMA MainlineStep ==
  ASSUME RepositoryTypeOK, RunTypeOK, WorkerTypeOK, CommitsSound, MainlineSound, Next
  PROVE  MainlineSound'
<1>1. /\ commits \in Seq(Commit) /\ Len(commits) \in Nat /\ DOMAIN commits = 1 .. Len(commits)
      /\ mainline \in Seq(DOMAIN commits) /\ Len(mainline) \in Nat
      /\ Main \in 0 .. Len(commits) /\ MaxPushes \in Nat
  BY MaxPushesAssumption, MainType DEF RepositoryTypeOK
<1>2. CASE UNCHANGED mainline /\ Len(commits') = Len(commits)
  BY <1>2 DEF MainlineSound, Main
<1>3. CASE Push
  <2>1. UNCHANGED mainline /\ Len(commits') = Len(commits) + 1 /\ Len(commits) < MaxPushes
    BY <1>3, PushChange DEF Push
  <2> QED
    BY <1>1, <2>1 DEF MainlineSound, Main
<1>4. CASE GateMerges
  <2> DEFINE head == pulls[worker.pull].head
  <2>1. /\ mainline' = Append(mainline, head) /\ head \in DOMAIN commits
        /\ Mergeable(head) /\ UNCHANGED commits
    BY <1>4, MergeEffect DEF GateAccepts, GateMerges
  <2> HIDE DEF head
  <2>2. Len(mainline') = Len(mainline) + 1 /\ Main' = head
    BY <1>1, <2>1 DEF Main
  <2>3. Main < head
    <3>1. commits[head].base \in 0 .. head - 1
      BY <2>1 DEF RepositoryTypeOK
    <3> QED
      BY <1>1, <2>1, <3>1 DEF Mergeable
  <2> QED
    BY <1>1, <2>1, <2>2, <2>3 DEF MainlineSound
<1>5. CASE World \/ AdvisoryStep
  BY <1>2, <1>3, <1>5, QualityEndsEffect, DispatchQualityEffect, BridgeEffect
     DEF Evidence, World, InputsChange, OwnerCloses, OwnerHolds, OwnerReleases, HumanOpens,
     AdvisoryStep, CheckOut, Review, Decide, ListOpen, Edit, Create, Abort, repository
<1>6. CASE WorkerStep
  BY <1>2, <1>4, <1>6 DEF WorkerStep, ListCandidates, GateDefers, HandOff, repository
<1> QED
  BY <1>5, <1>6 DEF Next

-----------------------------------------------------------------------------
(***************************************************************************)
(* The theorems.                                                           *)
(***************************************************************************)

\* The inductive invariant holds before anything was pushed.
LEMMA InvariantInit == Init => IInv
<1> SUFFICES ASSUME Init PROVE IInv
  OBVIOUS
<1>1. TypeOK
  BY TypeInit
<1>2. /\ commits = << >> /\ pulls = << >> /\ mainline = << >>
      /\ run.phase = "idle" /\ run.base = run.prior
  BY DEF Init, RepositoryInit, RunInit, NoRun
<1> QED
  BY <1>1, <1>2, MaxPushesAssumption
     DEF IInv, CommitsSound, RunSound, PullsSound, BodiesTrue, ProposalSound, MainlineSound,
         OpenPulls, PullNumbers, Main

\* Every step keeps the inductive invariant.
LEMMA InvariantStep == IInv /\ [Next]_vars => IInv'
<1> SUFFICES ASSUME IInv, [Next]_vars PROVE IInv'
  OBVIOUS
<1>1. RepositoryTypeOK /\ RunTypeOK /\ WorkerTypeOK /\ TypeOK'
  BY TypeStep DEF IInv, TypeOK
<1>2. CASE Next
  BY <1>1, <1>2, CommitsStep, RunStep, PullsStep, BodiesStep, ProposalStep, MainlineStep DEF IInv
<1>3. CASE UNCHANGED vars
  BY <1>1, <1>3 DEF IInv, vars, repository, CommitsSound, RunSound, PullsSound, BodiesTrue,
     ProposalSound, MainlineSound, OpenPulls, PullNumbers, Main, MaterialOf, Tip
<1> QED
  BY <1>2, <1>3

\* The inductive invariant holds throughout.
THEOREM Invariance == Spec => []IInv
  BY InvariantInit, InvariantStep, PTL DEF Spec

\* Every variable keeps its type, whatever is interleaved.
THEOREM TypeCorrectness == Spec => []TypeOK
  BY Invariance, PTL DEF IInv

\* Whatever the owner, the worker and the runs do in whatever order, the
\* decision record of a merged report carries that report's signature.
THEOREM RecordsAreTruthful == Spec => []MergedBodyMatchesHead
<1>1. IInv => MergedBodyMatchesHead
  BY DEF IInv, PullsSound, BodiesTrue, MergedBodyMatchesHead
<1> QED
  BY <1>1, Invariance, PTL

\* What a merge brings to main: a newer commit, compared with the report it
\* replaces and different from it (Mergeable, Decision).
LEMMA MergeNews ==
  ASSUME RepositoryTypeOK, WorkerTypeOK, CommitsSound, GateMerges
  PROVE  \E head \in DOMAIN commits :
           /\ mainline' = Append(mainline, head) /\ Main' = head
           /\ commits[head].prior = Main /\ Main < head
           /\ commits[head].material # MaterialOf(Main)
           /\ UNCHANGED <<inputs, commits>>
<1> DEFINE head == pulls[worker.pull].head
<1>1. /\ mainline' = Append(mainline, head) /\ head \in DOMAIN commits
      /\ Mergeable(head) /\ UNCHANGED <<inputs, commits>>
  BY MergeEffect DEF GateAccepts, GateMerges
<1> HIDE DEF head
<1>2. mainline \in Seq(DOMAIN commits) /\ Main \in 0 .. Len(commits) /\ commits \in Seq(Commit)
  BY MainType DEF RepositoryTypeOK
<1>3. Main' = head
  BY <1>1, <1>2 DEF Main
<1>4. commits[head].prior = Main /\ commits[head].material # MaterialOf(Main)
  BY <1>1 DEF Mergeable, CommitsSound
<1>5. commits[head].prior \in 0 .. head - 1
  BY <1>1 DEF RepositoryTypeOK
<1>6. Main < head
  BY <1>1, <1>2, <1>4, <1>5
<1> QED
  BY <1>1, <1>3, <1>4, <1>6

\* Nothing but the merge gate touches main, and nothing but a merge of policy
\* or intent touches the inputs.
LEMMA MainKept ==
  ASSUME [Next]_vars
  PROVE  /\ GateMerges \/ UNCHANGED mainline
         /\ InputsChange \/ UNCHANGED inputs
<1>1. CASE UNCHANGED vars
  BY <1>1 DEF vars, repository
<1>2. CASE World
  BY <1>2 DEF World, InputsChange, QualityEnds, OwnerCloses, OwnerHolds, OwnerReleases, HumanOpens
<1>3. CASE AdvisoryStep
  BY <1>3 DEF AdvisoryStep, CheckOut, Review, Decide, Push, ListOpen, Edit, Create,
     DispatchQuality, Bridge, Abort, repository
<1>4. CASE WorkerStep
  BY <1>4 DEF WorkerStep, ListCandidates, GateMerges, GateDefers, HandOff, repository
<1> QED
  BY <1>1, <1>2, <1>3, <1>4 DEF Next

\* A merge replaces the very report its own was compared with.
THEOREM LifecycleAdvancesOnMerges == Spec => LifecycleChain
<1>1. IInv /\ [Next]_vars => (mainline' # mainline => commits'[Main'].prior = Main)
  BY MainKept, MergeNews DEF IInv, TypeOK
<1> QED
  BY <1>1, Invariance, PTL DEF Spec, LifecycleChain

\* A decline in force is the latest decision there is.
LEMMA StandingIsLatest ==
  ASSUME RepositoryTypeOK, NEW n, NEW material, DeclineStands(n, material)
  PROVE  LatestDecision = n /\ n # 0
<1> DEFINE decided == {m \in ClosedPulls : pulls[m].author = "bot"}
<1>1. PullNumbers \subseteq Nat \ {0}
  BY DEF PullNumbers, RepositoryTypeOK
<1>2. n \in decided
  BY DEF DeclineStands, ClosedPulls, OpenPulls
<1>3. \A m \in decided : m <= n
  BY <1>1 DEF DeclineStands, ClosedPulls, OpenPulls
<1>4. decided \subseteq Nat \ {0}
  BY <1>1 DEF ClosedPulls
<1>5. LatestDecision = Max(decided)
  BY <1>2 DEF LatestDecision
<1> HIDE DEF decided
<1>6. \A m \in decided : n >= m
  BY <1>3, <1>4, <1>2
<1>7. Max(decided) \in decided /\ \A m \in decided : Max(decided) >= m
  BY <1>2, <1>6 DEF Max
<1>8. PICK k \in decided : k = Max(decided)
  BY <1>7
<1>9. k \in Nat /\ n \in Nat /\ n # 0 /\ k >= n /\ n >= k
  BY <1>2, <1>4, <1>6, <1>7, <1>8
<1>10. k = n
  BY <1>9
<1> QED
  BY <1>5, <1>8, <1>9, <1>10

\* A run publishes nothing a decline in force names.
THEOREM DeclinesAreRespected == Spec => DeclineRespected
<1>1. IInv /\ [Next]_vars =>
        (run.phase = "reviewed" /\ run'.phase = "publishing" =>
           \A n \in PullNumbers : ~DeclineStands(n, run.material))
  <2> SUFFICES ASSUME IInv, [Next]_vars, run.phase = "reviewed", run'.phase = "publishing",
                      NEW n \in PullNumbers, DeclineStands(n, run.material)
               PROVE  FALSE
    OBVIOUS
  <2>1. Decide
    BY DEF Next, vars, World, WorkerStep, AdvisoryStep, CheckOut, Review, Push, ListOpen,
       Edit, Create, DispatchQuality, Bridge, Abort, NoRun
  <2>2. Decision(run.material, run.prior, LatestDecision) = "changed"
    BY <2>1 DEF Decide, NoRun
  <2>3. RecordsDecline(LatestDecision, run.material)
    BY StandingIsLatest DEF RecordsDecline, DeclineStands, IInv, TypeOK
  <2> QED
    BY <2>2, <2>3 DEF Decision
<1> QED
  BY <1>1, Invariance, PTL DEF Spec, DeclineRespected

\* What the ledger's readers see as its newest entry is the material on main.
LEMMA NewestIsMain ==
  ASSUME RepositoryTypeOK
  PROVE  Ledger!Newest = MaterialOf(Main)
<1>1. mainline \in Seq(DOMAIN commits) /\ DOMAIN commits \subseteq Nat \ {0}
  BY DEF RepositoryTypeOK
<1>2. DOMAIN Accepted = 1 .. Len(mainline) /\ Len(mainline) \in Nat
  BY <1>1 DEF Accepted
<1>3. CASE mainline = << >>
  <2>1. Accepted = << >>
    BY <1>3 DEF Accepted
  <2> QED
    BY <1>3, <2>1 DEF Ledger!Newest, MaterialOf, Main
<1>4. CASE mainline # << >>
  <2>1. Len(mainline) \in 1 .. Len(mainline) /\ mainline[Len(mainline)] \in DOMAIN commits
    BY <1>1, <1>4
  <2>2. Accepted # << >> /\ Len(Accepted) = Len(mainline)
    BY <1>1, <1>4 DEF Accepted
  <2>3. Accepted[Len(mainline)] = commits[mainline[Len(mainline)]].material
    BY <2>1, <1>2 DEF Accepted
  <2> QED
    BY <1>1, <1>4, <2>1, <2>2, <2>3 DEF Ledger!Newest, MaterialOf, Main
<1> QED
  BY <1>3, <1>4

\* A step that leaves main alone leaves the ledger's entries alone.
LEMMA AcceptedKept ==
  ASSUME IInv, [Next]_vars, UNCHANGED mainline
  PROVE  UNCHANGED Accepted
<1>1. \A k \in DOMAIN mainline : mainline[k] \in DOMAIN commits
  BY DEF IInv, TypeOK, RepositoryTypeOK
<1>2. \A c \in DOMAIN commits : commits'[c].material = commits[c].material
  BY HistoryKept DEF IInv, TypeOK, vars, repository
<1> QED
  BY <1>1, <1>2 DEF Accepted

\* Report delivery implements the ledger its readers rely on.
THEOREM DeliveryImplementsLedger == Spec => ImplementsLedger
<1>1. Init => Ledger!LedgerInit
  BY DEF Init, RepositoryInit, Ledger!LedgerInit, Accepted
<1>2. IInv /\ [Next]_vars => [Ledger!Accept \/ Ledger!InputsMove]_(Ledger!ledger)
  <2> SUFFICES ASSUME IInv, [Next]_vars
               PROVE  \/ Ledger!Accept \/ Ledger!InputsMove
                      \/ UNCHANGED Ledger!ledger
    OBVIOUS
  <2>1. RepositoryTypeOK /\ WorkerTypeOK /\ CommitsSound /\ MainlineSound
    BY DEF IInv, TypeOK
  <2>2. CASE GateMerges
    <3>1. PICK head \in DOMAIN commits :
            /\ mainline' = Append(mainline, head) /\ Main < head
            /\ commits[head].material # MaterialOf(Main)
            /\ UNCHANGED <<inputs, commits>>
      BY <2>1, <2>2, MergeNews
    <3> DEFINE material == commits[head].material
    <3>2. /\ commits \in Seq(Commit) /\ Len(commits) \in Nat /\ MaxPushes \in Nat
          /\ mainline \in Seq(DOMAIN commits) /\ Len(mainline) \in Nat
          /\ Main \in 0 .. Len(commits)
      BY <2>1, MainType, MaxPushesAssumption DEF RepositoryTypeOK
    <3>3. material \in Ledger!Materials \ {Ledger!Newest}
      <4>1. commits[head] \in Commit
        BY <3>2
      <4>2. material \in Materials
        BY <4>1 DEF Commit
      <4> QED
        BY <2>1, <3>1, <4>2, NewestIsMain DEF Materials, Ledger!Materials
    <3>4. Len(Accepted) < MaxPushes
      <4>1. Len(Accepted) = Len(mainline)
        BY <3>2 DEF Accepted
      <4> QED
        BY <2>1, <3>1, <3>2, <4>1 DEF MainlineSound
    <3>5. Accepted' = Append(Accepted, material)
      <4>1. Accepted' = [k \in 1 .. Len(mainline) + 1 |->
                           commits[Append(mainline, head)[k]].material]
        BY <3>1, <3>2 DEF Accepted
      <4>2. \A k \in 1 .. Len(mainline) + 1 :
              Append(mainline, head)[k] = IF k = Len(mainline) + 1 THEN head ELSE mainline[k]
        BY <3>2
      <4>3. Len(Accepted) = Len(mainline) /\ DOMAIN Accepted = 1 .. Len(mainline)
        BY <3>2 DEF Accepted
      <4>4. \A k \in 1 .. Len(mainline) : Accepted[k] = commits[mainline[k]].material
        BY <4>3 DEF Accepted
      <4>5. Append(Accepted, material) =
              [k \in 1 .. Len(mainline) + 1 |->
                 IF k = Len(mainline) + 1 THEN material ELSE Accepted[k]]
        BY <4>3
      <4> QED
        BY <3>2, <4>1, <4>2, <4>4, <4>5
    <3> QED
      BY <3>1, <3>3, <3>4, <3>5 DEF Ledger!Accept
  <2>3. CASE UNCHANGED mainline
    <3>1. UNCHANGED Accepted
      BY <2>3, AcceptedKept
    <3>2. CASE InputsChange
      BY <3>1, <3>2 DEF InputsChange, Ledger!InputsMove
    <3>3. CASE UNCHANGED inputs
      BY <3>1, <3>3 DEF Ledger!ledger
    <3> QED
      BY <3>2, <3>3, MainKept
  <2> QED
    BY <2>2, <2>3, MainKept
<1> QED
  BY <1>1, <1>2, Invariance, PTL DEF Spec, ImplementsLedger, Ledger!LedgerSpec

=============================================================================
