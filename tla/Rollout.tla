------------------------------ MODULE Rollout ------------------------------
(***************************************************************************)
(* The rollout of a release to HaikuPorts: the steps of Release.run with    *)
(* their records in state.json, the checkout of HaikuPorts all versions     *)
(* share, and `resume` after a step has failed or the process was killed.   *)
(*                                                                         *)
(* One process runs at a time; `watch` may run beside it.  The operator     *)
(* moves tags, deletes files and touches the branches on the fork.          *)
(***************************************************************************)
EXTENDS Integers, Sequences

CONSTANTS
  Versions,
  Sources,      \* what a tag, and the tarball of it, can hold
  Cut,          \* a file that was cut short
  MaxCommits,   \* bound on commits of HaikuPorts
  MaxFaults,    \* bound on failures and crashes
  MaxCalls,     \* bound on what the operator does
  None

VARIABLES
  tag,       \* tag[v]: the tagged source, or None
  artifact,  \* artifact[v]: the tarball
  asset,     \* asset[v]: the tarball on GitHub
  rendered,  \* rendered[v]: the recipe, by the tarball its checksum is of
  file,      \* file[v]: state.json
  clone,     \* the checkout: whether it is a clone, its branch and its port
  branch,    \* branch[b]: the commit of branch b in it, or None
  remote,    \* remote[v]: the commit of the branch on the fork, or None
  upstream,  \* the commit of the target branch
  commits,   \* commits made
  run,       \* the run under way, or None
  watching,  \* the version a watch is recording in and the state it has read
  faults, calls,
  (* history, read by the properties only *)
  cut,       \* versions with a cut file in the place of a recorded one
  mixed,     \* versions whose checkout another version has used since
  operated,  \* versions whose branch on the fork the operator has changed
  raced      \* versions whose records a watch has written over

sources == <<tag, artifact, asset, rendered>>
ports == <<clone, branch, remote, upstream, commits>>
bounded == <<faults, calls>>
history == <<cut, mixed, operated, raced>>
vars == <<sources, file, ports, run, watching, bounded, history>>

ASSUME RolloutAssumption ==
  /\ Cut \notin Sources /\ None \notin Sources \cup {Cut} \cup Versions
  /\ MaxCommits \in Nat /\ MaxFaults \in Nat /\ MaxCalls \in Nat

ordered_steps ==
  <<"validated", "preflight", "tag", "tarball", "release", "checksum", "recipe", "checkout",
    "branch", "sync", "commit", "push", "handoff", "discover", "watch">>

Names == {ordered_steps[i] : i \in DOMAIN ordered_steps}
Contents == Sources \cup {Cut}
Master == "master"

(* The port in a tree: the recipe of a version and what its checksum is of. *)
Port == [version : Versions, sum : Contents]
Commit == [id : 0..MaxCommits, port : Port \cup {None}]

ASSUME NoCommit == None \notin Commit

(* The records of completed steps, and the checksum in that of "checksum".  *)
StateFile == [done : SUBSET Names, sum : Contents \cup {None}]
base_state == [done |-> {}, sum |-> None]

(* The last step, the watch, is a command of its own. *)
Run == [version : Versions, mode : {"release", "resume"}, at : 1..(Len(ordered_steps) - 1),
        phase : {"decide", "act", "record"}, sum : Contents \cup {None}, body : Contents \cup {None}]

Init ==
  /\ tag = [v \in Versions |-> None]
  /\ artifact = [v \in Versions |-> None] /\ asset = [v \in Versions |-> None]
  /\ rendered = [v \in Versions |-> None]
  /\ file = [v \in Versions |-> base_state]
  /\ clone = [there |-> FALSE, head |-> Master, work |-> None]
  /\ branch = [b \in Versions \cup {Master} |-> None]
  /\ remote = [v \in Versions |-> None]
  /\ upstream = [id |-> 0, port |-> None]
  /\ commits = 0
  /\ run = None /\ watching = None
  /\ faults = 0 /\ calls = 0
  /\ cut = {} /\ mixed = {} /\ operated = {} /\ raced = {}

-----------------------------------------------------------------------------
(* A run: each step is skipped, or its followers are dropped, it acts and   *)
(* is recorded.                                                             *)

Now == ordered_steps[run.at]

Begin(v, mode) ==
  /\ run = None
  /\ run' = [version |-> v, mode |-> mode, at |-> 1, phase |-> "decide",
             sum |-> None, body |-> None]
  /\ UNCHANGED <<sources, file, ports, watching, bounded, history>>

(* The outputs a step looks for before it is skipped. *)
Present(v, step) ==
  /\ step = "tarball" => artifact[v] # None
  /\ step = "recipe" => rendered[v] # None
  /\ step = "sync" => clone.work # None /\ clone.work.version = v

Skipped ==
  /\ run.mode = "resume"
  /\ Now \notin {"validated", "discover"}
  /\ Now \in file[run.version].done
  /\ Present(run.version, Now)

(* Mutant: the recipe is kept in memory only by the run that renders it. *)
AdvancedWithoutRecipe(state) ==
  IF Now = "discover" THEN None
  ELSE [run EXCEPT !.at = @ + 1, !.phase = "decide",
                   !.sum = IF Now = "checksum" THEN state.sum ELSE @,
                   !.body = IF Now = "recipe" /\ run.phase = "record" THEN rendered[run.version] ELSE @]

(* The next step of a run, which keeps the checksum and the recipe. *)
Advanced(state) ==
  IF Now = "discover" THEN None
  ELSE [run EXCEPT !.at = @ + 1, !.phase = "decide",
                   !.sum = IF Now = "checksum" THEN state.sum ELSE @,
                   !.body = IF Now = "recipe" THEN rendered[run.version] ELSE @]

Skip ==
  /\ run # None /\ run.phase = "decide" /\ Skipped
  /\ run' = Advanced(file[run.version])
  /\ UNCHANGED <<sources, file, ports, watching, bounded, history>>

(* Mutant: the records of the steps that follow stay. *)
DroppedNone(state, at) == state

(* drop_steps_after! *)
Dropped(state, at) ==
  LET done == state.done \ {ordered_steps[i] : i \in (at + 1)..Len(ordered_steps)}
  IN [done |-> done, sum |-> IF "checksum" \in done THEN state.sum ELSE None]

Drops == Now \notin {"validated", "preflight", "discover"}

Start ==
  /\ run # None /\ run.phase = "decide" /\ ~Skipped
  /\ file' = IF Drops THEN [file EXCEPT ![run.version] = Dropped(@, run.at)] ELSE file
  /\ run' = [run EXCEPT !.phase = "act"]
  /\ cut' = IF Now = "tag" THEN cut \ {run.version} ELSE cut
  /\ raced' = IF Now = "tag" THEN raced \ {run.version} ELSE raced
  /\ UNCHANGED <<sources, ports, watching, bounded, mixed, operated>>

(* put_step! *)
Recorded(state, step, sum) ==
  [done |-> state.done \cup {step}, sum |-> IF step = "checksum" THEN sum ELSE state.sum]

Record ==
  LET state == Recorded(file[run.version], Now, run.sum)
  IN /\ run # None /\ run.phase = "record"
     /\ file' = [file EXCEPT ![run.version] = state]
     /\ run' = Advanced(state)
     /\ UNCHANGED <<sources, ports, watching, bounded, history>>

-----------------------------------------------------------------------------
(* What the steps do *)

Acted(step) == run # None /\ run.phase = "act" /\ Now = step /\ run' = [run EXCEPT !.phase = "record"]

(* Validation, preflight, the handoff and the search for the PR. *)
ActOutside ==
  /\ \E step \in {"validated", "preflight", "handoff", "discover"} : Acted(step)
  /\ UNCHANGED <<sources, file, ports, watching, bounded, history>>

(* ensure_tag!: a tag that is there is taken as it is. *)
ActTag ==
  /\ Acted("tag")
  /\ \/ tag[run.version] # None /\ UNCHANGED tag
     \/ tag[run.version] = None /\ \E c \in Sources : tag' = [tag EXCEPT ![run.version] = c]
  /\ UNCHANGED <<artifact, asset, rendered, file, ports, watching, bounded, history>>

ActTarball ==
  /\ Acted("tarball")
  /\ tag[run.version] # None
  /\ artifact' = [artifact EXCEPT ![run.version] = tag[run.version]]
  /\ UNCHANGED <<tag, asset, rendered, file, ports, watching, bounded, history>>

(* ensure_release!: upload --clobber *)
ActRelease ==
  /\ Acted("release")
  /\ artifact[run.version] # None
  /\ asset' = [asset EXCEPT ![run.version] = artifact[run.version]]
  /\ UNCHANGED <<tag, artifact, rendered, file, ports, watching, bounded, history>>

ActChecksum ==
  /\ run # None /\ run.phase = "act" /\ Now = "checksum"
  /\ artifact[run.version] # None
  /\ run' = [run EXCEPT !.phase = "record", !.sum = artifact[run.version]]
  /\ UNCHANGED <<sources, file, ports, watching, bounded, history>>

ActRecipe ==
  /\ Acted("recipe")
  /\ rendered' = [rendered EXCEPT ![run.version] = run.sum]
  /\ UNCHANGED <<tag, artifact, asset, file, ports, watching, bounded, history>>

(* The versions that have a checkout of their own recorded. *)
Others == {v \in Versions \ {run.version} : "checkout" \in file[v].done}

(* ensure_checkout! clones into a directory that is not there; then         *)
(* refresh_master!.  A port git does not know of survives the reset.        *)
ActCheckout ==
  /\ Acted("checkout")
  /\ clone.there \/ clone.work = None
  /\ LET known == clone.there /\ branch[clone.head] # None /\ branch[clone.head].port # None
         work == IF known \/ upstream.port # None THEN upstream.port ELSE clone.work
     IN clone' = [there |-> TRUE, head |-> Master, work |-> work]
  /\ branch' = [branch EXCEPT ![Master] = upstream]
  /\ mixed' = (mixed \ {run.version}) \cup Others
  /\ UNCHANGED <<sources, file, remote, upstream, commits, watching, bounded, cut, operated, raced>>

(* checkout -B: from whatever branch is checked out. *)
ActBranch ==
  /\ Acted("branch")
  /\ clone.there
  /\ branch' = [branch EXCEPT ![run.version] = branch[clone.head]]
  /\ clone' = [clone EXCEPT !.head = run.version]
  /\ mixed' = mixed \cup Others
  /\ UNCHANGED <<sources, file, remote, upstream, commits, watching, bounded, cut, operated, raced>>

ActSync ==
  /\ Acted("sync")
  /\ clone' = [clone EXCEPT !.work = [version |-> run.version, sum |-> run.body]]
  /\ mixed' = mixed \cup Others
  /\ UNCHANGED <<sources, file, branch, remote, upstream, commits, watching, bounded, cut, operated, raced>>

(* commit_changes!: nothing to commit is fine. *)
ActCommit ==
  /\ Acted("commit")
  /\ clone.there
  /\ \/ /\ clone.work = branch[clone.head].port
        /\ UNCHANGED <<branch, commits>>
     \/ /\ clone.work # branch[clone.head].port /\ commits < MaxCommits
        /\ commits' = commits + 1
        /\ branch' = [branch EXCEPT ![clone.head] = [id |-> commits + 1, port |-> clone.work]]
  /\ mixed' = mixed \cup Others
  /\ UNCHANGED <<sources, file, clone, remote, upstream, watching, bounded, cut, operated, raced>>

(* push_branch!: a branch that is there is never written. *)
Pushable(v) == clone.there /\ branch[v] # None /\ remote[v] \in {None, branch[v]}

(* Mutant: a branch that is there is taken for pushed, whatever it holds. *)
ActPushBlind ==
  /\ Acted("push")
  /\ clone.there /\ branch[run.version] # None
  /\ remote' = IF remote[run.version] = None
               THEN [remote EXCEPT ![run.version] = branch[run.version]] ELSE remote
  /\ operated' = operated \ {run.version}
  /\ UNCHANGED <<sources, file, clone, branch, upstream, commits, watching, bounded, cut, mixed, raced>>

ActPush ==
  /\ Acted("push")
  /\ Pushable(run.version)
  /\ remote' = [remote EXCEPT ![run.version] = branch[run.version]]
  /\ operated' = operated \ {run.version}
  /\ UNCHANGED <<sources, file, clone, branch, upstream, commits, watching, bounded, cut, mixed, raced>>

(* A step that cannot be done is recorded as failed, and the run ends. *)
Impossible ==
  \/ Now = "checkout" /\ ~clone.there /\ clone.work # None
  \/ Now \in {"branch", "commit"} /\ ~clone.there
  \/ Now = "push" /\ ~Pushable(run.version)

Failed(state, step) ==
  [done |-> state.done \ {step}, sum |-> IF step = "checksum" THEN None ELSE state.sum]

Refuse ==
  /\ run # None /\ run.phase = "act" /\ Impossible
  /\ file' = [file EXCEPT ![run.version] = Failed(@, Now)]
  /\ run' = None
  /\ UNCHANGED <<sources, ports, watching, bounded, history>>

-----------------------------------------------------------------------------
(* Failures, crashes and the operator *)

Fault == faults < MaxFaults /\ faults' = faults + 1

(* What a step that is broken off leaves behind. *)
Remains ==
  \/ UNCHANGED <<artifact, rendered, clone>>
  \/ /\ Now = "tarball"
     /\ artifact' = [artifact EXCEPT ![run.version] = Cut]
     /\ UNCHANGED <<rendered, clone>>
  \/ /\ Now = "recipe"
     /\ rendered' = [rendered EXCEPT ![run.version] = Cut]
     /\ UNCHANGED <<artifact, clone>>
  \/ /\ Now = "sync"
     /\ clone' = [clone EXCEPT !.work = None]
     /\ UNCHANGED <<artifact, rendered>>

Fail ==
  /\ run # None /\ run.phase = "act"
  /\ Fault
  /\ Remains
  /\ file' = [file EXCEPT ![run.version] = Failed(@, Now)]
  /\ run' = None
  /\ UNCHANGED <<tag, asset, branch, remote, upstream, commits, watching, calls, history>>

(* A step is recorded, also as failed, or its followers are dropped. *)
Writing == run.phase = "decide" => ~Skipped /\ Drops

(* A state file that is being written reads as none. *)
Crash ==
  /\ run # None
  /\ Fault
  /\ \/ /\ run.phase = "act"
        /\ Remains
        /\ cut' = IF Now \in file[run.version].done /\ <<artifact, rendered>>' # <<artifact, rendered>>
                  THEN cut \cup {run.version} ELSE cut
     \/ /\ run.phase # "act"
        /\ UNCHANGED <<artifact, rendered, clone, cut>>
  /\ \/ UNCHANGED file
     \/ Writing /\ file' = [file EXCEPT ![run.version] = base_state]
  /\ run' = None
  /\ UNCHANGED <<tag, asset, branch, remote, upstream, commits, watching, calls, mixed, operated, raced>>

Call == calls < MaxCalls /\ calls' = calls + 1

(* Between runs a tag is moved, or a file or the checkout deleted. *)
MoveTag(v) ==
  /\ Call /\ run = None
  /\ tag[v] # None
  /\ \E c \in Sources \ {tag[v]} : tag' = [tag EXCEPT ![v] = c]
  /\ UNCHANGED <<artifact, asset, rendered, file, ports, run, watching, faults, history>>

Clean(v) ==
  /\ Call /\ run = None
  /\ \/ artifact[v] # None /\ artifact' = [artifact EXCEPT ![v] = None] /\ UNCHANGED rendered
     \/ rendered[v] # None /\ rendered' = [rendered EXCEPT ![v] = None] /\ UNCHANGED artifact
  /\ UNCHANGED <<tag, asset, file, ports, run, watching, faults, history>>

DropCheckout ==
  /\ Call /\ run = None
  /\ clone.there
  /\ clone' = [there |-> FALSE, head |-> Master, work |-> None]
  /\ branch' = [b \in DOMAIN branch |-> None]
  /\ mixed' = {v \in Versions : "checkout" \in file[v].done}
  /\ UNCHANGED <<sources, file, remote, upstream, commits, run, watching, faults, cut, operated, raced>>

(* On the fork the branch is amended, deleted, or overwritten by hand. *)
Touch(v) ==
  /\ Call
  /\ remote[v] # None
  /\ \/ /\ commits < MaxCommits /\ commits' = commits + 1
        /\ remote' = [remote EXCEPT ![v] = [id |-> commits + 1, port |-> None]]
     \/ remote' = [remote EXCEPT ![v] = None] /\ UNCHANGED commits
     \/ branch[v] # None /\ remote' = [remote EXCEPT ![v] = branch[v]] /\ UNCHANGED commits
  /\ operated' = operated \cup {v}
  /\ UNCHANGED <<sources, file, clone, branch, upstream, run, watching, faults, cut, mixed, raced>>

(* The PR is merged. *)
Merge(v) ==
  /\ Call
  /\ remote[v] # None /\ remote[v].port # upstream.port
  /\ commits < MaxCommits /\ commits' = commits + 1
  /\ upstream' = [id |-> commits + 1, port |-> remote[v].port]
  /\ UNCHANGED <<sources, file, clone, branch, remote, run, watching, faults, history>>

(* Watch.run records its result in the state it has read. *)
WatchReads(v) ==
  /\ Call /\ watching = None
  /\ watching' = [version |-> v, state |-> file[v]]
  /\ UNCHANGED <<sources, file, ports, run, faults, history>>

WatchWrites ==
  /\ watching # None
  /\ LET v == watching.version
     IN /\ file' = [file EXCEPT ![v] = Recorded(watching.state, "watch", None)]
        /\ raced' = IF file[v] = watching.state THEN raced ELSE raced \cup {v}
  /\ watching' = None
  /\ UNCHANGED <<sources, ports, run, bounded, cut, mixed, operated>>

Act ==
  \/ ActOutside \/ ActTag \/ ActTarball \/ ActRelease \/ ActChecksum \/ ActRecipe
  \/ ActCheckout \/ ActBranch \/ ActSync \/ ActCommit \/ ActPush

Next ==
  \/ \E v \in Versions, mode \in {"release", "resume"} : Begin(v, mode)
  \/ Skip \/ Start \/ Act \/ Record \/ Refuse
  \/ Fail \/ Crash
  \/ DropCheckout \/ WatchWrites
  \/ \E v \in Versions : MoveTag(v) \/ Clean(v) \/ Touch(v) \/ Merge(v) \/ WatchReads(v)

Spec == Init /\ [][Next]_vars

-----------------------------------------------------------------------------
(* Properties *)

TypeOK ==
  /\ tag \in [Versions -> Sources \cup {None}]
  /\ artifact \in [Versions -> Contents \cup {None}]
  /\ asset \in [Versions -> Contents \cup {None}]
  /\ rendered \in [Versions -> Contents \cup {None}]
  /\ file \in [Versions -> StateFile]
  /\ clone \in [there : BOOLEAN, head : Versions \cup {Master}, work : Port \cup {None}]
  /\ branch \in [Versions \cup {Master} -> Commit \cup {None}]
  /\ remote \in [Versions -> Commit \cup {None}]
  /\ upstream \in Commit /\ commits \in 0..MaxCommits
  /\ run \in Run \cup {None}
  /\ watching \in [version : Versions, state : StateFile] \cup {None}

(* What state.json says of a step is true of what the steps before it have  *)
(* left, through failures, crashes and deleted files: the uploaded asset    *)
(* and the checksum are those of the tarball, the recipe has the checksum.  *)
(* Only a watch that writes over the records of a run can break this.       *)
RecordsCurrent ==
  \A v \in Versions \ raced :
    LET done == file[v].done
    IN /\ "release" \in done => "tarball" \in done /\ artifact[v] \in {asset[v], None}
       /\ "checksum" \in done => "release" \in done /\ file[v].sum = asset[v]
       /\ "recipe" \in done => "checksum" \in done /\ rendered[v] \in {file[v].sum, None, Cut}

(* A branch recorded as pushed holds the recipe of its version, with the    *)
(* checksum of the whole tarball that can be downloaded.  The exceptions:   *)
(* the operator has changed the branch; another version has used the        *)
(* checkout since it was refreshed for this one; a crash cut a file that    *)
(* was being made again; or a watch has written over the records.           *)
PublishedMatches ==
  \A v \in Versions \ (operated \cup mixed \cup cut \cup raced) :
    "push" \in file[v].done =>
      /\ asset[v] \in Sources
      /\ remote[v] # None /\ remote[v].port = [version |-> v, sum |-> asset[v]]
=============================================================================
