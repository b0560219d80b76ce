---------------------------- MODULE RolloutProofs ----------------------------
(***************************************************************************)
(* Proofs that the records of a rollout are current and that what it       *)
(* publishes is what they say, for every set of versions and sources and   *)
(* every number of commits, failures and acts of the operator.             *)
(***************************************************************************)
EXTENDS Rollout, TLAPS

(* The steps by their numbers. *)
LEMMA Steps ==
  /\ Len(ordered_steps) = 15
  /\ DOMAIN ordered_steps = 1..15
  /\ \A i \in 1..15 :
       /\ ordered_steps[i] \in Names
       /\ ordered_steps[i] = "validated" <=> i = 1
       /\ ordered_steps[i] = "preflight" <=> i = 2
       /\ ordered_steps[i] = "tag" <=> i = 3
       /\ ordered_steps[i] = "tarball" <=> i = 4
       /\ ordered_steps[i] = "release" <=> i = 5
       /\ ordered_steps[i] = "checksum" <=> i = 6
       /\ ordered_steps[i] = "recipe" <=> i = 7
       /\ ordered_steps[i] = "checkout" <=> i = 8
       /\ ordered_steps[i] = "branch" <=> i = 9
       /\ ordered_steps[i] = "sync" <=> i = 10
       /\ ordered_steps[i] = "commit" <=> i = 11
       /\ ordered_steps[i] = "push" <=> i = 12
       /\ ordered_steps[i] = "handoff" <=> i = 13
       /\ ordered_steps[i] = "discover" <=> i = 14
       /\ ordered_steps[i] = "watch" <=> i = 15
<1>1. Len(ordered_steps) = 15 /\ DOMAIN ordered_steps = 1..15
  BY DEF ordered_steps
<1>2. ASSUME NEW i \in 1..15 PROVE ordered_steps[i] \in Names
  BY <1>1 DEF Names
<1>3. /\ ordered_steps[1] = "validated" /\ ordered_steps[2] = "preflight"
      /\ ordered_steps[3] = "tag" /\ ordered_steps[4] = "tarball" /\ ordered_steps[5] = "release"
      /\ ordered_steps[6] = "checksum" /\ ordered_steps[7] = "recipe"
      /\ ordered_steps[8] = "checkout" /\ ordered_steps[9] = "branch"
      /\ ordered_steps[10] = "sync" /\ ordered_steps[11] = "commit" /\ ordered_steps[12] = "push"
      /\ ordered_steps[13] = "handoff" /\ ordered_steps[14] = "discover"
      /\ ordered_steps[15] = "watch"
  BY DEF ordered_steps
<1>4. ASSUME NEW i \in 1..15
      PROVE \/ i = 1 \/ i = 2 \/ i = 3 \/ i = 4 \/ i = 5 \/ i = 6 \/ i = 7 \/ i = 8
            \/ i = 9 \/ i = 10 \/ i = 11 \/ i = 12 \/ i = 13 \/ i = 14 \/ i = 15
  OBVIOUS
<1> QED BY <1>1, <1>2, <1>3, <1>4

(* What the type of a checksum rests on: one is recorded with its step, and *)
(* a run has passed the steps that make it and the recipe.                  *)
SumsKnown ==
  /\ \A v \in Versions : "checksum" \in file[v].done => file[v].sum \in Contents
  /\ watching # None /\ "checksum" \in watching.state.done => watching.state.sum \in Contents
  /\ run # None =>
       /\ run.at > 6 \/ (run.at = 6 /\ run.phase = "record") => run.sum \in Contents
       /\ run.at > 7 => run.body \in Contents
       /\ run.at = 7 /\ run.phase = "record" => rendered[run.version] \in Contents

TInv == TypeOK /\ SumsKnown

LEMMA BaseType == base_state \in StateFile
  BY DEF base_state, StateFile

LEMMA DroppedType ==
  ASSUME NEW s \in StateFile, NEW i \in 1..14
  PROVE  /\ Dropped(s, i) \in StateFile
         /\ Dropped(s, i).done \subseteq s.done
         /\ "checksum" \in Dropped(s, i).done => Dropped(s, i).sum = s.sum
  BY DEF Dropped, StateFile

LEMMA RecordedType ==
  ASSUME NEW s \in StateFile, NEW step \in Names, NEW sum \in Contents \cup {None}
  PROVE  Recorded(s, step, sum) \in StateFile
  BY DEF Recorded, StateFile

LEMMA FailedType ==
  ASSUME NEW s \in StateFile, NEW step \in Names
  PROVE  /\ Failed(s, step) \in StateFile
         /\ Failed(s, step).done = s.done \ {step}
         /\ step # "checksum" => Failed(s, step).sum = s.sum
  BY DEF Failed, StateFile

(* A run under way, and the step it is at. *)
LEMMA RunType ==
  ASSUME TInv, run # None
  PROVE  /\ run \in Run
         /\ run.version \in Versions /\ run.at \in 1..14
         /\ Now = ordered_steps[run.at] /\ Now \in Names
         /\ file[run.version] \in StateFile
<1>1. run \in Run
  BY DEF TInv, TypeOK
<1>2. run.version \in Versions /\ run.at \in 1..14
  BY <1>1, Steps DEF Run
<1> QED BY <1>1, <1>2, Steps DEF TInv, TypeOK, Now

(* What the run is after a step that is skipped or recorded with state s. *)
LEMMA AdvancedType ==
  ASSUME TInv, run # None, NEW s \in StateFile,
         run.at = 6 => s.sum \in Contents,
         run.at = 7 => rendered[run.version] \in Contents
  PROVE  \/ Advanced(s) = None
         \/ /\ Advanced(s) \in Run
            /\ Advanced(s).at = run.at + 1 /\ Advanced(s).phase = "decide"
            /\ Advanced(s).version = run.version
            /\ Advanced(s).sum = IF run.at = 6 THEN s.sum ELSE run.sum
            /\ run.at + 1 > 6 => Advanced(s).sum \in Contents
            /\ run.at + 1 > 7 => Advanced(s).body \in Contents
<1>1. run \in Run /\ run.version \in Versions /\ run.at \in 1..14 /\ Now = ordered_steps[run.at]
  BY RunType
<1>2. /\ Now = "checksum" <=> run.at = 6
      /\ Now = "recipe" <=> run.at = 7
      /\ Now = "discover" <=> run.at = 14
  BY <1>1, Steps
<1>3. CASE Now = "discover"
  BY <1>3 DEF Advanced
<1>4. CASE Now # "discover"
  <2> DEFINE sum == IF Now = "checksum" THEN s.sum ELSE run.sum
             body == IF Now = "recipe" THEN rendered[run.version] ELSE run.body
  <2>1. Advanced(s) = [run EXCEPT !.at = run.at + 1, !.phase = "decide", !.sum = sum, !.body = body]
    BY <1>4 DEF Advanced
  <2>2. sum \in Contents \cup {None} /\ (run.at + 1 > 6 => sum \in Contents)
    <3>1. CASE Now = "checksum"
      BY <1>2, <3>1 DEF StateFile
    <3>2. CASE Now # "checksum"
      BY <1>1, <1>2, <3>2 DEF TInv, SumsKnown, Run
    <3> QED BY <3>1, <3>2
  <2>3. body \in Contents \cup {None} /\ (run.at + 1 > 7 => body \in Contents)
    BY <1>1, <1>2 DEF TInv, SumsKnown, TypeOK, Run
  <2>4. run.at + 1 \in 1..(Len(ordered_steps) - 1)
    BY <1>1, <1>2, <1>4, Steps
  <2>5. sum = IF run.at = 6 THEN s.sum ELSE run.sum
    BY <1>2
  <2> HIDE DEF sum, body
  <2> QED BY <1>1, <2>1, <2>2, <2>3, <2>4, <2>5 DEF Run
<1> QED BY <1>3, <1>4

(* The steps of a run other than what they do. *)
LEMMA TypeOfControl ==
  ASSUME TInv,
         (\E v \in Versions, mode \in {"release", "resume"} : Begin(v, mode))
         \/ Skip \/ Start \/ Record \/ Refuse
  PROVE  TInv'
<1>1. ASSUME NEW v \in Versions, NEW mode \in {"release", "resume"}, Begin(v, mode) PROVE TInv'
  <2>1. run' \in Run /\ run'.at = 1
    BY <1>1, Steps DEF Begin, Run
  <2> QED BY <1>1, <2>1 DEF Begin, TInv, TypeOK, SumsKnown, sources, ports, bounded, history
<1>2. ASSUME Skip PROVE TInv'
  <2>1. run # None /\ run.phase = "decide" /\ run' = Advanced(file[run.version])
    BY <1>2 DEF Skip
  <2>2. run.at = 6 => file[run.version].sum \in Contents
    BY <1>2, <2>1, RunType, Steps DEF Skip, Skipped, TInv, SumsKnown
  <2>3. run.at = 7 => rendered[run.version] \in Contents
    BY <1>2, <2>1, RunType, Steps DEF Skip, Skipped, Present, TInv, TypeOK
  <2>4. run' = None \/ (/\ run' \in Run /\ run'.at = run.at + 1 /\ run'.phase = "decide"
                        /\ run.at + 1 > 6 => run'.sum \in Contents
                        /\ run.at + 1 > 7 => run'.body \in Contents)
    BY <2>1, <2>2, <2>3, RunType, AdvancedType
  <2> QED BY <1>2, <2>4 DEF Skip, TInv, TypeOK, SumsKnown, sources, ports, bounded, history
<1>3. ASSUME Start PROVE TInv'
  <2>1. run # None
    BY <1>3 DEF Start
  <2>2. run' = [run EXCEPT !.phase = "act"] /\ run \in Run
    BY <1>3, <2>1, RunType DEF Start
  <2>3. /\ run' \in Run /\ run'.at = run.at /\ run'.phase = "act" /\ run'.sum = run.sum
        /\ run'.body = run.body
    BY <2>2 DEF Run
  <2>4. Dropped(file[run.version], run.at) \in StateFile
        /\ ("checksum" \in Dropped(file[run.version], run.at).done =>
              "checksum" \in file[run.version].done
              /\ Dropped(file[run.version], run.at).sum = file[run.version].sum)
    BY <2>1, RunType, DroppedType
  <2>5. file' \in [Versions -> StateFile]
        /\ \A v \in Versions : "checksum" \in file'[v].done => file'[v].sum \in Contents
    BY <1>3, <2>1, <2>4, RunType DEF Start, TInv, TypeOK, SumsKnown
  <2> QED BY <1>3, <2>1, <2>3, <2>5 DEF Start, TInv, TypeOK, SumsKnown, sources, ports, bounded
<1>4. ASSUME Record PROVE TInv'
  <2> DEFINE state == Recorded(file[run.version], Now, run.sum)
  <2>1. run # None /\ run.phase = "record" /\ run' = Advanced(state)
        /\ file' = [file EXCEPT ![run.version] = state]
    BY <1>4 DEF Record
  <2>2. run \in Run /\ run.sum \in Contents \cup {None}
    BY <2>1, RunType DEF Run
  <2>3. state \in StateFile
    BY <2>1, <2>2, RunType, RecordedType
  <2>4. run.at = 6 <=> Now = "checksum"
    BY <2>1, RunType, Steps
  <2>5. "checksum" \in state.done => state.sum \in Contents
    BY <2>1, <2>2, <2>4, RunType DEF Recorded, StateFile, TInv, SumsKnown
  <2>6. run.at = 6 => state.sum \in Contents
    BY <2>1, <2>4 DEF Recorded, TInv, SumsKnown
  <2>7. run.at = 7 => rendered[run.version] \in Contents
    BY <2>1 DEF TInv, SumsKnown
  <2>8. run' = None \/ (/\ run' \in Run /\ run'.at = run.at + 1 /\ run'.phase = "decide"
                        /\ run.at + 1 > 6 => run'.sum \in Contents
                        /\ run.at + 1 > 7 => run'.body \in Contents)
    BY <2>1, <2>3, <2>6, <2>7, AdvancedType
  <2>9. file' \in [Versions -> StateFile]
        /\ \A v \in Versions : "checksum" \in file'[v].done => file'[v].sum \in Contents
    BY <2>1, <2>3, <2>5, RunType DEF TInv, TypeOK, SumsKnown
  <2> QED BY <1>4, <2>8, <2>9 DEF Record, TInv, TypeOK, SumsKnown, sources, ports, bounded, history
<1>5. ASSUME Refuse PROVE TInv'
  <2>1. run # None /\ run' = None /\ file' = [file EXCEPT ![run.version] = Failed(@, Now)]
    BY <1>5 DEF Refuse
  <2>2. file' \in [Versions -> StateFile]
        /\ \A v \in Versions : "checksum" \in file'[v].done => file'[v].sum \in Contents
    BY <2>1, RunType, FailedType DEF TInv, TypeOK, SumsKnown
  <2> QED BY <1>5, <2>1, <2>2 DEF Refuse, TInv, TypeOK, SumsKnown, sources, ports, bounded, history
<1> QED BY <1>1, <1>2, <1>3, <1>4, <1>5

(* A step that acts: the run goes on to record it. *)
LEMMA ActedType ==
  ASSUME TInv, NEW step, Acted(step)
  PROVE  /\ run # None /\ run \in Run /\ run.version \in Versions /\ run.at \in 1..14
         /\ run.phase = "act" /\ Now = step /\ step = ordered_steps[run.at]
         /\ run' \in Run /\ run'.at = run.at /\ run'.phase = "record"
         /\ run'.version = run.version /\ run'.sum = run.sum /\ run'.body = run.body
<1>1. run # None /\ run.phase = "act" /\ Now = step /\ run' = [run EXCEPT !.phase = "record"]
  BY DEF Acted
<1>2. run \in Run
  BY <1>1, RunType
<1>3. /\ run' \in Run /\ run'.at = run.at /\ run'.phase = "record"
      /\ run'.version = run.version /\ run'.sum = run.sum /\ run'.body = run.body
  BY <1>1, <1>2 DEF Run
<1> QED BY <1>1, <1>2, <1>3, RunType

(* What the steps do. *)
LEMMA TypeOfActs ==
  ASSUME TInv, Act
  PROVE  TInv'
<1>1. ASSUME ActOutside PROVE TInv'
  <2>1. PICK step \in {"validated", "preflight", "handoff", "discover"} : Acted(step)
    BY <1>1 DEF ActOutside
  <2>2. run.at # 6 /\ run.at # 7
    BY <2>1, ActedType, Steps
  <2> QED BY <1>1, <2>1, <2>2, ActedType
          DEF ActOutside, TInv, TypeOK, SumsKnown, sources, ports, bounded, history
<1>2. ASSUME ActTag PROVE TInv'
  <2>1. Acted("tag")
    BY <1>2 DEF ActTag
  <2>2. run.at = 3
    BY <2>1, ActedType, Steps
  <2>3. tag' \in [Versions -> Sources \cup {None}]
    BY <1>2 DEF ActTag, TInv, TypeOK
  <2> QED BY <1>2, <2>1, <2>2, <2>3, ActedType
          DEF ActTag, TInv, TypeOK, SumsKnown, ports, bounded, history
<1>3. ASSUME ActTarball PROVE TInv'
  <2>1. Acted("tarball")
    BY <1>3 DEF ActTarball
  <2>2. run.at = 4
    BY <2>1, ActedType, Steps
  <2>3. artifact' \in [Versions -> Contents \cup {None}]
    BY <1>3 DEF ActTarball, TInv, TypeOK, Contents
  <2> QED BY <1>3, <2>1, <2>2, <2>3, ActedType
          DEF ActTarball, TInv, TypeOK, SumsKnown, ports, bounded, history
<1>4. ASSUME ActRelease PROVE TInv'
  <2>1. Acted("release")
    BY <1>4 DEF ActRelease
  <2>2. run.at = 5
    BY <2>1, ActedType, Steps
  <2>3. asset' \in [Versions -> Contents \cup {None}]
    BY <1>4, <2>1, ActedType DEF ActRelease, TInv, TypeOK
  <2> QED BY <1>4, <2>1, <2>2, <2>3, ActedType
          DEF ActRelease, TInv, TypeOK, SumsKnown, ports, bounded, history
<1>5. ASSUME ActChecksum PROVE TInv'
  <2>1. /\ run # None /\ Now = "checksum" /\ artifact[run.version] # None
        /\ run' = [run EXCEPT !.phase = "record", !.sum = artifact[run.version]]
    BY <1>5 DEF ActChecksum
  <2>2. run \in Run /\ run.version \in Versions /\ run.at = 6
    BY <2>1, RunType, Steps
  <2>3. artifact[run.version] \in Contents
    BY <2>1, <2>2 DEF TInv, TypeOK
  <2>4. run' \in Run /\ run'.at = 6 /\ run'.sum \in Contents
    BY <2>1, <2>2, <2>3 DEF Run
  <2> QED BY <1>5, <2>4 DEF ActChecksum, TInv, TypeOK, SumsKnown, sources, ports, bounded, history
<1>6. ASSUME ActRecipe PROVE TInv'
  <2>1. Acted("recipe") /\ rendered' = [rendered EXCEPT ![run.version] = run.sum]
    BY <1>6 DEF ActRecipe
  <2>2. run.at = 7
    BY <2>1, ActedType, Steps
  <2>3. run.sum \in Contents
    BY <2>1, <2>2, ActedType DEF TInv, SumsKnown
  <2>4. rendered' \in [Versions -> Contents \cup {None}] /\ rendered'[run.version] \in Contents
    BY <2>1, <2>3, ActedType DEF TInv, TypeOK
  <2> QED BY <1>6, <2>1, <2>2, <2>3, <2>4, ActedType
          DEF ActRecipe, TInv, TypeOK, SumsKnown, ports, bounded, history
<1>7. ASSUME ActCheckout PROVE TInv'
  <2>1. Acted("checkout")
    BY <1>7 DEF ActCheckout
  <2>2. run.at # 6 /\ run.at # 7
    BY <2>1, ActedType, Steps
  <2>3. clone.work \in Port \cup {None} /\ upstream \in Commit /\ upstream.port \in Port \cup {None}
    BY DEF TInv, TypeOK, Commit
  <2>4. clone' \in [there : BOOLEAN, head : Versions \cup {Master}, work : Port \cup {None}]
    BY <1>7, <2>3 DEF ActCheckout
  <2>5. branch' \in [Versions \cup {Master} -> Commit \cup {None}]
    BY <1>7, <2>3 DEF ActCheckout, TInv, TypeOK
  <2> QED BY <1>7, <2>1, <2>2, <2>4, <2>5, ActedType
          DEF ActCheckout, TInv, TypeOK, SumsKnown, sources, bounded
<1>8. ASSUME ActBranch PROVE TInv'
  <2>1. Acted("branch")
    BY <1>8 DEF ActBranch
  <2>2. run.at # 6 /\ run.at # 7
    BY <2>1, ActedType, Steps
  <2>3. branch' \in [Versions \cup {Master} -> Commit \cup {None}]
    BY <1>8, <2>1, ActedType DEF ActBranch, TInv, TypeOK
  <2>4. clone' \in [there : BOOLEAN, head : Versions \cup {Master}, work : Port \cup {None}]
    BY <1>8, <2>1, ActedType DEF ActBranch, TInv, TypeOK
  <2> QED BY <1>8, <2>1, <2>2, <2>3, <2>4, ActedType
          DEF ActBranch, TInv, TypeOK, SumsKnown, sources, bounded
<1>9. ASSUME ActSync PROVE TInv'
  <2>1. Acted("sync")
    BY <1>9 DEF ActSync
  <2>2. run.at = 10
    BY <2>1, ActedType, Steps
  <2>3. [version |-> run.version, sum |-> run.body] \in Port
    BY <2>1, <2>2, ActedType DEF TInv, SumsKnown, Port
  <2>4. clone' \in [there : BOOLEAN, head : Versions \cup {Master}, work : Port \cup {None}]
    BY <1>9, <2>3 DEF ActSync, TInv, TypeOK
  <2> QED BY <1>9, <2>1, <2>2, <2>4, ActedType
          DEF ActSync, TInv, TypeOK, SumsKnown, sources, bounded
<1>10. ASSUME ActCommit PROVE TInv'
  <2>1. Acted("commit")
    BY <1>10 DEF ActCommit
  <2>2. run.at # 6 /\ run.at # 7
    BY <2>1, ActedType, Steps
  <2>3. CASE UNCHANGED <<branch, commits>>
    BY <1>10, <2>1, <2>2, <2>3, ActedType
       DEF ActCommit, TInv, TypeOK, SumsKnown, sources, bounded
  <2>4. CASE /\ commits < MaxCommits /\ commits' = commits + 1
             /\ branch' = [branch EXCEPT ![clone.head] = [id |-> commits + 1, port |-> clone.work]]
    <3>1. commits' \in 0..MaxCommits
      BY <2>4, RolloutAssumption DEF TInv, TypeOK
    <3>2. [id |-> commits + 1, port |-> clone.work] \in Commit
      BY <2>4, <3>1 DEF TInv, TypeOK, Commit
    <3>3. branch' \in [Versions \cup {Master} -> Commit \cup {None}]
      BY <2>4, <3>2 DEF TInv, TypeOK
    <3> QED BY <1>10, <2>1, <2>2, <3>1, <3>3, ActedType
            DEF ActCommit, TInv, TypeOK, SumsKnown, sources, bounded
  <2> QED BY <1>10, <2>3, <2>4 DEF ActCommit
<1>11. ASSUME ActPush PROVE TInv'
  <2>1. Acted("push")
    BY <1>11 DEF ActPush
  <2>2. run.at # 6 /\ run.at # 7
    BY <2>1, ActedType, Steps
  <2>3. remote' \in [Versions -> Commit \cup {None}]
    BY <1>11, <2>1, ActedType DEF ActPush, TInv, TypeOK
  <2> QED BY <1>11, <2>1, <2>2, <2>3, ActedType
          DEF ActPush, TInv, TypeOK, SumsKnown, sources, bounded
<1> QED BY <1>1, <1>2, <1>3, <1>4, <1>5, <1>6, <1>7, <1>8, <1>9, <1>10, <1>11 DEF Act

(* What is left of a step that is broken off. *)
LEMMA RemainsType ==
  ASSUME TInv, run # None, Remains
  PROVE  /\ artifact' \in [Versions -> Contents \cup {None}]
         /\ rendered' \in [Versions -> Contents \cup {None}]
         /\ clone' \in [there : BOOLEAN, head : Versions \cup {Master}, work : Port \cup {None}]
  BY RunType DEF Remains, TInv, TypeOK, Contents

(* Failures, crashes and the operator. *)
LEMMA TypeOfRest ==
  ASSUME TInv,
         \/ Fail \/ Crash \/ DropCheckout \/ WatchWrites
         \/ \E v \in Versions : MoveTag(v) \/ Clean(v) \/ Touch(v) \/ Merge(v) \/ WatchReads(v)
  PROVE  TInv'
<1>1. ASSUME Fail PROVE TInv'
  <2>1. run # None /\ run' = None /\ Remains /\ file' = [file EXCEPT ![run.version] = Failed(@, Now)]
    BY <1>1 DEF Fail
  <2>2. file' \in [Versions -> StateFile]
        /\ \A v \in Versions : "checksum" \in file'[v].done => file'[v].sum \in Contents
    BY <2>1, RunType, FailedType DEF TInv, TypeOK, SumsKnown
  <2> QED BY <1>1, <2>1, <2>2, RemainsType DEF Fail, TInv, TypeOK, SumsKnown, history
<1>2. ASSUME Crash PROVE TInv'
  <2>1. run # None /\ run' = None
    BY <1>2 DEF Crash
  <2>2. /\ artifact' \in [Versions -> Contents \cup {None}]
        /\ rendered' \in [Versions -> Contents \cup {None}]
        /\ clone' \in [there : BOOLEAN, head : Versions \cup {Master}, work : Port \cup {None}]
    BY <1>2, <2>1, RemainsType DEF Crash, TInv, TypeOK
  <2>3. base_state \in StateFile /\ base_state.done = {}
    BY BaseType DEF base_state
  <2>4. file' \in [Versions -> StateFile]
        /\ \A v \in Versions : "checksum" \in file'[v].done => file'[v].sum \in Contents
    BY <1>2, <2>1, <2>3, RunType DEF Crash, TInv, TypeOK, SumsKnown
  <2> QED BY <1>2, <2>1, <2>2, <2>4 DEF Crash, TInv, TypeOK, SumsKnown
<1>3. ASSUME DropCheckout PROVE TInv'
  <2>1. clone' \in [there : BOOLEAN, head : Versions \cup {Master}, work : Port \cup {None}]
    BY <1>3 DEF DropCheckout
  <2>2. branch' \in [Versions \cup {Master} -> Commit \cup {None}]
    BY <1>3 DEF DropCheckout, TInv, TypeOK
  <2> QED BY <1>3, <2>1, <2>2 DEF DropCheckout, TInv, TypeOK, SumsKnown, sources
<1>4. ASSUME WatchWrites PROVE TInv'
  <2>1. watching # None /\ watching.version \in Versions /\ watching.state \in StateFile
    BY <1>4 DEF WatchWrites, TInv, TypeOK
  <2> DEFINE state == Recorded(watching.state, "watch", None)
  <2>2. state \in StateFile
    BY <2>1, Steps, RecordedType
  <2>3. "checksum" \in state.done => state.sum \in Contents
    BY <2>1 DEF Recorded, TInv, SumsKnown
  <2>4. file' = [file EXCEPT ![watching.version] = state] /\ watching' = None
    BY <1>4 DEF WatchWrites
  <2> HIDE DEF state
  <2>5. file' \in [Versions -> StateFile]
        /\ \A v \in Versions : "checksum" \in file'[v].done => file'[v].sum \in Contents
    BY <2>1, <2>2, <2>3, <2>4 DEF TInv, TypeOK, SumsKnown
  <2> QED BY <1>4, <2>4, <2>5 DEF WatchWrites, TInv, TypeOK, SumsKnown, sources, ports, bounded
<1>5. ASSUME NEW v \in Versions, MoveTag(v) PROVE TInv'
  BY <1>5 DEF MoveTag, TInv, TypeOK, SumsKnown, ports, history
<1>6. ASSUME NEW v \in Versions, Clean(v) PROVE TInv'
  BY <1>6 DEF Clean, TInv, TypeOK, SumsKnown, ports, history
<1>7. ASSUME NEW v \in Versions, Touch(v) PROVE TInv'
  <2>1. commits' \in 0..MaxCommits /\ remote' \in [Versions -> Commit \cup {None}]
    <3>1. CASE /\ commits < MaxCommits /\ commits' = commits + 1
               /\ remote' = [remote EXCEPT ![v] = [id |-> commits + 1, port |-> None]]
      <4>1. commits' \in 0..MaxCommits
        BY <3>1, RolloutAssumption DEF TInv, TypeOK
      <4>2. [id |-> commits + 1, port |-> None] \in Commit
        BY <3>1, <4>1 DEF Commit
      <4> QED BY <3>1, <4>1, <4>2 DEF TInv, TypeOK
    <3>2. CASE remote' = [remote EXCEPT ![v] = None] /\ UNCHANGED commits
      BY <3>2 DEF TInv, TypeOK
    <3>3. CASE remote' = [remote EXCEPT ![v] = branch[v]] /\ UNCHANGED commits
      BY <3>3 DEF TInv, TypeOK
    <3> QED BY <1>7, <3>1, <3>2, <3>3 DEF Touch
  <2> QED BY <1>7, <2>1 DEF Touch, TInv, TypeOK, SumsKnown, sources
<1>8. ASSUME NEW v \in Versions, Merge(v) PROVE TInv'
  <2>1. commits < MaxCommits /\ commits' = commits + 1 /\ remote[v] \in Commit
        /\ upstream' = [id |-> commits + 1, port |-> remote[v].port]
    BY <1>8 DEF Merge, TInv, TypeOK
  <2>2. commits' \in 0..MaxCommits
    BY <2>1, RolloutAssumption DEF TInv, TypeOK
  <2>3. upstream' \in Commit
    BY <2>1, <2>2 DEF Commit
  <2> QED BY <1>8, <2>2, <2>3 DEF Merge, TInv, TypeOK, SumsKnown, sources, history
<1>9. ASSUME NEW v \in Versions, WatchReads(v) PROVE TInv'
  <2>1. watching' \in [version : Versions, state : StateFile] /\ watching'.state = file[v]
    BY <1>9 DEF WatchReads, TInv, TypeOK
  <2> QED BY <1>9, <2>1 DEF WatchReads, TInv, TypeOK, SumsKnown, sources, ports, history
<1> QED BY <1>1, <1>2, <1>3, <1>4, <1>5, <1>6, <1>7, <1>8, <1>9

LEMMA TypeOfInit == Init => TInv
<1> SUFFICES ASSUME Init PROVE TInv
  OBVIOUS
<1>1. base_state \in StateFile /\ base_state.done = {}
  BY BaseType DEF base_state
<1>2. upstream \in Commit /\ commits \in 0..MaxCommits
  BY RolloutAssumption DEF Init, Commit
<1>3. clone \in [there : BOOLEAN, head : Versions \cup {Master}, work : Port \cup {None}]
  BY DEF Init
<1> QED BY <1>1, <1>2, <1>3 DEF Init, TInv, TypeOK, SumsKnown

LEMMA TypeOfNext ==
  ASSUME TInv, [Next]_vars
  PROVE  TInv'
<1>1. CASE UNCHANGED vars
  BY <1>1 DEF vars, sources, ports, bounded, history, TInv, TypeOK, SumsKnown
<1> QED BY <1>1, TypeOfControl, TypeOfActs, TypeOfRest DEF Next

LEMMA TypeInvariant == Spec => []TInv
<1>1. TInv /\ [Next]_vars => TInv'
  BY TypeOfNext
<1> QED BY <1>1, TypeOfInit, PTL DEF Spec

(* Type correctness of the rollout: in particular, a recipe is never        *)
(* rendered or committed without a checksum.                                *)
THEOREM TypeCorrect == Spec => []TypeOK
<1>1. TInv => TypeOK
  BY DEF TInv
<1> QED BY <1>1, TypeInvariant, PTL

-----------------------------------------------------------------------------
(* The order of the records *)

LEMMA Distinct == \A i, j \in 1..15 : ordered_steps[i] = ordered_steps[j] => i = j
<1> SUFFICES ASSUME NEW i \in 1..15, NEW j \in 1..15, ordered_steps[i] = ordered_steps[j]
             PROVE  i = j
  OBVIOUS
<1>1. \/ i = 1 \/ i = 2 \/ i = 3 \/ i = 4 \/ i = 5 \/ i = 6 \/ i = 7 \/ i = 8
      \/ i = 9 \/ i = 10 \/ i = 11 \/ i = 12 \/ i = 13 \/ i = 14 \/ i = 15
  OBVIOUS
<1> QED BY <1>1, Steps

(* Step i of version v is recorded as done. *)
Done(v, i) == ordered_steps[i] \in file[v].done

(* A step is recorded only with those before it, from the tag on, a run has *)
(* all of them recorded, and when it acts none that follow.                 *)
Ordered(v) ==
  /\ \A i \in 4..14 : Done(v, i) => Done(v, i - 1)
  /\ run # None /\ run.version = v =>
       /\ \A i \in 3..14 : i < run.at => Done(v, i)
       /\ run.phase # "decide" /\ run.at >= 3 => \A i \in 3..14 : i > run.at => ~Done(v, i)

OrderInv == \A v \in Versions \ raced : Ordered(v)

LEMMA DroppedDone ==
  ASSUME NEW s \in StateFile, NEW at \in 1..14, NEW i \in 1..14
  PROVE  ordered_steps[i] \in Dropped(s, at).done <=> ordered_steps[i] \in s.done /\ i <= at
<1>1. Dropped(s, at).done = s.done \ {ordered_steps[j] : j \in (at + 1)..15}
  BY Steps DEF Dropped
<1>2. ordered_steps[i] \in {ordered_steps[j] : j \in (at + 1)..15} <=> i > at
  <2>1. ASSUME NEW j \in (at + 1)..15, ordered_steps[i] = ordered_steps[j] PROVE i > at
    BY <2>1, Distinct
  <2> QED BY <2>1
<1> QED BY <1>1, <1>2

(* One record more, or one less, changes that step alone. *)
LEMMA RecordedDone ==
  ASSUME NEW s \in StateFile, NEW at \in 1..15, NEW sum, NEW i \in 1..14
  PROVE  ordered_steps[i] \in Recorded(s, ordered_steps[at], sum).done
           <=> ordered_steps[i] \in s.done \/ i = at
  BY Distinct DEF Recorded

LEMMA FailedDone ==
  ASSUME NEW s \in StateFile, NEW at \in 1..15, NEW i \in 1..14
  PROVE  ordered_steps[i] \in Failed(s, ordered_steps[at]).done
           <=> ordered_steps[i] \in s.done /\ i # at
  BY Distinct DEF Failed

(* A step that acts leaves the records alone. *)
LEMMA ActFrame ==
  ASSUME TInv, Act
  PROVE  /\ run # None /\ run \in Run /\ run.phase = "act"
         /\ run' \in Run /\ run'.phase = "record"
         /\ run'.at = run.at /\ run'.version = run.version
         /\ UNCHANGED <<file, raced, cut>>
<1>1. run # None /\ run.phase = "act" /\ UNCHANGED <<file, raced, cut>>
  BY DEF Act, ActOutside, ActTag, ActTarball, ActRelease, ActChecksum, ActRecipe, ActCheckout,
         ActBranch, ActSync, ActCommit, ActPush, Acted, history
<1>2. run \in Run
  BY <1>1, RunType
<1>3. run' = [run EXCEPT !.phase = "record"]
      \/ run' = [run EXCEPT !.phase = "record", !.sum = artifact[run.version]]
  BY DEF Act, ActOutside, ActTag, ActTarball, ActRelease, ActChecksum, ActRecipe, ActCheckout,
         ActBranch, ActSync, ActCommit, ActPush, Acted
<1>4. artifact[run.version] \in Contents \cup {None}
  BY <1>2 DEF Run, TInv, TypeOK
<1>5. run' \in Run /\ run'.phase = "record" /\ run'.at = run.at /\ run'.version = run.version
  BY <1>2, <1>3, <1>4 DEF Run
<1> QED BY <1>1, <1>2, <1>5

(* A run that is at a new step, at the first one or over. *)
LEMMA ControlFrame ==
  ASSUME TInv, run # None, Skip \/ Record
  PROVE  \/ run' = None
         \/ run'.at = run.at + 1 /\ run'.phase = "decide" /\ run'.version = run.version
<1>1. run \in Run /\ run.at \in 1..14
  BY RunType
<1> QED BY <1>1 DEF Skip, Record, Advanced, Run

LEMMA OrderOfControl ==
  ASSUME TInv, OrderInv, NEW v \in Versions \ raced',
         (\E w \in Versions, mode \in {"release", "resume"} : Begin(w, mode))
         \/ Skip \/ Start \/ Record
  PROVE  Ordered(v)'
<1>1. CASE \E w \in Versions, mode \in {"release", "resume"} : Begin(w, mode)
  <2>1. run'.at = 1 /\ run'.phase = "decide" /\ UNCHANGED <<file, raced>>
    BY <1>1 DEF Begin, history
  <2> QED BY <2>1 DEF OrderInv, Ordered, Done
<1>2. CASE Skip
  <2>1. run # None /\ Now \in file[run.version].done /\ UNCHANGED <<file, raced>>
    BY <1>2 DEF Skip, Skipped, history
  <2>2. run.at \in 1..14 /\ Done(run.version, run.at)
    BY <2>1, RunType DEF Done
  <2> QED BY <1>2, <2>1, <2>2, ControlFrame DEF OrderInv, Ordered, Done
<1>3. CASE Start
  <2>1. /\ run # None /\ run.phase = "decide" /\ run' = [run EXCEPT !.phase = "act"]
        /\ run \in Run /\ run.at \in 1..14 /\ run.version \in Versions
        /\ Now = ordered_steps[run.at]
    BY <1>3, RunType DEF Start
  <2>2. run'.at = run.at /\ run'.version = run.version /\ run'.phase = "act"
    BY <2>1 DEF Run
  <2>3. CASE v # run.version
    BY <1>3, <2>2, <2>3 DEF Start, TInv, TypeOK, OrderInv, Ordered, Done
  <2>4. CASE ~Drops
    <3>1. run.at \in {1, 2, 14} /\ Now # "tag"
      BY <2>1, <2>4, Steps DEF Drops
    <3>2. UNCHANGED <<file, raced>>
      BY <1>3, <2>4, <3>1 DEF Start
    <3> QED BY <2>1, <2>2, <3>1, <3>2 DEF OrderInv, Ordered, Done
  <2>5. CASE Drops /\ v = run.version
    <3>1. run.at >= 3
      BY <2>1, <2>5, Steps DEF Drops
    <3>2. file'[v] = Dropped(file[v], run.at)
      BY <1>3, <2>1, <2>5 DEF Start, TInv, TypeOK
    <3>3. ASSUME NEW i \in 3..14 PROVE Done(v, i)' <=> Done(v, i) /\ i <= run.at
      BY <2>1, <2>5, <3>2, RunType, DroppedDone DEF Done
    <3>4. v \notin raced \/ run.at = 3
      BY <1>3, <2>1, <2>5, Steps DEF Start
    <3> QED BY <2>1, <2>2, <2>5, <3>1, <3>3, <3>4 DEF OrderInv, Ordered
  <2> QED BY <2>3, <2>4, <2>5
<1>4. CASE Record
  <2>1. /\ run # None /\ run.phase = "record" /\ run.at \in 1..14 /\ run.version \in Versions
        /\ Now = ordered_steps[run.at] /\ UNCHANGED raced
    BY <1>4, RunType DEF Record, history
  <2>2. CASE v # run.version
    BY <1>4, <2>1, <2>2, ControlFrame DEF Record, TInv, TypeOK, OrderInv, Ordered, Done
  <2>3. CASE v = run.version
    <3>1. file'[v] = Recorded(file[v], ordered_steps[run.at], run.sum)
      BY <1>4, <2>1, <2>3 DEF Record, TInv, TypeOK
    <3>2. ASSUME NEW i \in 3..14 PROVE Done(v, i)' <=> Done(v, i) \/ i = run.at
      BY <2>1, <2>3, <3>1, RunType, RecordedDone DEF Done
    <3> QED BY <1>4, <2>1, <2>3, <3>2, ControlFrame DEF OrderInv, Ordered
  <2> QED BY <2>2, <2>3
<1> QED BY <1>1, <1>2, <1>3, <1>4

(* A step that fails, or cannot be done, follows no record. *)
LEMMA OrderOfFailed ==
  ASSUME TInv, OrderInv, NEW v \in Versions \ raced', Refuse \/ Fail
  PROVE  Ordered(v)'
<1>1. /\ run # None /\ run.phase = "act" /\ run' = None /\ UNCHANGED raced
      /\ file' = [file EXCEPT ![run.version] = Failed(@, Now)]
  BY DEF Refuse, Fail, history
<1>2. run.at \in 1..14 /\ run.version \in Versions /\ Now = ordered_steps[run.at]
  BY <1>1, RunType
<1>3. CASE v # run.version
  BY <1>1, <1>2, <1>3 DEF TInv, TypeOK, OrderInv, Ordered, Done
<1>4. CASE v = run.version
  <2>1. file'[v] = Failed(file[v], ordered_steps[run.at])
    BY <1>1, <1>2, <1>4 DEF TInv, TypeOK
  <2>2. ASSUME NEW i \in 3..14 PROVE Done(v, i)' <=> Done(v, i) /\ i # run.at
    BY <1>1, <1>2, <1>4, <2>1, RunType, FailedDone DEF Done
  <2> QED BY <1>1, <1>2, <1>4, <2>2 DEF OrderInv, Ordered
<1> QED BY <1>3, <1>4

LEMMA OrderOfRest ==
  ASSUME TInv, OrderInv, NEW v \in Versions \ raced',
         \/ Crash \/ DropCheckout \/ WatchWrites
         \/ \E w \in Versions : MoveTag(w) \/ Clean(w) \/ Touch(w) \/ Merge(w) \/ WatchReads(w)
  PROVE  Ordered(v)'
<1>1. CASE Crash
  <2>1. run # None /\ run' = None /\ UNCHANGED raced
        /\ (UNCHANGED file \/ file' = [file EXCEPT ![run.version] = base_state])
    BY <1>1 DEF Crash
  <2>2. file'[v] = file[v] \/ file'[v].done = {}
    BY <2>1, RunType DEF TInv, TypeOK, base_state
  <2> QED BY <2>1, <2>2 DEF OrderInv, Ordered, Done
<1>2. CASE WatchWrites
  <2>1. watching # None /\ watching.version \in Versions /\ watching.state \in StateFile
        /\ UNCHANGED run
    BY <1>2 DEF WatchWrites, TInv, TypeOK
  <2>2. CASE v # watching.version
    BY <1>2, <2>1, <2>2 DEF WatchWrites, TInv, TypeOK, OrderInv, Ordered, Done
  <2>3. CASE v = watching.version
    <3>1. file[v] = watching.state /\ UNCHANGED raced
      BY <1>2, <2>3 DEF WatchWrites
    <3>2. file'[v] = Recorded(file[v], ordered_steps[15], None)
      BY <1>2, <2>1, <2>3, <3>1, Steps DEF WatchWrites, TInv, TypeOK
    <3>3. ASSUME NEW i \in 3..14 PROVE Done(v, i)' <=> Done(v, i)
      BY <2>1, <2>3, <3>1, <3>2, RecordedDone DEF Done
    <3>4. run # None => run.at \in 1..14
      BY RunType
    <3> QED BY <2>1, <3>1, <3>3, <3>4 DEF OrderInv, Ordered
  <2> QED BY <2>2, <2>3
<1>3. CASE DropCheckout \/ \E w \in Versions : MoveTag(w) \/ Clean(w) \/ Touch(w) \/ Merge(w)
                                             \/ WatchReads(w)
  <2>1. UNCHANGED <<file, run, raced>>
    BY <1>3 DEF DropCheckout, MoveTag, Clean, Touch, Merge, WatchReads, history
  <2> QED BY <2>1 DEF OrderInv, Ordered, Done
<1> QED BY <1>1, <1>2, <1>3

LEMMA OrderOfNext ==
  ASSUME TInv, OrderInv, [Next]_vars
  PROVE  OrderInv'
<1> SUFFICES ASSUME NEW v \in Versions \ raced' PROVE Ordered(v)'
  BY DEF OrderInv
<1>1. CASE UNCHANGED vars
  BY <1>1 DEF vars, history, OrderInv, Ordered, Done
<1>2. CASE Act
  <2>1. /\ run # None /\ run.phase = "act" /\ run'.at = run.at /\ run'.version = run.version
        /\ UNCHANGED <<file, raced>>
    BY <1>2, ActFrame
  <2> QED BY <2>1 DEF OrderInv, Ordered, Done
<1> QED BY <1>1, <1>2, OrderOfControl, OrderOfFailed, OrderOfRest DEF Next

-----------------------------------------------------------------------------
(* What a record stands for *)

(* The run has done step i of version v and is about to record it. *)
Recording(v, i) == run # None /\ run.version = v /\ run.at = i /\ run.phase = "record"

Stands(v, i) == Done(v, i) \/ Recording(v, i)

(* A step is recorded after it was done, and records that were written over *)
(* or cut are there again only when the run starts anew at the tag.         *)
LEMMA DoneNext ==
  ASSUME TInv, [Next]_vars, NEW v \in Versions \ raced', NEW i \in 4..14, Done(v, i)'
  PROVE  /\ v \notin raced /\ (v \in cut => v \in cut')
         /\ Stands(v, i)
<1>1. CASE UNCHANGED <<file, raced>> /\ cut \subseteq cut'
  BY <1>1 DEF Done, Stands
<1>2. CASE Start
  <2>1. /\ run # None /\ run.at \in 1..14 /\ run.version \in Versions
        /\ Now = ordered_steps[run.at]
    BY <1>2, RunType DEF Start
  <2>2. CASE v # run.version
    BY <1>2, <2>1, <2>2 DEF Start, TInv, TypeOK, Done, Stands
  <2>3. CASE v = run.version /\ ~Drops
    BY <1>2, <2>1, <2>3, Steps DEF Start, Drops, Done, Stands
  <2>4. CASE v = run.version /\ Drops
    <3>1. file'[v] = Dropped(file[v], run.at)
      BY <1>2, <2>1, <2>4 DEF Start, TInv, TypeOK
    <3>2. Done(v, i) /\ i <= run.at
      BY <2>1, <2>4, <3>1, RunType, DroppedDone DEF Done
    <3>3. Now # "tag"
      BY <2>1, <3>2, Steps
    <3> QED BY <1>2, <3>2, <3>3 DEF Start, Stands
  <2> QED BY <2>2, <2>3, <2>4
<1>3. CASE Record
  <2>1. /\ run # None /\ run.phase = "record" /\ run.at \in 1..14 /\ run.version \in Versions
        /\ Now = ordered_steps[run.at] /\ UNCHANGED <<raced, cut>>
    BY <1>3, RunType DEF Record, history
  <2>2. CASE v # run.version
    BY <1>3, <2>1, <2>2 DEF Record, TInv, TypeOK, Done, Stands
  <2>3. CASE v = run.version
    <3>1. file'[v] = Recorded(file[v], ordered_steps[run.at], run.sum)
      BY <1>3, <2>1, <2>3 DEF Record, TInv, TypeOK
    <3>2. Done(v, i) \/ i = run.at
      BY <2>1, <2>3, <3>1, RunType, RecordedDone DEF Done
    <3> QED BY <2>1, <2>3, <3>2 DEF Stands, Recording
  <2> QED BY <2>2, <2>3
<1>4. CASE Refuse \/ Fail
  <2>1. run # None /\ file' = [file EXCEPT ![run.version] = Failed(@, Now)] /\ UNCHANGED <<raced, cut>>
    BY <1>4 DEF Refuse, Fail, history
  <2>2. file'[v] = file[v] \/ file'[v] = Failed(file[v], Now)
    BY <2>1 DEF TInv, TypeOK
  <2> QED BY <2>1, <2>2 DEF Failed, Done, Stands
<1>5. CASE Crash
  <2>1. run # None /\ cut \subseteq cut' /\ UNCHANGED raced
        /\ (UNCHANGED file \/ file' = [file EXCEPT ![run.version] = base_state])
    BY <1>5 DEF Crash
  <2>2. file'[v] = file[v] \/ file'[v].done = {}
    BY <2>1, RunType DEF TInv, TypeOK, base_state
  <2> QED BY <2>1, <2>2 DEF Done, Stands
<1>6. CASE WatchWrites
  <2>1. watching # None /\ watching.version \in Versions /\ watching.state \in StateFile
        /\ raced \subseteq raced' /\ UNCHANGED cut
    BY <1>6 DEF WatchWrites, TInv, TypeOK
  <2>2. CASE v # watching.version
    BY <1>6, <2>1, <2>2 DEF WatchWrites, TInv, TypeOK, Done, Stands
  <2>3. CASE v = watching.version
    <3>1. file[v] = watching.state
      BY <1>6, <2>3 DEF WatchWrites
    <3>2. file'[v] = Recorded(file[v], ordered_steps[15], None)
      BY <1>6, <2>1, <2>3, <3>1, Steps DEF WatchWrites, TInv, TypeOK
    <3>3. Done(v, i)
      BY <2>1, <2>3, <3>1, <3>2, RecordedDone DEF Done
    <3> QED BY <2>1, <3>3 DEF Stands
  <2> QED BY <2>2, <2>3
<1>7. Act => UNCHANGED <<file, raced>> /\ cut \subseteq cut'
  BY ActFrame
<1>8. (\E w \in Versions, mode \in {"release", "resume"} : Begin(w, mode)) \/ Skip \/ DropCheckout
      \/ (\E w \in Versions : MoveTag(w) \/ Clean(w) \/ Touch(w) \/ Merge(w) \/ WatchReads(w))
      \/ UNCHANGED vars
      => UNCHANGED <<file, raced>> /\ cut \subseteq cut'
  BY DEF Begin, Skip, DropCheckout, MoveTag, Clean, Touch, Merge, WatchReads, history, vars
<1> QED BY <1>1, <1>2, <1>3, <1>4, <1>5, <1>6, <1>7, <1>8 DEF Next

LEMMA RecordingNext ==
  ASSUME TInv, [Next]_vars, NEW v \in Versions, NEW i \in 4..14, Recording(v, i)'
  PROVE  /\ raced \subseteq raced' /\ cut \subseteq cut'
         /\ run # None /\ run.version = v /\ run.at = i
         /\ (Recording(v, i) /\ UNCHANGED run) \/ Act
<1>1. CASE Act
  BY <1>1, ActFrame DEF Recording
<1>2. CASE UNCHANGED run /\ raced \subseteq raced' /\ cut \subseteq cut'
  BY <1>2 DEF Recording
<1>3. CASE Start
  <2>1. run # None /\ run \in Run /\ run' = [run EXCEPT !.phase = "act"]
    BY <1>3, RunType DEF Start
  <2>2. run'.phase = "act"
    BY <2>1 DEF Run
  <2> QED BY <2>2 DEF Recording
<1>4. CASE Skip \/ Record
  <2>1. run # None
    BY <1>4 DEF Skip, Record
  <2> QED BY <1>4, <2>1, ControlFrame DEF Recording
<1>5. CASE \/ \E w \in Versions, mode \in {"release", "resume"} : Begin(w, mode)
           \/ Refuse \/ Fail \/ Crash
  <2>1. run' = None \/ run'.phase = "decide"
    BY <1>5 DEF Begin, Refuse, Fail, Crash
  <2> QED BY <2>1 DEF Recording
<1>6. DropCheckout \/ WatchWrites
      \/ (\E w \in Versions : MoveTag(w) \/ Clean(w) \/ Touch(w) \/ Merge(w) \/ WatchReads(w))
      \/ UNCHANGED vars
      => UNCHANGED run /\ raced \subseteq raced' /\ cut \subseteq cut'
  BY DEF DropCheckout, WatchWrites, MoveTag, Clean, Touch, Merge, WatchReads, history, vars
<1> QED BY <1>1, <1>2, <1>3, <1>4, <1>5, <1>6 DEF Next

LEMMA StandsNext ==
  ASSUME TInv, [Next]_vars, NEW v \in Versions \ raced', NEW i \in 4..14, Stands(v, i)'
  PROVE  /\ v \notin raced /\ (v \in cut => v \in cut')
         /\ Stands(v, i) \/ (Act /\ run.version = v /\ run.at = i)
<1>1. CASE Done(v, i)'
  BY <1>1, DoneNext
<1>2. CASE Recording(v, i)'
  BY <1>2, RecordingNext DEF Stands
<1> QED BY <1>1, <1>2 DEF Stands

(* A run past the checksum has come there from the step before, or is       *)
(* where it was.                                                            *)
LEMMA RunNext ==
  ASSUME TInv, [Next]_vars, run' # None, run'.at > 6
  PROVE  /\ raced \subseteq raced' /\ cut \subseteq cut'
         /\ run # None /\ run'.version = run.version /\ run.at \in 6..14
         /\ \/ /\ run'.at = run.at /\ run'.sum = run.sum /\ run'.body = run.body
            \/ /\ Skip \/ Record
               /\ run'.at = run.at + 1
               /\ run'.body = IF run.at = 7 THEN rendered[run.version] ELSE run.body
               /\ run.at # 6 => run'.sum = run.sum
<1>1. CASE Act
  <2>1. run # None /\ run.at \in 1..14 /\ run \in Run /\ Now = ordered_steps[run.at] /\ run.phase = "act"
    BY <1>1, ActFrame, RunType
  <2>2. run.at > 6
    BY <1>1, ActFrame
  <2>3. ~ActChecksum
    BY <2>1, <2>2, Steps DEF ActChecksum
  <2>4. run' = [run EXCEPT !.phase = "record"]
    BY <1>1, <2>3 DEF Act, ActOutside, ActTag, ActTarball, ActRelease, ActRecipe, ActCheckout,
         ActBranch, ActSync, ActCommit, ActPush, Acted
  <2>5. run'.sum = run.sum /\ run'.body = run.body
    BY <2>1, <2>4 DEF Run
  <2> QED BY <1>1, <2>1, <2>2, <2>5, ActFrame
<1>2. CASE UNCHANGED run /\ raced \subseteq raced' /\ cut \subseteq cut'
  BY <1>2, RunType
<1>3. CASE Start
  <2>1. /\ run # None /\ run \in Run /\ run' = [run EXCEPT !.phase = "act"] /\ run.at \in 1..14
        /\ Now = ordered_steps[run.at]
    BY <1>3, RunType DEF Start
  <2>2. /\ run'.at = run.at /\ run'.sum = run.sum /\ run'.body = run.body
        /\ run'.version = run.version
    BY <2>1 DEF Run
  <2>3. Now # "tag"
    BY <2>1, <2>2, Steps
  <2> QED BY <1>3, <2>1, <2>2, <2>3 DEF Start
<1>4. CASE Skip \/ Record
  <2>1. run # None /\ run \in Run /\ run.at \in 1..14 /\ Now = ordered_steps[run.at]
        /\ UNCHANGED <<raced, cut>>
    BY <1>4, RunType DEF Skip, Record, history
  <2>2. /\ Now = "checksum" <=> run.at = 6
        /\ Now = "recipe" <=> run.at = 7
    BY <2>1, Steps
  <2>3. PICK s : run' = Advanced(s)
    BY <1>4 DEF Skip, Record
  <2>4. run' = [run EXCEPT !.at = run.at + 1, !.phase = "decide",
                   !.sum = IF Now = "checksum" THEN s.sum ELSE run.sum,
                   !.body = IF Now = "recipe" THEN rendered[run.version] ELSE run.body]
    BY <2>3 DEF Advanced
  <2>5. /\ run'.at = run.at + 1 /\ run'.version = run.version
        /\ run'.sum = IF Now = "checksum" THEN s.sum ELSE run.sum
        /\ run'.body = IF Now = "recipe" THEN rendered[run.version] ELSE run.body
    BY <2>1, <2>4 DEF Run
  <2> QED BY <1>4, <2>1, <2>2, <2>5
<1>5. CASE \/ \E w \in Versions, mode \in {"release", "resume"} : Begin(w, mode)
           \/ Refuse \/ Fail \/ Crash
  <2>1. run' = None \/ run'.at = 1
    BY <1>5 DEF Begin, Refuse, Fail, Crash
  <2> QED BY <2>1
<1>6. DropCheckout \/ WatchWrites
      \/ (\E w \in Versions : MoveTag(w) \/ Clean(w) \/ Touch(w) \/ Merge(w) \/ WatchReads(w))
      => UNCHANGED run /\ raced \subseteq raced' /\ cut \subseteq cut'
  BY DEF DropCheckout, WatchWrites, MoveTag, Clean, Touch, Merge, WatchReads, history, vars
<1>7. CASE UNCHANGED vars
  BY <1>7, RunType DEF vars, history
<1> QED BY <1>1, <1>2, <1>3, <1>4, <1>5, <1>6, <1>7 DEF Next

(* A step follows those whose results it takes, and those that take its     *)
(* results follow it.                                                       *)
Acting(v, i) == run # None /\ run.version = v /\ run.at = i /\ run.phase = "act"

LEMMA ActOrder ==
  ASSUME TInv, OrderInv, NEW v \in Versions \ raced, NEW at \in 3..14, Acting(v, at)
  PROVE  /\ \A i \in 3..14 : i < at => Done(v, i)
         /\ \A i \in 4..14 : i > at => ~Stands(v, i)
  BY RunType DEF OrderInv, Ordered, Stands, Recording, Acting

-----------------------------------------------------------------------------
(* The checksums *)

Summed(v) ==
  /\ Stands(v, 5) => artifact[v] \in {asset[v], None}
  /\ Done(v, 6) => file[v].sum = asset[v]
  /\ Stands(v, 7) => rendered[v] \in {asset[v], None, Cut}
  /\ Recording(v, 6) \/ (run # None /\ run.version = v /\ run.at > 6) => run.sum = asset[v]

SumsInv == \A v \in Versions \ raced : Summed(v)

(* A recorded checksum stays or is that of the run.                         *)
LEMMA SumNext ==
  ASSUME TInv, [Next]_vars, NEW v \in Versions \ raced', Done(v, 6)'
  PROVE  \/ Done(v, 6) /\ file'[v].sum = file[v].sum
         \/ Recording(v, 6) /\ file'[v].sum = run.sum
<1>1. CASE UNCHANGED file
  BY <1>1 DEF Done
<1>2. CASE Start
  <2>1. /\ run # None /\ run.at \in 1..14 /\ run.version \in Versions
    BY <1>2, RunType DEF Start
  <2>2. file'[v] = file[v] \/ (v = run.version /\ file'[v] = Dropped(file[v], run.at))
    BY <1>2, <2>1 DEF Start, TInv, TypeOK
  <2> QED BY <2>1, <2>2, RunType, DroppedType, Steps DEF Done
<1>3. CASE Record
  <2>1. /\ run # None /\ run.phase = "record" /\ run.at \in 1..14 /\ run.version \in Versions
        /\ Now = ordered_steps[run.at]
    BY <1>3, RunType DEF Record
  <2>2. file'[v] = file[v] \/ (v = run.version /\ file'[v] = Recorded(file[v], Now, run.sum))
    BY <1>3, <2>1 DEF Record, TInv, TypeOK
  <2>3. Now = "checksum" <=> run.at = 6
    BY <2>1, Steps
  <2> QED BY <2>1, <2>2, <2>3, Steps DEF Recorded, Done, Recording
<1>4. CASE Refuse \/ Fail
  <2>1. run # None /\ file' = [file EXCEPT ![run.version] = Failed(@, Now)]
    BY <1>4 DEF Refuse, Fail
  <2>2. file'[v] = file[v] \/ file'[v] = Failed(file[v], Now)
    BY <2>1 DEF TInv, TypeOK
  <2> QED BY <2>1, <2>2, Steps DEF Failed, Done
<1>5. CASE Crash
  <2>1. run # None /\ (UNCHANGED file \/ file' = [file EXCEPT ![run.version] = base_state])
    BY <1>5 DEF Crash
  <2>2. file'[v] = file[v] \/ file'[v].done = {}
    BY <2>1, RunType DEF TInv, TypeOK, base_state
  <2> QED BY <2>1, <2>2 DEF Done
<1>6. CASE WatchWrites
  <2>1. file'[v] = file[v]
        \/ (file[v] = watching.state /\ file'[v] = Recorded(watching.state, "watch", None))
    BY <1>6 DEF WatchWrites, TInv, TypeOK
  <2> QED BY <2>1, Steps DEF Recorded, Done
<1>7. Act => UNCHANGED file
  BY ActFrame
<1>8. (\E w \in Versions, mode \in {"release", "resume"} : Begin(w, mode)) \/ Skip \/ DropCheckout
      \/ (\E w \in Versions : MoveTag(w) \/ Clean(w) \/ Touch(w) \/ Merge(w) \/ WatchReads(w))
      \/ UNCHANGED vars
      => UNCHANGED file
  BY DEF Begin, Skip, DropCheckout, MoveTag, Clean, Touch, Merge, WatchReads, vars
<1> QED BY <1>1, <1>2, <1>3, <1>4, <1>5, <1>6, <1>7, <1>8 DEF Next

(* What becomes of the asset, the tarball and the recipe of a version.      *)
AssetStep(v) ==
  \/ asset'[v] = asset[v]
  \/ /\ Acting(v, 5) /\ artifact[v] # None
     /\ asset'[v] = artifact[v] /\ artifact'[v] = artifact[v]

ArtifactStep(v) ==
  \/ artifact'[v] \in {artifact[v], None}
  \/ /\ Acting(v, 4)
     /\ \/ artifact'[v] \in Sources
        \/ Done(v, 4)' => v \in cut'

RenderedStep(v) ==
  \/ rendered'[v] \in {rendered[v], None}
  \/ /\ Acting(v, 7)
     /\ \/ rendered'[v] = run.sum
        \/ rendered'[v] = Cut /\ (Done(v, 7)' => v \in cut')

(* A step broken off leaves a cut file only where that is known or the step *)
(* is not recorded.                                                         *)
LEMMA RemainsFiles ==
  ASSUME TInv, Fail \/ Crash, NEW v \in Versions
  PROVE  ArtifactStep(v) /\ RenderedStep(v)
<1>1. /\ run # None /\ run.at \in 1..14 /\ run.version \in Versions /\ Now = ordered_steps[run.at]
      /\ file[run.version] \in StateFile
  BY RunType DEF Fail, Crash
<1>2. CASE UNCHANGED <<artifact, rendered>>
  BY <1>2 DEF ArtifactStep, RenderedStep
<1>3. CASE run.phase = "act" /\ Remains /\ <<artifact, rendered>>' # <<artifact, rendered>>
  <2>1. ASSUME v = run.version, Now \in file'[v].done PROVE v \in cut'
    <3>1. CASE Fail
      <4>1. file'[v] = Failed(file[v], Now)
        BY <1>1, <2>1, <3>1 DEF Fail, TInv, TypeOK
      <4> QED BY <2>1, <4>1 DEF Failed
    <3>2. CASE Crash
      <4>1. file' = file \/ file' = [file EXCEPT ![run.version] = base_state]
        BY <3>2 DEF Crash
      <4>2. file'[v] = file[v] \/ file'[v].done = {}
        BY <1>1, <2>1, <4>1 DEF TInv, TypeOK, base_state
      <4> QED BY <1>3, <2>1, <3>2, <4>2 DEF Crash
    <3> QED BY <3>1, <3>2
  <2>2. CASE Now = "tarball" /\ artifact' = [artifact EXCEPT ![run.version] = Cut] /\ UNCHANGED rendered
    <3>1. run.at = 4 /\ ordered_steps[4] = Now
      <4>1. Now = "tarball" <=> run.at = 4
        BY <1>1, Steps
      <4> QED BY <1>1, <2>2, <4>1
    <3>2. artifact'[v] = artifact[v] \/ (v = run.version /\ artifact'[v] = Cut)
      BY <2>2 DEF TInv, TypeOK
    <3> QED BY <1>1, <1>3, <2>1, <2>2, <3>1, <3>2 DEF ArtifactStep, RenderedStep, Acting, Done
  <2>3. CASE Now = "recipe" /\ rendered' = [rendered EXCEPT ![run.version] = Cut] /\ UNCHANGED artifact
    <3>1. run.at = 7 /\ ordered_steps[7] = Now
      <4>1. Now = "recipe" <=> run.at = 7
        BY <1>1, Steps
      <4> QED BY <1>1, <2>3, <4>1
    <3>2. rendered'[v] = rendered[v] \/ (v = run.version /\ rendered'[v] = Cut)
      BY <2>3 DEF TInv, TypeOK
    <3> QED BY <1>1, <1>3, <2>1, <2>3, <3>1, <3>2 DEF ArtifactStep, RenderedStep, Acting, Done
  <2> QED BY <1>3, <2>2, <2>3 DEF Remains
<1>4. (run.phase = "act" /\ Remains) \/ UNCHANGED <<artifact, rendered>>
  BY DEF Fail, Crash
<1> QED BY <1>2, <1>3, <1>4

LEMMA FilesNext ==
  ASSUME TInv, [Next]_vars, NEW v \in Versions
  PROVE  AssetStep(v) /\ ArtifactStep(v) /\ RenderedStep(v)
<1> USE DEF AssetStep, ArtifactStep, RenderedStep
<1>1. CASE UNCHANGED <<artifact, asset, rendered>>
  BY <1>1
<1>2. CASE ActTarball
  <2>1. Acted("tarball")
    BY <1>2 DEF ActTarball
  <2>2. Acting(run.version, 4)
    BY <2>1, ActedType, Steps DEF Acting
  <2>3. tag[run.version] \in Sources
    BY <1>2, <2>1, ActedType DEF ActTarball, TInv, TypeOK
  <2> QED BY <1>2, <2>2, <2>3 DEF ActTarball, TInv, TypeOK
<1>3. CASE ActRelease
  <2>1. Acted("release")
    BY <1>3 DEF ActRelease
  <2>2. Acting(run.version, 5)
    BY <2>1, ActedType, Steps DEF Acting
  <2> QED BY <1>3, <2>2 DEF ActRelease, TInv, TypeOK
<1>4. CASE ActRecipe
  <2>1. Acted("recipe")
    BY <1>4 DEF ActRecipe
  <2>2. Acting(run.version, 7)
    BY <2>1, ActedType, Steps DEF Acting
  <2> QED BY <1>4, <2>2 DEF ActRecipe, TInv, TypeOK
<1>5. CASE Fail \/ Crash
  BY <1>5, RemainsFiles DEF Fail, Crash
<1>6. ASSUME NEW w \in Versions, Clean(w) PROVE AssetStep(v) /\ ArtifactStep(v) /\ RenderedStep(v)
  BY <1>6 DEF Clean, TInv, TypeOK
<1>7. Act => ActTarball \/ ActRelease \/ ActRecipe \/ UNCHANGED <<artifact, asset, rendered>>
  BY DEF Act, ActOutside, ActTag, ActChecksum, ActCheckout, ActBranch, ActSync, ActCommit, ActPush,
         sources
<1>8. \/ \E w \in Versions, mode \in {"release", "resume"} : Begin(w, mode)
      \/ Skip \/ Start \/ Record \/ Refuse \/ DropCheckout \/ WatchWrites
      \/ \E w \in Versions : MoveTag(w) \/ Touch(w) \/ Merge(w) \/ WatchReads(w)
      \/ UNCHANGED vars
      => UNCHANGED <<artifact, asset, rendered>>
  BY DEF Begin, Skip, Start, Record, Refuse, DropCheckout, WatchWrites, MoveTag, Touch, Merge,
         WatchReads, sources, vars
<1> QED BY <1>1, <1>2, <1>3, <1>4, <1>5, <1>6, <1>7, <1>8 DEF Next

(* A run does not act while the records of its version are written over.    *)
LEMMA ActingRaced ==
  ASSUME TInv, OrderInv, [Next]_vars, NEW v \in Versions \ raced', NEW i \in 4..14, Acting(v, i)
  PROVE  v \notin raced
<1>1. ~Start
  BY DEF Start, Acting
<1>2. raced \subseteq raced'
  BY <1>1, ActFrame DEF Next, Begin, Skip, Record, Refuse, Fail, Crash, DropCheckout, WatchWrites,
     MoveTag, Clean, Touch, Merge, WatchReads, history, vars
<1> QED BY <1>2

(* A run goes on from a step that is recorded and whose output is there, or *)
(* that it has done itself.                                                 *)
LEMMA Passed ==
  ASSUME TInv, Skip \/ Record
  PROVE  /\ \/ Recording(run.version, run.at)
            \/ Done(run.version, run.at) /\ Present(run.version, ordered_steps[run.at])
         /\ run' # None /\ run.at = 6 =>
              \/ Recording(run.version, 6) /\ run'.sum = run.sum
              \/ Done(run.version, 6) /\ run'.sum = file[run.version].sum
<1>1. run # None /\ run \in Run /\ run.at \in 1..14 /\ Now = ordered_steps[run.at]
  BY RunType DEF Skip, Record
<1>2. Now = "checksum" <=> run.at = 6
  BY <1>1, Steps
<1>3. ASSUME NEW s, run' = Advanced(s), run' # None, run.at = 6 PROVE run'.sum = s.sum
  <2>1. run' = [run EXCEPT !.at = @ + 1, !.phase = "decide",
                  !.sum = IF Now = "checksum" THEN s.sum ELSE @,
                  !.body = IF Now = "recipe" THEN rendered[run.version] ELSE @]
    BY <1>3 DEF Advanced
  <2> QED BY <1>1, <1>2, <1>3, <2>1 DEF Run
<1>4. CASE Skip
  <2>1. Now \in file[run.version].done /\ Present(run.version, Now) /\ run' = Advanced(file[run.version])
    BY <1>4 DEF Skip, Skipped
  <2> QED BY <1>1, <1>3, <2>1 DEF Done
<1>5. CASE Record
  <2>1. run.phase = "record" /\ run' = Advanced(Recorded(file[run.version], Now, run.sum))
    BY <1>5 DEF Record
  <2>2. run.at = 6 => Recorded(file[run.version], Now, run.sum).sum = run.sum
    BY <1>2 DEF Recorded
  <2> QED BY <1>1, <1>3, <2>1, <2>2 DEF Recording
<1> QED BY <1>4, <1>5

(* The step a run acts on is the one it is at.                              *)
LEMMA ActNumber ==
  ASSUME TInv
  PROVE  /\ ActOutside => run.at \in {1, 2, 13, 14}
         /\ ActTag => run.at = 3
         /\ ActTarball => run.at = 4
         /\ ActRelease => run.at = 5
         /\ ActChecksum => run.at = 6
         /\ ActRecipe => run.at = 7
         /\ ActCheckout => run.at = 8
         /\ ActBranch => run.at = 9
         /\ ActSync => run.at = 10
         /\ ActCommit => run.at = 11
         /\ ActPush => run.at = 12
<1>1. run # None => run.at \in 1..14 /\ Now = ordered_steps[run.at]
  BY RunType
<1>2. run # None =>
      /\ Now = "tag" <=> run.at = 3
      /\ Now = "tarball" <=> run.at = 4
      /\ Now = "release" <=> run.at = 5
      /\ Now = "checksum" <=> run.at = 6
      /\ Now = "recipe" <=> run.at = 7
      /\ Now = "checkout" <=> run.at = 8
      /\ Now = "branch" <=> run.at = 9
      /\ Now = "sync" <=> run.at = 10
      /\ Now = "commit" <=> run.at = 11
      /\ Now = "push" <=> run.at = 12
      /\ Now \in {"validated", "preflight", "handoff", "discover"} <=> run.at \in {1, 2, 13, 14}
  BY <1>1, Steps
<1> QED BY <1>2 DEF ActOutside, ActTag, ActTarball, ActRelease, ActChecksum, ActRecipe, ActCheckout,
                    ActBranch, ActSync, ActCommit, ActPush, Acted

LEMMA ActAt ==
  ASSUME TInv, Act
  PROVE  /\ Acting(run.version, run.at)
         /\ run.at = 4 => ActTarball
         /\ run.at = 5 => ActRelease
         /\ run.at = 6 => ActChecksum
         /\ run.at = 7 => ActRecipe
         /\ run.at = 8 => ActCheckout
         /\ run.at = 9 => ActBranch
         /\ run.at = 10 => ActSync
         /\ run.at = 11 => ActCommit
         /\ run.at = 12 => ActPush
  BY ActFrame, ActNumber DEF Act, Acting

(* The asset stays once its checksum has been taken.                        *)
LEMMA AssetKept ==
  ASSUME TInv, OrderInv, [Next]_vars, NEW v \in Versions \ raced, NEW i \in 6..14,
         Stands(v, i) \/ (run # None /\ run.version = v /\ run.at = i)
  PROVE  asset'[v] = asset[v]
<1>1. AssetStep(v)
  BY FilesNext
<1>2. ~Acting(v, 5)
  BY ActOrder DEF Acting
<1> QED BY <1>1, <1>2 DEF AssetStep

LEMMA SumsOfNext ==
  ASSUME TInv, OrderInv, SumsInv, [Next]_vars
  PROVE  SumsInv'
<1> SUFFICES ASSUME NEW v \in Versions \ raced' PROVE Summed(v)'
  BY DEF SumsInv
<1>1. AssetStep(v) /\ ArtifactStep(v) /\ RenderedStep(v)
  BY FilesNext
<1>2. ASSUME NEW i \in 4..14, Stands(v, i)'
      PROVE  /\ v \notin raced
             /\ Stands(v, i) \/ (Act /\ Acting(v, i))
  BY <1>2, StandsNext, ActAt
<1>3. ASSUME NEW at \in 4..14, Acting(v, at), v \notin raced
      PROVE  /\ \A i \in 3..14 : i < at => Done(v, i)
             /\ \A i \in 4..14 : i > at => ~Stands(v, i)
  BY <1>3, ActOrder
<1>4. v \notin raced => Summed(v)
  BY DEF SumsInv
<1>5. ASSUME Stands(v, 5)' PROVE artifact'[v] \in {asset'[v], None}
  <2>1. CASE Stands(v, 5)
    BY <1>1, <1>2, <1>3, <1>4, <1>5, <2>1 DEF Summed, AssetStep, ArtifactStep
  <2>2. CASE Act /\ Acting(v, 5)
    <3>1. ActRelease /\ run.version \in Versions
      BY <2>2, ActAt, RunType DEF Acting
    <3> QED BY <2>2, <3>1 DEF ActRelease, Acting, TInv, TypeOK
  <2> QED BY <1>2, <1>5, <2>1, <2>2
<1>6. ASSUME NEW i \in 6..14, v \notin raced,
             Stands(v, i) \/ Acting(v, i) \/ (run # None /\ run.version = v /\ run.at = i)
      PROVE  asset'[v] = asset[v]
  BY <1>6, AssetKept DEF Acting
<1>7. ASSUME Done(v, 6)' PROVE file'[v].sum = asset'[v]
  <2>1. v \notin raced
    BY <1>2, <1>7 DEF Stands
  <2>2. \/ Done(v, 6) /\ file'[v].sum = file[v].sum
        \/ Recording(v, 6) /\ file'[v].sum = run.sum
    BY <1>7, SumNext
  <2> QED BY <1>4, <1>6, <2>1, <2>2 DEF Summed, Stands
<1>8. ASSUME Stands(v, 7)' PROVE rendered'[v] \in {asset'[v], None, Cut}
  <2>1. v \notin raced /\ asset'[v] = asset[v]
    BY <1>2, <1>6, <1>8
  <2>2. Acting(v, 7) => run.sum = asset[v]
    BY <1>4, <2>1 DEF Summed, Acting
  <2>3. CASE Stands(v, 7)
    BY <1>1, <1>4, <2>1, <2>2, <2>3 DEF Summed, RenderedStep
  <2>4. CASE Act /\ Acting(v, 7)
    <3>1. ActRecipe /\ run.version \in Versions
      BY <2>4, ActAt, RunType DEF Acting
    <3> QED BY <2>1, <2>2, <2>4, <3>1 DEF ActRecipe, Acting, TInv, TypeOK
  <2> QED BY <1>2, <1>8, <2>3, <2>4
<1>9. ASSUME Recording(v, 6)' PROVE run'.sum = asset'[v]
  <2>1. v \notin raced /\ run # None /\ run.version = v /\ run.at = 6
        /\ ((Recording(v, 6) /\ UNCHANGED run) \/ Act)
    BY <1>9, RecordingNext
  <2>2. asset'[v] = asset[v]
    BY <1>6, <2>1
  <2>3. CASE Recording(v, 6) /\ UNCHANGED run
    BY <1>4, <2>1, <2>2, <2>3 DEF Summed
  <2>4. CASE Act
    <3>1. Acting(v, 6) /\ ActChecksum
      BY <2>1, <2>4, ActAt
    <3>2. artifact[v] # None /\ run' = [run EXCEPT !.phase = "record", !.sum = artifact[v]]
      BY <2>1, <3>1 DEF ActChecksum
    <3>3. Done(v, 5)
      BY <1>3, <2>1, <3>1
    <3>4. artifact[v] = asset[v]
      BY <1>4, <2>1, <3>2, <3>3 DEF Summed, Stands
    <3>5. run'.sum = artifact[v]
      BY <2>1, <3>2, RunType DEF Run
    <3> QED BY <2>2, <3>4, <3>5
  <2> QED BY <2>1, <2>3, <2>4
<1>10. ASSUME run' # None, run'.version = v, run'.at > 6 PROVE run'.sum = asset'[v]
  <2>1. v \notin raced /\ run # None /\ run.version = v /\ run.at \in 6..14
    BY <1>10, RunNext
  <2>2. asset'[v] = asset[v]
    BY <1>6, <2>1
  <2>3. CASE run'.sum = run.sum /\ run.at > 6
    BY <1>4, <2>1, <2>2, <2>3 DEF Summed
  <2>4. CASE run.at = 6
    <3>1. Skip \/ Record
      BY <1>10, <2>4, RunNext
    <3>2. (Recording(v, 6) /\ run'.sum = run.sum) \/ (Done(v, 6) /\ run'.sum = file[v].sum)
      BY <1>10, <2>1, <2>4, <3>1, Passed
    <3> QED BY <1>4, <2>1, <2>2, <3>2 DEF Summed
  <2>5. run.at > 6 => run'.sum = run.sum
    BY <1>10, RunNext
  <2> QED BY <2>1, <2>3, <2>4, <2>5
<1> QED BY <1>5, <1>7, <1>8, <1>9, <1>10 DEF Summed

LEMMA SumsInvariant == Spec => [](TInv /\ OrderInv /\ SumsInv)
<1>1. Init => OrderInv /\ SumsInv
  BY DEF Init, OrderInv, Ordered, SumsInv, Summed, Stands, Recording, Done, base_state
<1>2. TInv /\ OrderInv /\ SumsInv /\ [Next]_vars => (OrderInv /\ SumsInv)'
  BY OrderOfNext, SumsOfNext
<1> QED BY <1>1, <1>2, TypeInvariant, PTL DEF Spec

(* The asset, the checksum and the recipe agree with each other as far as   *)
(* state.json has them recorded, through failures, crashes and deleted      *)
(* files, for every version no watch has written over the records of.       *)
THEOREM RecordsAreCurrent == Spec => []RecordsCurrent
<1>1. ASSUME OrderInv, SumsInv PROVE RecordsCurrent
  <2> SUFFICES ASSUME NEW v \in Versions \ raced
               PROVE  LET done == file[v].done
                      IN /\ "release" \in done => "tarball" \in done /\ artifact[v] \in {asset[v], None}
                         /\ "checksum" \in done => "release" \in done /\ file[v].sum = asset[v]
                         /\ "recipe" \in done => "checksum" \in done /\ rendered[v] \in {file[v].sum, None, Cut}
    BY DEF RecordsCurrent
  <2>1. /\ Done(v, 4) <=> "tarball" \in file[v].done
        /\ Done(v, 5) <=> "release" \in file[v].done
        /\ Done(v, 6) <=> "checksum" \in file[v].done
        /\ Done(v, 7) <=> "recipe" \in file[v].done
    BY Steps DEF Done
  <2>2. (Done(v, 5) => Done(v, 4)) /\ (Done(v, 6) => Done(v, 5)) /\ (Done(v, 7) => Done(v, 6))
    BY <1>1 DEF OrderInv, Ordered
  <2> QED BY <1>1, <2>1, <2>2 DEF SumsInv, Summed, Stands
<1> QED BY <1>1, SumsInvariant, PTL

-----------------------------------------------------------------------------
(* What is published *)

(* The files of a version none was cut of.                                  *)
Made(v) ==
  /\ Stands(v, 4) => artifact[v] \in Sources \cup {None}
  /\ Stands(v, 5) => asset[v] \in Sources
  /\ Stands(v, 7) => rendered[v] \in {asset[v], None}
  /\ run # None /\ run.version = v /\ run.at > 7 => run.body = asset[v]

MadeInv == \A v \in Versions \ (raced \cup cut) : Made(v)

LEMMA MadeOfNext ==
  ASSUME TInv, OrderInv, SumsInv, MadeInv, [Next]_vars
  PROVE  MadeInv'
<1> SUFFICES ASSUME NEW v \in Versions \ raced', v \notin cut' PROVE Made(v)'
  BY DEF MadeInv
<1>1. AssetStep(v) /\ ArtifactStep(v) /\ RenderedStep(v)
  BY FilesNext
<1>2. ASSUME NEW i \in 4..14, Stands(v, i)'
      PROVE  /\ v \notin raced /\ v \notin cut
             /\ Stands(v, i) \/ (Act /\ Acting(v, i))
  BY <1>2, StandsNext, ActAt
<1>3. ASSUME NEW at \in 4..14, Acting(v, at), v \notin raced
      PROVE  /\ \A i \in 3..14 : i < at => Done(v, i)
             /\ \A i \in 4..14 : i > at => ~Stands(v, i)
  BY <1>3, ActOrder
<1>4. v \notin raced => Summed(v) /\ (v \notin cut => Made(v))
  BY DEF SumsInv, MadeInv
<1>5. ASSUME Stands(v, 4)' PROVE artifact'[v] \in Sources \cup {None}
  <2>1. CASE Act /\ Acting(v, 4)
    <3>1. ActTarball /\ run.version \in Versions
      BY <2>1, ActAt, RunType DEF Acting
    <3> QED BY <2>1, <3>1 DEF ActTarball, Acting, TInv, TypeOK
  <2>2. CASE Stands(v, 4) /\ ~Act
    <3>1. Recording(v, 4)' => ~Acting(v, 4)
      BY <2>2, RecordingNext DEF Recording, Acting
    <3> QED BY <1>1, <1>2, <1>4, <1>5, <2>2, <3>1 DEF ArtifactStep, Made, Stands
  <2>3. CASE Stands(v, 4) /\ Act /\ ~Acting(v, 4)
    BY <1>1, <1>2, <1>4, <1>5, <2>3 DEF ArtifactStep, Made
  <2> QED BY <1>2, <1>5, <2>1, <2>2, <2>3
<1>6. ASSUME Stands(v, 5)' PROVE asset'[v] \in Sources
  <2>1. v \notin raced /\ v \notin cut /\ Made(v)
    BY <1>2, <1>4, <1>6
  <2>2. Acting(v, 5) => artifact[v] \in Sources \cup {None}
    BY <1>3, <2>1 DEF Made, Stands
  <2>3. CASE Stands(v, 5)
    BY <1>1, <2>1, <2>2, <2>3 DEF AssetStep, Made
  <2>4. CASE Act /\ Acting(v, 5)
    <3>1. ActRelease /\ run.version \in Versions
      BY <2>4, ActAt, RunType DEF Acting
    <3> QED BY <2>2, <2>4, <3>1 DEF ActRelease, Acting, TInv, TypeOK
  <2> QED BY <1>2, <1>6, <2>3, <2>4
<1>7. ASSUME Stands(v, 7)' PROVE rendered'[v] \in {asset'[v], None}
  <2>1. v \notin raced /\ v \notin cut /\ Made(v) /\ Summed(v)
    BY <1>2, <1>4, <1>7
  <2>2. asset'[v] = asset[v]
    BY <1>2, <1>7, <2>1, AssetKept DEF Acting
  <2>3. Acting(v, 7) => run.sum = asset[v]
    BY <2>1 DEF Summed, Acting
  <2>4. CASE Act /\ Acting(v, 7)
    <3>1. ActRecipe /\ run.version \in Versions
      BY <2>4, ActAt, RunType DEF Acting
    <3> QED BY <2>2, <2>3, <2>4, <3>1 DEF ActRecipe, Acting, TInv, TypeOK
  <2>5. CASE Stands(v, 7) /\ ~Act
    <3>1. Recording(v, 7)' => ~Acting(v, 7)
      BY <2>5, RecordingNext DEF Recording, Acting
    <3> QED BY <1>1, <1>7, <2>1, <2>2, <2>3, <2>5, <3>1 DEF RenderedStep, Made, Stands
  <2>6. CASE Stands(v, 7) /\ Act /\ ~Acting(v, 7)
    BY <1>1, <2>1, <2>2, <2>6 DEF RenderedStep, Made
  <2> QED BY <1>2, <1>7, <2>4, <2>5, <2>6
<1>8. ASSUME run' # None, run'.version = v, run'.at > 7 PROVE run'.body = asset'[v]
  <2>0. run'.at > 6
    <3>1. run' \in Run
      BY <1>8, TypeOfNext DEF TInv, TypeOK
    <3> QED BY <1>8, <3>1, Steps DEF Run
  <2>1. v \notin raced /\ v \notin cut /\ run # None /\ run.version = v /\ run.at \in 6..14
    BY <1>8, <2>0, RunNext
  <2>2. asset'[v] = asset[v] /\ Made(v)
    BY <1>4, <2>1, AssetKept
  <2>3. CASE run'.body = run.body /\ run.at > 7
    BY <2>1, <2>2, <2>3 DEF Made
  <2>4. CASE run.at = 7
    <3>1. (Skip \/ Record) /\ run'.body = rendered[v]
      BY <1>8, <2>0, <2>1, <2>4, RunNext
    <3>2. Recording(v, 7) \/ (Done(v, 7) /\ Present(v, "recipe"))
      BY <2>1, <2>4, <3>1, Passed, Steps
    <3>3. rendered[v] # None
      BY <3>2, RolloutAssumption DEF Present, Recording, TInv, SumsKnown, Contents
    <3> QED BY <2>2, <3>1, <3>2, <3>3 DEF Made, Stands
  <2>5. run.at < 7 => FALSE
    BY <1>8, <2>0, <2>1, RunNext
  <2>6. run.at > 7 => run'.body = run.body
    BY <1>8, <2>0, RunNext
  <2> QED BY <2>1, <2>3, <2>4, <2>5, <2>6
<1> QED BY <1>5, <1>6, <1>7, <1>8 DEF Made

(* The checkout is on a branch that is there.                               *)
HeadInv == clone.there => branch[clone.head] # None

LEMMA HeadOfNext ==
  ASSUME TInv, HeadInv, [Next]_vars
  PROVE  HeadInv'
<1> USE DEF HeadInv
<1>1. CASE UNCHANGED <<clone, branch>>
  BY <1>1
<1>2. CASE ActCheckout
  <2>1. upstream # None
    BY NoCommit DEF TInv, TypeOK
  <2> QED BY <1>2, <2>1 DEF ActCheckout, TInv, TypeOK
<1>3. CASE ActBranch
  <2>1. run.version \in Versions
    BY <1>3, RunType DEF ActBranch, Acted
  <2> QED BY <1>3, <2>1 DEF ActBranch, TInv, TypeOK
<1>4. CASE ActSync
  BY <1>4 DEF ActSync, TInv, TypeOK
<1>5. CASE ActCommit
  <2>1. CASE UNCHANGED branch
    BY <1>5, <2>1 DEF ActCommit
  <2>2. CASE commits < MaxCommits /\ commits' = commits + 1
             /\ branch' = [branch EXCEPT ![clone.head] = [id |-> commits + 1, port |-> clone.work]]
    <3>1. [id |-> commits + 1, port |-> clone.work] \in Commit
      BY <2>2, RolloutAssumption DEF TInv, TypeOK, Commit
    <3> QED BY <1>5, <2>2, <3>1, NoCommit DEF ActCommit, TInv, TypeOK
  <2> QED BY <1>5, <2>1, <2>2 DEF ActCommit
<1>6. CASE Fail \/ Crash
  <2>1. UNCHANGED branch /\ (UNCHANGED clone \/ clone' = [clone EXCEPT !.work = None])
    BY <1>6 DEF Fail, Crash, Remains
  <2> QED BY <2>1 DEF TInv, TypeOK
<1>7. CASE DropCheckout
  BY <1>7 DEF DropCheckout
<1>8. Act => ActCheckout \/ ActBranch \/ ActSync \/ ActCommit \/ UNCHANGED <<clone, branch>>
  BY DEF Act, ActOutside, ActTag, ActTarball, ActRelease, ActChecksum, ActRecipe, ActPush, ports
<1>9. \/ \E w \in Versions, mode \in {"release", "resume"} : Begin(w, mode)
      \/ Skip \/ Start \/ Record \/ Refuse \/ WatchWrites
      \/ \E w \in Versions : MoveTag(w) \/ Clean(w) \/ Touch(w) \/ Merge(w) \/ WatchReads(w)
      \/ UNCHANGED vars
      => UNCHANGED <<clone, branch>>
  BY DEF Begin, Skip, Start, Record, Refuse, WatchWrites, MoveTag, Clean, Touch, Merge, WatchReads,
         ports, vars
<1> QED BY <1>1, <1>2, <1>3, <1>4, <1>5, <1>6, <1>7, <1>8, <1>9 DEF Next

(* The port of a version whose checkout is its own.                         *)
PortOf(v) == [version |-> v, sum |-> asset[v]]

Ported(v) ==
  /\ Stands(v, 8) => clone.there
  /\ Stands(v, 9) => clone.head = v
  /\ Stands(v, 10) => clone.work \in {PortOf(v), None}
  /\ Recording(v, 10) \/ (run # None /\ run.version = v /\ run.at > 10) => clone.work = PortOf(v)
  /\ Stands(v, 11) => branch[v] # None /\ branch[v].port = PortOf(v)

PortInv == \A v \in Versions \ (raced \cup cut \cup mixed) : Ported(v)

LEMMA StandsBefore ==
  ASSUME TInv, OrderInv, NEW v \in Versions \ raced,
         (\E i \in 8..12 : Stands(v, i)) \/ (run # None /\ run.version = v /\ run.at > 8)
  PROVE  Done(v, 8) \/ Recording(v, 8)
<1>1. Ordered(v)
  BY DEF OrderInv
<1>2. /\ Done(v, 9) => Done(v, 8)
      /\ Done(v, 10) => Done(v, 9)
      /\ Done(v, 11) => Done(v, 10)
      /\ Done(v, 12) => Done(v, 11)
  BY <1>1 DEF Ordered
<1>3. run # None /\ run.version = v /\ run.at > 8 => Done(v, 8)
  BY <1>1, RunType DEF Ordered
<1>4. CASE run # None /\ run.version = v /\ run.at > 8
  BY <1>3, <1>4
<1>5. ASSUME NEW i \in 8..12, Stands(v, i) PROVE Done(v, 8) \/ Recording(v, 8)
  <2>1. i = 8 \/ i = 9 \/ i = 10 \/ i = 11 \/ i = 12
    OBVIOUS
  <2>2. CASE Recording(v, i)
    BY <1>3, <2>1, <2>2 DEF Recording
  <2>3. CASE Done(v, i)
    BY <1>2, <2>1, <2>3
  <2> QED BY <1>5, <2>2, <2>3 DEF Stands
<1> QED BY <1>4, <1>5

(* What becomes of the checkout of a version that no other uses.            *)
OwnStep(v) ==
  \/ UNCHANGED clone /\ branch'[v] = branch[v]
  \/ ActBranch /\ Acting(v, 9)
  \/ ActSync /\ Acting(v, 10)
  \/ ActCommit /\ Acting(v, 11)
  \/ clone' = [clone EXCEPT !.work = None] /\ branch'[v] = branch[v] /\ run' = None

LEMMA PortsNext ==
  ASSUME TInv, OrderInv, [Next]_vars, NEW v \in Versions \ mixed', Done(v, 8) \/ Recording(v, 8)
  PROVE  \/ ActCheckout /\ Acting(v, 8)
         \/ v \notin mixed /\ OwnStep(v)
<1> USE DEF OwnStep
<1>1. CASE UNCHANGED <<clone, branch, mixed>>
  BY <1>1
<1>2. CASE ActCheckout \/ ActBranch \/ ActSync \/ ActCommit
  <2>1. Act
    BY <1>2 DEF Act
  <2>2. Acting(run.version, run.at)
    BY <2>1, ActAt
  <2>3. Others \subseteq mixed' /\ mixed \ {run.version} \subseteq mixed'
        /\ (ActCheckout \/ mixed \subseteq mixed')
    BY <1>2 DEF ActCheckout, ActBranch, ActSync, ActCommit
  <2>4. v = run.version
    <3>1. ordered_steps[8] = "checkout"
      BY Steps
    <3> QED BY <2>2, <2>3, <3>1 DEF Others, Done, Recording, Acting
  <2>5. /\ ActCheckout => run.at = 8
        /\ ActBranch => run.at = 9
        /\ ActSync => run.at = 10
        /\ ActCommit => run.at = 11
    BY ActNumber
  <2> QED BY <1>2, <2>2, <2>3, <2>4, <2>5
<1>3. CASE Fail \/ Crash
  <2>1. UNCHANGED branch /\ (UNCHANGED clone \/ clone' = [clone EXCEPT !.work = None])
        /\ UNCHANGED mixed /\ run' = None
    BY <1>3 DEF Fail, Crash, Remains, history
  <2> QED BY <2>1
<1>4. CASE DropCheckout
  <2>1. ordered_steps[8] = "checkout"
    BY Steps
  <2> QED BY <1>4, <2>1 DEF DropCheckout, Done, Recording
<1>5. Act => ActCheckout \/ ActBranch \/ ActSync \/ ActCommit \/ UNCHANGED <<clone, branch, mixed>>
  BY DEF Act, ActOutside, ActTag, ActTarball, ActRelease, ActChecksum, ActRecipe, ActPush, ports,
         history
<1>6. \/ \E w \in Versions, mode \in {"release", "resume"} : Begin(w, mode)
      \/ Skip \/ Start \/ Record \/ Refuse \/ WatchWrites
      \/ \E w \in Versions : MoveTag(w) \/ Clean(w) \/ Touch(w) \/ Merge(w) \/ WatchReads(w)
      \/ UNCHANGED vars
      => UNCHANGED <<clone, branch, mixed>>
  BY DEF Begin, Skip, Start, Record, Refuse, WatchWrites, MoveTag, Clean, Touch, Merge, WatchReads,
         ports, history, vars
<1> QED BY <1>1, <1>2, <1>3, <1>4, <1>5, <1>6 DEF Next

(* A version that has its checkout to itself and is past the checkout.      *)
LEMMA OwnNext ==
  ASSUME TInv, OrderInv, SumsInv, MadeInv, PortInv, [Next]_vars,
         NEW v \in Versions \ (raced \cup cut), v \notin mixed', NEW i \in 9..14,
         (Stands(v, i) /\ i <= 12) \/ (run # None /\ run.version = v /\ run.at = i)
  PROVE  /\ v \notin mixed /\ Ported(v) /\ Made(v) /\ OwnStep(v)
         /\ asset'[v] = asset[v] /\ PortOf(v)' = PortOf(v)
<1>1. Done(v, 8) \/ Recording(v, 8)
  BY StandsBefore
<1>2. ~Acting(v, 8)
  BY ActOrder DEF Acting
<1>3. v \notin mixed /\ OwnStep(v)
  BY <1>1, <1>2, PortsNext
<1>4. asset'[v] = asset[v]
  BY AssetKept
<1> QED BY <1>3, <1>4 DEF PortInv, MadeInv, PortOf

LEMMA PortsOfNext ==
  ASSUME TInv, OrderInv, SumsInv, MadeInv, HeadInv, PortInv, [Next]_vars
  PROVE  PortInv'
<1> SUFFICES ASSUME NEW v \in Versions \ raced', v \notin cut', v \notin mixed' PROVE Ported(v)'
  BY DEF PortInv
<1>1. ASSUME NEW i \in 4..14, Stands(v, i)'
      PROVE  /\ v \notin raced /\ v \notin cut
             /\ Stands(v, i) \/ (Act /\ Acting(v, i))
  BY <1>1, StandsNext, ActAt
<1>2. ASSUME NEW at \in 4..14, Acting(v, at), v \notin raced
      PROVE  /\ \A i \in 3..14 : i < at => Done(v, i)
             /\ \A i \in 4..14 : i > at => ~Stands(v, i)
  BY <1>2, ActOrder
<1>3. ASSUME NEW i \in 9..12, Stands(v, i)'
      PROVE  /\ Ported(v) /\ Made(v) /\ OwnStep(v) /\ PortOf(v)' = PortOf(v)
             /\ v \notin raced
             /\ Stands(v, i) \/ (Act /\ Acting(v, i))
  BY <1>1, <1>3, OwnNext DEF Acting
<1>4. clone \in [there : BOOLEAN, head : Versions \cup {Master}, work : Port \cup {None}]
  BY DEF TInv, TypeOK
<1>5. ActBranch => clone' = [clone EXCEPT !.head = run.version]
  BY DEF ActBranch
<1>6. ASSUME ActSync, Acting(v, 10), Made(v)
      PROVE  clone' = [clone EXCEPT !.work = PortOf(v)] /\ UNCHANGED branch
  BY <1>6 DEF ActSync, Acting, Made, PortOf
<1>7. ActCommit => UNCHANGED clone
  BY DEF ActCommit
<1>8. ASSUME Stands(v, 8)' PROVE clone'.there
  <2>1. CASE ActCheckout
    BY <2>1 DEF ActCheckout
  <2>2. CASE ~ActCheckout
    <3>1. v \notin raced /\ v \notin cut /\ Stands(v, 8)
      BY <1>1, <1>8, <2>2, ActAt DEF Acting
    <3>2. v \notin mixed /\ OwnStep(v)
      BY <2>2, <3>1, PortsNext DEF Stands
    <3>3. clone.there
      BY <3>1, <3>2 DEF PortInv, Ported
    <3> QED BY <1>4, <1>5, <1>7, <3>2, <3>3 DEF OwnStep, ActSync
  <2> QED BY <2>1, <2>2
<1>9. ASSUME Stands(v, 9)' PROVE clone'.head = v
  <2>1. CASE Act /\ Acting(v, 9)
    BY <1>4, <1>5, <2>1, ActAt DEF Acting
  <2>2. CASE Stands(v, 9)
    BY <1>3, <1>4, <1>5, <1>7, <1>9, <2>2 DEF OwnStep, Ported, ActSync, Acting
  <2> QED BY <1>3, <1>9, <2>1, <2>2
<1>10. ASSUME Stands(v, 10)' PROVE clone'.work \in {PortOf(v)', None}
  <2>1. CASE Act /\ Acting(v, 10)
    <3>1. ActSync
      BY <2>1, ActAt DEF Acting
    <3> QED BY <1>3, <1>4, <1>6, <1>10, <2>1, <3>1
  <2>2. CASE Stands(v, 10)
    <3>1. ~Acting(v, 9)
      BY <1>2, <1>3, <1>10, <2>2
    <3> QED BY <1>3, <1>4, <1>6, <1>7, <1>10, <2>2, <3>1 DEF OwnStep, Ported
  <2> QED BY <1>3, <1>10, <2>1, <2>2
<1>11. ASSUME Recording(v, 10)' PROVE clone'.work = PortOf(v)'
  <2>1. /\ Ported(v) /\ Made(v) /\ OwnStep(v) /\ PortOf(v)' = PortOf(v)
    BY <1>3, <1>11 DEF Stands
  <2>2. (Recording(v, 10) /\ UNCHANGED run) \/ (Act /\ run.version = v /\ run.at = 10)
    BY <1>11, RecordingNext
  <2>3. CASE Recording(v, 10) /\ UNCHANGED run
    BY <2>1, <2>3 DEF OwnStep, Ported, Recording, Acting
  <2>4. CASE Act /\ run.version = v /\ run.at = 10
    BY <1>4, <1>6, <2>1, <2>4, ActAt
  <2> QED BY <2>2, <2>3, <2>4
<1>12. ASSUME run' # None, run'.version = v, run'.at > 10 PROVE clone'.work = PortOf(v)'
  <2>1. run'.at > 6
    <3>1. run' \in Run
      BY <1>12, TypeOfNext DEF TInv, TypeOK
    <3> QED BY <1>12, <3>1, Steps DEF Run
  <2>2. /\ v \notin raced /\ v \notin cut /\ run # None /\ run.version = v /\ run.at \in 6..14
        /\ run'.at = run.at \/ ((Skip \/ Record) /\ run'.at = run.at + 1)
    BY <1>12, <2>1, RunNext
  <2>3. run.at \in 10..14
    BY <1>12, <2>2
  <2>4. Ported(v) /\ OwnStep(v) /\ PortOf(v)' = PortOf(v)
    BY <2>2, <2>3, OwnNext
  <2>5. ~(ActSync /\ Acting(v, 10))
    <3>1. ActSync => Act
      BY DEF Act
    <3>2. Act => run'.at = run.at
      BY ActFrame
    <3> QED BY <1>12, <3>1, <3>2 DEF Acting
  <2>6. UNCHANGED clone
    BY <1>7, <1>12, <2>3, <2>4, <2>5 DEF OwnStep, Acting
  <2>7. CASE run.at > 10
    BY <2>2, <2>4, <2>6, <2>7 DEF Ported
  <2>8. CASE run.at = 10
    <3>1. Skip \/ Record
      BY <1>12, <2>2, <2>8
    <3>2. Recording(v, 10) \/ (Done(v, 10) /\ Present(v, "sync"))
      BY <2>2, <2>8, <3>1, Passed, Steps
    <3> QED BY <2>4, <2>6, <3>2 DEF Ported, Present, Stands
  <2> QED BY <2>3, <2>7, <2>8
<1>13. ASSUME Stands(v, 11)' PROVE branch'[v] # None /\ branch'[v].port = PortOf(v)'
  <2>1. Ported(v) /\ OwnStep(v) /\ PortOf(v)' = PortOf(v) /\ v \notin raced
    BY <1>3, <1>13
  <2>2. CASE ActCommit /\ Acting(v, 11)
    <3>1. Done(v, 9) /\ clone.there
      BY <1>2, <2>1, <2>2 DEF ActCommit
    <3>2. clone.head = v /\ branch[v] # None /\ clone.work = PortOf(v)
      BY <2>1, <2>2, <3>1 DEF Ported, Stands, HeadInv, Acting
    <3>3. CASE clone.work = branch[clone.head].port /\ UNCHANGED branch
      BY <2>1, <3>2, <3>3
    <3>4. CASE commits < MaxCommits /\ commits' = commits + 1
               /\ branch' = [branch EXCEPT ![clone.head] = [id |-> commits + 1, port |-> clone.work]]
      <4>1. [id |-> commits + 1, port |-> clone.work] \in Commit
        BY <3>4, RolloutAssumption DEF TInv, TypeOK, Commit
      <4>2. branch'[v] = [id |-> commits + 1, port |-> clone.work]
        BY <3>2, <3>4 DEF TInv, TypeOK
      <4> QED BY <2>1, <3>2, <4>1, <4>2, NoCommit
    <3> QED BY <2>2, <3>3, <3>4 DEF ActCommit
  <2>3. CASE Stands(v, 11) /\ ~(ActCommit /\ Acting(v, 11))
    <3>1. ~Acting(v, 9) /\ ~Acting(v, 10)
      BY <1>2, <2>1, <2>3
    <3> QED BY <2>1, <2>3, <3>1 DEF OwnStep, Ported
  <2>4. CASE Act /\ Acting(v, 11)
    BY <2>2, <2>4, ActAt DEF Acting
  <2> QED BY <1>3, <1>13, <2>2, <2>3, <2>4
<1> QED BY <1>8, <1>9, <1>10, <1>11, <1>12, <1>13 DEF Ported

(* The branch on the fork, when the operator has not changed it.            *)
Pushed(v) ==
  Stands(v, 12) => remote[v] # None /\ remote[v].port = PortOf(v)

PushInv == \A v \in Versions \ (raced \cup cut \cup mixed \cup operated) : Pushed(v)

LEMMA RemoteNext ==
  ASSUME TInv, [Next]_vars, NEW v \in Versions \ operated'
  PROVE  \/ ActPush /\ Acting(v, 12)
         \/ v \notin operated /\ remote'[v] = remote[v]
<1>1. CASE UNCHANGED <<remote, operated>>
  BY <1>1
<1>2. CASE ActPush
  <2>1. Acting(run.version, 12) /\ run.version \in Versions
    BY <1>2, ActAt, ActNumber, RunType DEF Act, Acting
  <2> QED BY <1>2, <2>1 DEF ActPush, TInv, TypeOK
<1>3. ASSUME NEW w \in Versions, Touch(w) PROVE v \notin operated /\ remote'[v] = remote[v]
  BY <1>3 DEF Touch, TInv, TypeOK
<1>4. Act => ActPush \/ UNCHANGED <<remote, operated>>
  BY DEF Act, ActOutside, ActTag, ActTarball, ActRelease, ActChecksum, ActRecipe, ActCheckout,
         ActBranch, ActSync, ActCommit, ports, history
<1>5. \/ \E w \in Versions, mode \in {"release", "resume"} : Begin(w, mode)
      \/ Skip \/ Start \/ Record \/ Refuse \/ Fail \/ Crash \/ DropCheckout \/ WatchWrites
      \/ \E w \in Versions : MoveTag(w) \/ Clean(w) \/ Merge(w) \/ WatchReads(w)
      \/ UNCHANGED vars
      => UNCHANGED <<remote, operated>>
  BY DEF Begin, Skip, Start, Record, Refuse, Fail, Crash, DropCheckout, WatchWrites, MoveTag, Clean,
         Merge, WatchReads, ports, history, vars
<1> QED BY <1>1, <1>2, <1>3, <1>4, <1>5 DEF Next

LEMMA PushesOfNext ==
  ASSUME TInv, OrderInv, SumsInv, MadeInv, PortInv, PushInv, [Next]_vars
  PROVE  PushInv'
<1> SUFFICES ASSUME NEW v \in Versions \ raced', v \notin cut', v \notin mixed', v \notin operated',
                    Stands(v, 12)'
             PROVE  remote'[v] # None /\ remote'[v].port = PortOf(v)'
  BY DEF PushInv, Pushed
<1>1. /\ v \notin raced /\ v \notin cut
      /\ Stands(v, 12) \/ (Act /\ Acting(v, 12))
  BY StandsNext, ActAt
<1>2. v \notin mixed /\ Ported(v) /\ PortOf(v)' = PortOf(v)
  BY <1>1, OwnNext DEF Acting
<1>3. CASE ActPush /\ Acting(v, 12)
  <2>1. branch[v] # None /\ branch[v].port = PortOf(v)
    BY <1>1, <1>2, <1>3, ActOrder DEF Ported, Stands
  <2>2. remote'[v] = branch[v]
    BY <1>3, RunType DEF ActPush, Acting, TInv, TypeOK
  <2> QED BY <1>2, <2>1, <2>2
<1>4. CASE ~(ActPush /\ Acting(v, 12))
  <2>1. v \notin operated /\ remote'[v] = remote[v]
    BY <1>4, RemoteNext
  <2>2. Stands(v, 12)
    BY <1>1, <1>4, ActAt DEF Acting
  <2> QED BY <1>1, <1>2, <2>1, <2>2 DEF PushInv, Pushed
<1> QED BY <1>3, <1>4

RolloutInv == TInv /\ OrderInv /\ SumsInv /\ MadeInv /\ HeadInv /\ PortInv /\ PushInv

LEMMA RolloutInvariant == Spec => []RolloutInv
<1>1. Init => MadeInv /\ HeadInv /\ PortInv /\ PushInv
  <2> SUFFICES ASSUME Init PROVE MadeInv /\ HeadInv /\ PortInv /\ PushInv
    OBVIOUS
  <2>1. run = None /\ ~clone.there
    BY DEF Init
  <2>2. ASSUME NEW v \in Versions, NEW i \in 4..14 PROVE ~Stands(v, i)
    BY <2>1 DEF Init, Stands, Recording, Done, base_state
  <2>3. ASSUME NEW v \in Versions PROVE ~Recording(v, 10)
    BY <2>1 DEF Recording
  <2> QED BY <2>1, <2>2, <2>3 DEF MadeInv, Made, HeadInv, PortInv, Ported, PushInv, Pushed
<1>2. RolloutInv /\ [Next]_vars => (MadeInv /\ HeadInv /\ PortInv /\ PushInv)'
  BY MadeOfNext, HeadOfNext, PortsOfNext, PushesOfNext DEF RolloutInv
<1> QED BY <1>1, <1>2, SumsInvariant, PTL DEF Spec, RolloutInv

(* A branch recorded as pushed holds the recipe of its version with the     *)
(* checksum of the tarball on GitHub, and that tarball is whole, unless the *)
(* operator has changed the branch, another version has used the checkout,  *)
(* a crash has cut a file or a watch has written over the records.          *)
THEOREM PublicationMatches == Spec => []PublishedMatches
<1>1. ASSUME RolloutInv PROVE PublishedMatches
  <2> SUFFICES ASSUME NEW v \in Versions \ (operated \cup mixed \cup cut \cup raced),
                      "push" \in file[v].done
               PROVE  /\ asset[v] \in Sources
                      /\ remote[v] # None /\ remote[v].port = [version |-> v, sum |-> asset[v]]
    BY DEF PublishedMatches
  <2>1. Ordered(v) /\ Made(v) /\ Pushed(v)
    BY <1>1 DEF RolloutInv, OrderInv, MadeInv, PushInv
  <2>2. Done(v, 12)
    BY Steps DEF Done
  <2>3. Done(v, 5)
    <3>1. \A i \in {12, 11, 10, 9, 8, 7, 6} : Done(v, i) => Done(v, i - 1)
      BY <2>1 DEF Ordered
    <3>2. Done(v, 11)
      BY <2>2, <3>1
    <3>3. Done(v, 10)
      BY <3>1, <3>2
    <3>4. Done(v, 9)
      BY <3>1, <3>3
    <3>5. Done(v, 8)
      BY <3>1, <3>4
    <3>6. Done(v, 7)
      BY <3>1, <3>5
    <3>7. Done(v, 6)
      BY <3>1, <3>6
    <3> QED BY <3>1, <3>7
  <2>4. asset[v] \in Sources
    BY <2>1, <2>3 DEF Made, Stands
  <2>5. remote[v] # None /\ remote[v].port = PortOf(v)
    BY <2>1, <2>2 DEF Pushed, Stands
  <2> QED BY <2>4, <2>5 DEF PortOf
<1> QED BY <1>1, RolloutInvariant, PTL
=============================================================================
