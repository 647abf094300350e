--------------------------- MODULE LauncherProofs ---------------------------
(***************************************************************************)
(* For any number of launches on any kinds of machine: what a launch       *)
(* becomes is what it checked, and nobody downloads what the cache holds.  *)
(* The lock makes the work on the file one launch at a time; the file of a *)
(* launch that has let the lock go may only change in ways that `stale`    *)
(* records.  A launch takes a bounded number of steps.                     *)
(***************************************************************************)
EXTENDS Launcher, TLAPS

Place == {"lock", "exec"} \cup Locked \cup Ended

(* The lock has one owner, the launch at work on the file.                 *)
LockOK ==
  /\ \A p \in Launches : p \in owner <=> at[p] \in Locked
  /\ \A p, q \in owner : p = q

Working == {"download", "write", "replace", "chmod"}
TriesOK == \A p \in Launches : at[p] \in Working => tries[p] >= 1

(* A file written or checked stays what it was, or its launch is stale.    *)
FileOK == \A p \in Launches : at[p] \in {"chmod", "exec"} => IsValid(p) \/ p \in stale

Inv ==
  /\ TypeOK /\ LockOK /\ TriesOK /\ FileOK
  /\ RunsWhatItChecked /\ DownloadsOnlyMisses

LEMMA InitInv == Init => Inv
<1> SUFFICES ASSUME Init PROVE Inv
  OBVIOUS
<1>1. bin \in Files
  BY DEF Init, File, Absent, Files
<1>2. TypeOK
  BY <1>1, BoundsAssumption DEF Init, TypeOK
<1>3. QED
  BY <1>2 DEF Init, Inv, LockOK, TriesOK, FileOK, RunsWhatItChecked,
    DownloadsOnlyMisses, Locked, Working

(* What a step of launch p on itself leaves to show: where p is, and that  *)
(* the file did not change under the others.                               *)
LEMMA OwnStep ==
  ASSUME Inv, NEW p \in Launches, NEW place \in Place,
         To(p, place), UNCHANGED <<bin, ran, stale, spoils>>,
         tries' \in [Launches -> 0 .. MaxRetries],
         \A q \in Launches \ {p} : tries'[q] = tries[q],
         place \in Locked => at[p] \in Locked /\ owner' = owner,
         place \notin Locked => owner' = owner \ {p},
         place \in Working => tries'[p] >= 1,
         place \in {"chmod", "exec"} => IsValid(p) \/ p \in stale,
         place \in {"download", "write", "replace"} /\ IsValid(p) => tries'[p] > 1,
         place # "running"
  PROVE  Inv'
<1> USE DEF Inv, To
<1>0. /\ at' \in [Launches -> Place] /\ at'[p] = place
      /\ \A q \in Launches \ {p} : at'[q] = at[q]
  BY DEF TypeOK, Place
<1>1. TypeOK'
  BY <1>0 DEF TypeOK, Place
<1>2. LockOK'
  BY <1>0 DEF LockOK, TypeOK
<1>3. TriesOK'
  BY <1>0 DEF TriesOK
<1>4. FileOK'
  BY <1>0 DEF FileOK, IsValid
<1>5. RunsWhatItChecked'
  BY <1>0 DEF RunsWhatItChecked
<1>6. DownloadsOnlyMisses'
  BY <1>0 DEF DownloadsOnlyMisses, IsValid
<1>7. QED
  BY <1>1, <1>2, <1>3, <1>4, <1>5, <1>6

(* A failure in the middle of the work starts over or gives up.            *)
LEMMA RetryStep ==
  ASSUME Inv, NEW p \in Launches, at[p] \in Working, Retry(p),
         UNCHANGED <<bin, ran, stale, spoils>>
  PROVE  Inv'
<1>1. tries \in [Launches -> 0 .. MaxRetries] /\ tries[p] >= 1
  BY DEF Inv, TypeOK, TriesOK
<1>2. CASE tries[p] < MaxRetries /\ To(p, "download")
             /\ tries' = [tries EXCEPT ![p] = @ + 1] /\ UNCHANGED owner
  <2>1. /\ tries' \in [Launches -> 0 .. MaxRetries] /\ tries'[p] > 1
        /\ \A q \in Launches \ {p} : tries'[q] = tries[q]
    BY <1>1, <1>2, BoundsAssumption
  <2>2. QED
    BY <1>2, <2>1, OwnStep DEF Place, Locked, Working
<1>3. CASE Leave(p, "failed") /\ UNCHANGED tries
  BY <1>1, <1>3, OwnStep DEF Leave, Place, Locked, Working, Ended
<1>4. QED
  BY <1>2, <1>3 DEF Retry

LEMMA AcquireStep == ASSUME Inv, NEW p \in Launches, Acquire(p) PROVE Inv'
<1> USE DEF Inv, Acquire, To
<1>1. TypeOK'
  BY DEF TypeOK, Locked
<1>2. LockOK'
  BY DEF LockOK, TypeOK, Locked
<1>3. TriesOK'
  BY DEF TriesOK, TypeOK, Working
<1>4. FileOK'
  BY DEF FileOK, TypeOK, IsValid
<1>5. RunsWhatItChecked'
  BY DEF RunsWhatItChecked, TypeOK
<1>6. DownloadsOnlyMisses'
  BY DEF DownloadsOnlyMisses, TypeOK, IsValid
<1>7. QED
  BY <1>1, <1>2, <1>3, <1>4, <1>5, <1>6

LEMMA CheckStep == ASSUME Inv, NEW p \in Launches, Check(p) PROVE Inv'
<1>0. tries \in [Launches -> 0 .. MaxRetries] /\ at[p] = "check"
  BY DEF Inv, TypeOK, Check
<1>1. CASE IsValid(p) /\ Leave(p, "exec") /\ UNCHANGED tries
  BY <1>0, <1>1, OwnStep DEF Check, Leave, Place, Locked, Working
<1>2. CASE ~IsValid(p) /\ To(p, "download") /\ tries' = [tries EXCEPT ![p] = 1] /\ UNCHANGED owner
  <2>1. /\ tries' \in [Launches -> 0 .. MaxRetries] /\ tries'[p] = 1
        /\ \A q \in Launches \ {p} : tries'[q] = tries[q]
    BY <1>0, <1>2, BoundsAssumption
  <2>2. QED
    BY <1>0, <1>2, <2>1, OwnStep DEF Check, Place, Locked, Working
<1>3. CASE Leave(p, "failed") /\ UNCHANGED tries
  BY <1>0, <1>3, OwnStep DEF Check, Leave, Place, Locked, Working, Ended
<1>4. QED
  BY <1>1, <1>2, <1>3 DEF Check

LEMMA DownloadStep == ASSUME Inv, NEW p \in Launches, Download(p) PROVE Inv'
<1>0. /\ tries \in [Launches -> 0 .. MaxRetries] /\ at[p] = "download" /\ tries[p] >= 1
      /\ IsValid(p) => tries[p] > 1
  BY DEF Inv, TypeOK, TriesOK, DownloadsOnlyMisses, Download, Working
<1>1. CASE To(p, "write") /\ UNCHANGED <<owner, tries>>
  BY <1>0, <1>1, OwnStep DEF Download, Place, Locked, Working
<1>2. CASE Leave(p, "refused") /\ UNCHANGED tries
  BY <1>0, <1>2, OwnStep DEF Download, Leave, Place, Locked, Working, Ended
<1>3. CASE Leave(p, "failed") /\ UNCHANGED tries
  BY <1>0, <1>3, OwnStep DEF Download, Leave, Place, Locked, Working, Ended
<1>4. CASE Retry(p)
  BY <1>0, <1>4, RetryStep DEF Download, Working
<1>5. QED
  BY <1>1, <1>2, <1>3, <1>4 DEF Download

LEMMA WriteStep == ASSUME Inv, NEW p \in Launches, Write(p) PROVE Inv'
<1>0. /\ tries \in [Launches -> 0 .. MaxRetries] /\ at[p] = "write" /\ tries[p] >= 1
      /\ IsValid(p) => tries[p] > 1
  BY DEF Inv, TypeOK, TriesOK, DownloadsOnlyMisses, Write, Working
<1>1. CASE To(p, "replace") /\ UNCHANGED <<owner, tries>>
  BY <1>0, <1>1, OwnStep DEF Write, Place, Locked, Working
<1>2. CASE Retry(p)
  BY <1>0, <1>2, RetryStep DEF Write, Working
<1>3. QED
  BY <1>1, <1>2 DEF Write

(* The one step that changes what others have checked: those of the same   *)
(* target still have their binary, the others become stale.                *)
LEMMA ReplaceStep == ASSUME Inv, NEW p \in Launches, Replace(p) PROVE Inv'
<1>1. CASE Retry(p) /\ UNCHANGED <<bin, stale>>
  BY <1>1, RetryStep DEF Replace, Working
<1>2. CASE /\ bin' = File(Target[p], "private")
           /\ stale' = (stale \ {p}) \cup Overtaken(p)
           /\ To(p, "chmod")
           /\ UNCHANGED <<owner, tries>>
  <2> USE DEF Inv
  <2>0. /\ at[p] = "replace" /\ UNCHANGED <<ran, spoils>>
        /\ at' = [at EXCEPT ![p] = "chmod"] /\ at \in [Launches -> Place]
        /\ p \in owner /\ bin'.kind = Target[p]
    BY <1>2 DEF Replace, To, TypeOK, LockOK, Locked, File, Place
  <2>1. TypeOK'
    <3>1. bin' \in Files
      BY <1>2, TargetAssumption DEF File, Files, Kind
    <3>2. QED
      BY <1>2, <2>0, <3>1 DEF TypeOK, Overtaken, Place, Locked
  <2>2. LockOK'
    BY <1>2, <2>0 DEF LockOK, Locked
  <2>3. TriesOK'
    BY <1>2, <2>0 DEF TriesOK, Working
  <2>4. FileOK'
    <3> SUFFICES ASSUME NEW q \in Launches, at'[q] \in {"chmod", "exec"}
                 PROVE  IsValid(q)' \/ q \in stale'
      BY DEF FileOK
    <3>1. CASE q = p
      BY <2>0, <3>1 DEF IsValid
    <3>2. CASE q # p
      <4>1. at[q] = "exec"
        BY <1>2, <2>0, <3>2 DEF LockOK, Locked
      <4>2. QED
        BY <1>2, <2>0, <3>2, <4>1 DEF IsValid, FileOK, Overtaken
    <3>3. QED
      BY <3>1, <3>2
  <2>5. RunsWhatItChecked'
    BY <1>2, <2>0 DEF RunsWhatItChecked
  <2>6. DownloadsOnlyMisses'
    BY <1>2, <2>0 DEF DownloadsOnlyMisses, LockOK, Locked
  <2>7. QED
    BY <2>1, <2>2, <2>3, <2>4, <2>5, <2>6
<1>3. QED
  BY <1>1, <1>2 DEF Replace

LEMMA ChmodStep == ASSUME Inv, NEW p \in Launches, Chmod(p) PROVE Inv'
<1>1. CASE Retry(p) /\ UNCHANGED bin
  BY <1>1, RetryStep DEF Chmod, Working
<1>2. CASE /\ bin # Absent
           /\ bin' = File(bin.kind, "executable")
           /\ Leave(p, "exec") /\ UNCHANGED tries
  <2> USE DEF Inv
  <2>0. /\ at[p] = "chmod" /\ UNCHANGED <<ran, stale, spoils>>
        /\ at' = [at EXCEPT ![p] = "exec"] /\ at \in [Launches -> Place]
        /\ owner' = owner \ {p} /\ bin'.kind = bin.kind
    BY <1>2 DEF Chmod, Leave, To, TypeOK, File, Place
  <2>1. TypeOK'
    <3>1. bin.kind \in Kind
      BY <1>2 DEF TypeOK, Files
    <3>2. bin' \in Files
      BY <1>2, <3>1 DEF File, Files
    <3>3. QED
      BY <1>2, <2>0, <3>2 DEF TypeOK, Place
  <2>2. LockOK'
    BY <2>0 DEF LockOK, Locked
  <2>3. TriesOK'
    BY <1>2, <2>0 DEF TriesOK, Working
  <2>4. FileOK'
    BY <2>0 DEF FileOK, IsValid
  <2>5. RunsWhatItChecked'
    BY <2>0 DEF RunsWhatItChecked
  <2>6. DownloadsOnlyMisses'
    BY <1>2, <2>0 DEF DownloadsOnlyMisses, IsValid
  <2>7. QED
    BY <2>1, <2>2, <2>3, <2>4, <2>5, <2>6
<1>3. QED
  BY <1>1, <1>2 DEF Chmod

LEMMA ExecStep == ASSUME Inv, NEW p \in Launches, Exec(p) PROVE Inv'
<1> USE DEF Inv
<1>0. /\ at[p] = "exec" /\ UNCHANGED <<bin, owner, tries, stale, spoils>>
      /\ at \in [Launches -> Place] /\ tries \in [Launches -> 0 .. MaxRetries]
  BY DEF Exec, TypeOK, Place
<1>1. CASE bin.mode = "private" /\ To(p, "failed") /\ UNCHANGED ran
  <2>1. p \notin owner
    BY <1>0 DEF LockOK, Locked
  <2>2. QED
    BY <1>0, <1>1, <2>1, OwnStep DEF Place, Locked, Working, Ended
<1>2. CASE bin.mode = "executable" /\ To(p, "running") /\ ran' = [ran EXCEPT ![p] = bin.kind]
  <2>0. at' = [at EXCEPT ![p] = "running"] /\ at'[p] = "running"
    BY <1>0, <1>2 DEF To
  <2>1. TypeOK'
    <3>1. bin.kind \in Kind
      BY <1>2 DEF TypeOK, Files, Absent, File
    <3>2. QED
      BY <1>0, <1>2, <2>0, <3>1 DEF TypeOK, Ended
  <2>2. LockOK'
    BY <1>0, <2>0 DEF LockOK, Locked
  <2>3. TriesOK'
    BY <1>0, <2>0 DEF TriesOK, Working
  <2>4. FileOK'
    BY <1>0, <2>0 DEF FileOK, IsValid
  <2>5. RunsWhatItChecked'
    BY <1>0, <1>2, <2>0 DEF RunsWhatItChecked, FileOK, IsValid, TypeOK
  <2>6. DownloadsOnlyMisses'
    BY <1>0, <2>0 DEF DownloadsOnlyMisses, IsValid
  <2>7. QED
    BY <2>1, <2>2, <2>3, <2>4, <2>5, <2>6
<1>3. QED
  BY <1>1, <1>2 DEF Exec

LEMMA KillStep == ASSUME Inv, NEW p \in Launches, Kill(p) PROVE Inv'
<1>1. tries \in [Launches -> 0 .. MaxRetries]
  BY DEF Inv, TypeOK
<1>2. QED
  BY <1>1, OwnStep DEF Kill, Leave, Place, Locked, Working, Ended

LEMMA LockTimeoutStep == ASSUME Inv, NEW p \in Launches, LockTimeout(p) PROVE Inv'
<1>1. tries \in [Launches -> 0 .. MaxRetries]
  BY DEF Inv, TypeOK
<1>2. p \notin owner
  BY DEF Inv, LockOK, LockTimeout, Locked
<1>3. owner' = owner \ {p}
  BY <1>2 DEF LockTimeout
<1>4. QED
  BY <1>1, <1>3, OwnStep DEF LockTimeout, Place, Locked, Working, Ended

(* A file that was damaged is nobody's binary.                             *)
LEMMA SpoilStep == ASSUME Inv, Spoil PROVE Inv'
<1> USE DEF Inv
<1>1. /\ bin' \in Files /\ spoils' \in 0 .. MaxSpoils
      /\ bin'.kind \notin Targets
      /\ UNCHANGED <<owner, at, tries, ran>>
  <2>1. bin.mode \in {"private", "executable"}
    BY DEF TypeOK, Files, Absent, File
  <2>2. bin' \in Files /\ bin'.kind \notin Targets
    BY <2>1, OtherAssumption DEF Spoil, Files, Absent, File, Kind
  <2>3. spoils' \in 0 .. MaxSpoils
    BY BoundsAssumption DEF Spoil, TypeOK
  <2>4. QED
    BY <2>2, <2>3 DEF Spoil
<1>2. stale' = stale \cup {q \in Launches : at[q] \in {"chmod", "exec"}}
  BY DEF Spoil
<1>3. TypeOK' /\ LockOK' /\ TriesOK'
  BY <1>1, <1>2 DEF TypeOK, LockOK, TriesOK
<1>4. FileOK'
  BY <1>1, <1>2 DEF FileOK
<1>5. RunsWhatItChecked'
  BY <1>1, <1>2 DEF RunsWhatItChecked
<1>6. DownloadsOnlyMisses'
  BY <1>1, TargetAssumption DEF DownloadsOnlyMisses, IsValid
<1>7. QED
  BY <1>3, <1>4, <1>5, <1>6

LEMMA StepInv == Inv /\ [Next]_vars => Inv'
<1> SUFFICES ASSUME Inv, [Next]_vars PROVE Inv'
  OBVIOUS
<1>1. ASSUME NEW p \in Launches, Step(p) PROVE Inv'
  BY <1>1, AcquireStep, CheckStep, DownloadStep, WriteStep, ReplaceStep, ChmodStep,
     ExecStep DEF Step
<1>2. ASSUME NEW p \in Launches, LockTimeout(p) PROVE Inv'
  BY <1>2, LockTimeoutStep
<1>3. ASSUME NEW p \in Launches, Kill(p) PROVE Inv'
  BY <1>3, KillStep
<1>4. CASE Spoil
  BY <1>4, SpoilStep
<1>5. CASE UNCHANGED vars
  BY <1>5 DEF vars, Inv, TypeOK, LockOK, TriesOK, FileOK, RunsWhatItChecked,
    DownloadsOnlyMisses, IsValid
<1>6. QED
  BY <1>1, <1>2, <1>3, <1>4, <1>5 DEF Next

(* The variables keep their types: at most MaxRetries downloads, files of  *)
(* known kinds.                                                            *)
THEOREM TypeCorrect == Spec => []TypeOK
<1>1. Inv => TypeOK
  BY DEF Inv
<1>2. QED
  BY InitInv, StepInv, <1>1, PTL DEF Spec

(* Whatever becomes of a launch, it only runs the binary whose hash it     *)
(* checked, or one that took its place after the lock was let go.          *)
THEOREM RunsChecked == Spec => []RunsWhatItChecked
<1>1. Inv => RunsWhatItChecked
  BY DEF Inv
<1>2. QED
  BY InitInv, StepInv, <1>1, PTL DEF Spec

(* The launches that wait for the lock use what its owner downloaded.      *)
THEOREM MissesOnly == Spec => []DownloadsOnlyMisses
<1>1. Inv => DownloadsOnlyMisses
  BY DEF Inv
<1>2. QED
  BY InitInv, StepInv, <1>1, PTL DEF Spec

(* At most one launch at a time works on the cached file.                  *)
OneAtWork == \A p, q \in Launches : at[p] \in Locked /\ at[q] \in Locked => p = q

(* Mutual exclusion, from the invariant: the other theorems rest on it.    *)
THEOREM Exclusion == Spec => []OneAtWork
<1>1. Inv => OneAtWork
  BY DEF Inv, LockOK, OneAtWork
<1>2. QED
  BY InitInv, StepInv, <1>1, PTL DEF Spec
(* How many steps a launch may still take: each try is four, and a failure *)
(* uses up a try.                                                          *)
Left(p) ==
  CASE at[p] = "lock"     -> 4 * MaxRetries + 3
    [] at[p] = "check"    -> 4 * MaxRetries + 2
    [] at[p] = "download" -> 4 * (MaxRetries - tries[p]) + 5
    [] at[p] = "write"    -> 4 * (MaxRetries - tries[p]) + 4
    [] at[p] = "replace"  -> 4 * (MaxRetries - tries[p]) + 3
    [] at[p] = "chmod"    -> 4 * (MaxRetries - tries[p]) + 2
    [] at[p] = "exec"     -> 1
    [] OTHER              -> 0

(* A launch ends or has steps left, the steps it takes use them up, and    *)
(* nothing that others do gives it more.                                   *)
Bounded ==
  /\ \A p \in Launches : Left(p) \in Nat /\ (Left(p) = 0 <=> at[p] \in Ended)
  /\ \A p \in Launches : at[p] = "lock" /\ owner # {} =>
       \E q \in owner \ {p} : at[q] \in Locked
LeftNeverGrows ==
  \A p \in Launches : Left(p)' <= Left(p) /\ (Step(p) => Left(p)' < Left(p))
Downhill == [][LeftNeverGrows]_vars

LEMMA LeftIsBounded == Inv => Bounded
<1> SUFFICES ASSUME Inv PROVE Bounded
  OBVIOUS
<1>1. ASSUME NEW p \in Launches
      PROVE  Left(p) \in Nat /\ (Left(p) = 0 <=> at[p] \in Ended)
  <2>1. /\ MaxRetries \in Nat \ {0} /\ tries[p] \in 0 .. MaxRetries
        /\ at[p] \in Place
    BY BoundsAssumption DEF Inv, TypeOK, Place
  <2>2. QED
    BY <2>1 DEF Left, Place, Locked, Ended
<1>2. ASSUME NEW p \in Launches, at[p] = "lock", owner # {}
      PROVE  \E q \in owner \ {p} : at[q] \in Locked
  BY <1>2 DEF Inv, TypeOK, LockOK, Locked
<1>3. QED
  BY <1>1, <1>2 DEF Bounded

(* The steps of one launch.                                                *)
LEMMA LeftFalls ==
  ASSUME Inv, NEW p \in Launches, Step(p)
  PROVE  /\ Left(p)' < Left(p) /\ Left(p)' <= Left(p)
         /\ \A q \in Launches \ {p} : at'[q] = at[q] /\ tries'[q] = tries[q]
<1>1. /\ MaxRetries \in Nat \ {0} /\ tries[p] \in 0 .. MaxRetries
      /\ at \in [Launches -> Place] /\ tries \in [Launches -> 0 .. MaxRetries]
  BY BoundsAssumption DEF Inv, TypeOK, Place
<1>2. at[p] \in Working => tries[p] >= 1
  BY DEF Inv, TriesOK
<1>3. ASSUME Retry(p), at[p] \in Working
      PROVE  /\ Left(p)' < Left(p) /\ Left(p)' <= Left(p)
             /\ \A q \in Launches \ {p} : at'[q] = at[q] /\ tries'[q] = tries[q]
  BY <1>1, <1>2, <1>3 DEF Retry, To, Leave, Left, Working
<1>4. CASE Acquire(p)
  BY <1>1, <1>4 DEF Acquire, To, Left
<1>5. CASE Check(p)
  BY <1>1, <1>5 DEF Check, Leave, To, Left
<1>6. CASE Download(p)
  BY <1>1, <1>3, <1>6 DEF Download, Leave, To, Left, Working
<1>7. CASE Write(p)
  BY <1>1, <1>3, <1>7 DEF Write, To, Left, Working
<1>8. CASE Replace(p)
  BY <1>1, <1>3, <1>8 DEF Replace, To, Left, Working
<1>9. CASE Chmod(p)
  BY <1>1, <1>3, <1>9 DEF Chmod, Leave, To, Left, Working
<1>10. CASE Exec(p)
  BY <1>1, <1>10 DEF Exec, To, Left
<1>11. QED
  BY <1>4, <1>5, <1>6, <1>7, <1>8, <1>9, <1>10 DEF Step

(* The part of EveryLaunchEnds that needs no fairness: a launch takes at   *)
(* most 4 * MaxRetries + 3 steps, whatever the others, the kills and the   *)
(* damage do, and if it waits for the lock, the owner is at work.          *)
THEOREM LaunchesRunDown == Spec => []Bounded /\ Downhill
<1>1. Inv /\ [Next]_vars => [LeftNeverGrows]_vars
  <2> SUFFICES ASSUME Inv, [Next]_vars, NEW p \in Launches
               PROVE  Left(p)' <= Left(p) /\ (Step(p) => Left(p)' < Left(p))
    BY DEF LeftNeverGrows
  <2>1. Left(p) \in Nat
    BY LeftIsBounded DEF Bounded
  <2>2. CASE Step(p)
    BY <2>2, LeftFalls
  <2>3. CASE at'[p] = at[p] /\ tries'[p] = tries[p]
    BY <2>1, <2>3, LeftFalls DEF Left
  <2>4. CASE at'[p] \in Ended
    BY <2>1, <2>4, LeftFalls DEF Left, Ended
  <2>5. ASSUME NEW q \in Launches, Step(q)
        PROVE  Left(p)' <= Left(p) /\ (Step(p) => Left(p)' < Left(p))
    BY <2>2, <2>3, <2>5, LeftFalls
  <2>6. ASSUME NEW q \in Launches, LockTimeout(q) \/ Kill(q)
        PROVE  at'[p] \in Ended \/ (at'[p] = at[p] /\ tries'[p] = tries[p])
    BY <2>6 DEF LockTimeout, Kill, Leave, To, Ended, Inv, TypeOK
  <2>7. CASE Spoil \/ UNCHANGED vars
    BY <2>3, <2>7 DEF Spoil, vars
  <2>8. QED
    BY <2>2, <2>3, <2>4, <2>5, <2>6, <2>7 DEF Next
<1>2. QED
  BY <1>1, InitInv, StepInv, LeftIsBounded, PTL DEF Spec, Downhill
=============================================================================
