------------------------------ MODULE Launcher ------------------------------
(***************************************************************************)
(* The Python package (python-packages/hookwarden): every `hookwarden` a   *)
(* user starts looks for the binary of this version in the user's cache,   *)
(* under a file lock, downloads it if its hash is not the pinned one, lets *)
(* the lock go and becomes the binary.  The cache is per version: launches *)
(* on machines of two kinds that share a home directory share the file.    *)
(*                                                                         *)
(* A binary is abstracted to the target whose pinned hash it has, and to   *)
(* "other" when it has none of them.  The POSIX path is modelled, where    *)
(* the temporary file is private (0600) until chmod.  Every launch has a   *)
(* temporary file of its own: one a kill leaves behind disturbs nobody.    *)
(***************************************************************************)
EXTENDS Naturals

CONSTANTS
  Launches,   \* processes started
  Targets,    \* the kinds of machine (detect_target)
  Target,     \* on which kind every launch is
  MaxRetries, \* max_retries of download_and_verify
  MaxSpoils   \* bound on damage to the cached file

ASSUME TargetAssumption == Target \in [Launches -> Targets]
ASSUME OtherAssumption == "other" \notin Targets /\ "absent" \notin Targets
ASSUME BoundsAssumption == MaxRetries \in Nat \ {0} /\ MaxSpoils \in Nat

VARIABLES
  bin,    \* the cached file
  owner,  \* the launches that hold the file lock
  at,     \* where every launch is
  tries,  \* attempt, in download_and_verify
  ran,    \* the binary every launch became
  stale,  \* launches whose file has changed since they wrote or checked it
  spoils

vars == <<bin, owner, at, tries, ran, stale, spoils>>

Kind == Targets \cup {"other"}
File(kind, mode) == [kind |-> kind, mode |-> mode]
Absent == File("absent", "private")
Files == {Absent} \cup [kind : Kind, mode : {"private", "executable"}]

Locked == {"check", "download", "write", "replace", "chmod"}
Ended == {"running", "failed", "refused", "killed"}

TypeOK ==
  /\ bin \in Files
  /\ owner \subseteq Launches
  /\ at \in [Launches -> {"lock", "exec"} \cup Locked \cup Ended]
  /\ tries \in [Launches -> 0 .. MaxRetries]
  /\ ran \in [Launches -> Kind \cup {"none"}]
  /\ stale \subseteq Launches
  /\ spoils \in 0 .. MaxSpoils

(* Nothing is cached, a binary that ran before, or one that was damaged.   *)
Init ==
  /\ bin \in {Absent} \cup {File(k, "executable") : k \in Kind}
  /\ owner = {}
  /\ at = [p \in Launches |-> "lock"]
  /\ tries = [p \in Launches |-> 0]
  /\ ran = [p \in Launches |-> "none"]
  /\ stale = {} /\ spoils = 0

(* Mutant of IsValid: the file need only be there.                         *)
IsThere(p) == bin # Absent

(* is_valid: the hash of the file is the one pinned for the target.        *)
IsValid(p) == bin.kind = Target[p]

-----------------------------------------------------------------------------
To(p, place) == at' = [at EXCEPT ![p] = place]

(* The with statement lets the lock go, whatever ended its body.           *)
Leave(p, place) == To(p, place) /\ owner' = owner \ {p}

Acquire(p) ==
  /\ at[p] = "lock" /\ owner = {}
  /\ To(p, "check")
  /\ owner' = {p}
  /\ UNCHANGED <<bin, tries, ran, stale, spoils>>

(* Two minutes without the lock: the exception is nobody's.                *)
LockTimeout(p) ==
  /\ at[p] = "lock" /\ owner # {}
  /\ To(p, "failed")
  /\ UNCHANGED <<bin, owner, tries, ran, stale, spoils>>

(* The cached file may also turn out not to be readable.                   *)
Check(p) ==
  /\ at[p] = "check"
  /\ \/ IsValid(p) /\ Leave(p, "exec") /\ UNCHANGED tries
     \/ ~IsValid(p) /\ To(p, "download") /\ tries' = [tries EXCEPT ![p] = 1] /\ UNCHANGED owner
     \/ Leave(p, "failed") /\ UNCHANGED tries
  /\ UNCHANGED <<bin, ran, stale, spoils>>

(* Mutant of Retry: without end.                                           *)
RetryForever(p) ==
  To(p, "download") /\ UNCHANGED <<owner, tries>>

(* What fails with an OSError is tried again, from the download on.        *)
Retry(p) ==
  \/ tries[p] < MaxRetries /\ To(p, "download") /\ tries' = [tries EXCEPT ![p] = @ + 1]
       /\ UNCHANGED owner
  \/ tries[p] = MaxRetries /\ Leave(p, "failed") /\ UNCHANGED tries

(* The whole body is read into memory and hashed.  A connection that is    *)
(* refused, times out or ends in a 5xx is tried again; a 4xx is not; a     *)
(* body with the wrong hash, which one cut short has, too, is refused.     *)
Download(p) ==
  /\ at[p] = "download"
  /\ \/ To(p, "write") /\ UNCHANGED <<owner, tries>>
     \/ Leave(p, "refused") /\ UNCHANGED tries
     \/ Leave(p, "failed") /\ UNCHANGED tries
     \/ Retry(p)
  /\ UNCHANGED <<bin, ran, stale, spoils>>

(* atomic_write up to fsync: the temporary file is removed on an error.    *)
Write(p) ==
  /\ at[p] = "write"
  /\ \/ To(p, "replace") /\ UNCHANGED <<owner, tries>>
     \/ Retry(p)
  /\ UNCHANGED <<bin, ran, stale, spoils>>

(* The launches for which another binary takes the place of theirs.        *)
Overtaken(p) == {q \in Launches \ {p} : at[q] = "exec" /\ Target[q] # Target[p]}

(* os.replace.                                                             *)
Replace(p) ==
  /\ at[p] = "replace"
  /\ \/ /\ bin' = File(Target[p], "private")
        /\ stale' = (stale \ {p}) \cup Overtaken(p)
        /\ To(p, "chmod")
        /\ UNCHANGED <<owner, tries>>
     \/ Retry(p) /\ UNCHANGED <<bin, stale>>
  /\ UNCHANGED <<ran, spoils>>

Chmod(p) ==
  /\ at[p] = "chmod"
  /\ \/ /\ bin # Absent
        /\ bin' = File(bin.kind, "executable")
        /\ Leave(p, "exec") /\ UNCHANGED tries
     \/ Retry(p) /\ UNCHANGED bin
  /\ UNCHANGED <<ran, stale, spoils>>

(* os.execv, after the lock is gone: the file as it is now.                *)
Exec(p) ==
  /\ at[p] = "exec"
  /\ \/ bin.mode = "executable" /\ To(p, "running") /\ ran' = [ran EXCEPT ![p] = bin.kind]
     \/ bin.mode = "private" /\ To(p, "failed") /\ UNCHANGED ran
  /\ UNCHANGED <<bin, owner, tries, stale, spoils>>

(* The process is killed; the system lets its lock go.                     *)
Kill(p) ==
  /\ at[p] \in Locked \cup {"lock", "exec"}
  /\ Leave(p, "killed")
  /\ UNCHANGED <<bin, tries, ran, stale, spoils>>

(* Somebody clears the cache, or the file is damaged.                      *)
Spoil ==
  /\ spoils < MaxSpoils
  /\ bin # Absent
  /\ bin' \in {Absent, File("other", bin.mode)}
  /\ stale' = stale \cup {q \in Launches : at[q] \in {"chmod", "exec"}}
  /\ spoils' = spoils + 1
  /\ UNCHANGED <<owner, at, tries, ran>>

Step(p) ==
  \/ Acquire(p) \/ Check(p) \/ Download(p) \/ Write(p)
  \/ Replace(p) \/ Chmod(p) \/ Exec(p)

Next ==
  \/ \E p \in Launches : Step(p) \/ LockTimeout(p) \/ Kill(p)
  \/ Spoil

(* The processes run; the clock and the signals need not come.             *)
Spec == Init /\ [][Next]_vars /\ \A p \in Launches : WF_vars(Step(p))

-----------------------------------------------------------------------------
(* Whatever a launch becomes has the hash pinned for its target, unless    *)
(* the file was damaged or a launch of another target replaced it after    *)
(* the hash was computed: the lock is let go before execv.                 *)
RunsWhatItChecked ==
  \A p \in Launches : at[p] = "running" => ran[p] = Target[p] \/ p \in stale

(* Nobody downloads, or replaces, what is in the cache already, but to try *)
(* again after a failure of its own.  Launches that wait for the lock find *)
(* what its owner has put there.                                           *)
DownloadsOnlyMisses ==
  \A p \in Launches :
    at[p] \in {"download", "write", "replace"} /\ IsValid(p) => tries[p] > 1

(* Every launch becomes the binary or gives up: nobody waits for a lock    *)
(* whose owner is gone, and retries end.                                   *)
EveryLaunchEnds == \A p \in Launches : <>(at[p] \in Ended)

(* A launch that finds its own binary in the cache runs it.  main.py       *)
(* promises it; a launch killed after os.replace and before chmod leaves   *)
(* a file with the right hash that nobody may execute and nobody repairs.  *)
HitsRun ==
  [][\A p \in Launches : at[p] = "exec" /\ IsValid(p) => at'[p] # "failed"]_vars
=============================================================================
