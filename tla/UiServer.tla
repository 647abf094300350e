------------------------------ MODULE UiServer ------------------------------
(***************************************************************************)
(* `hookwarden ui`: a local HTTP server over the same planFixes and        *)
(* writeFixes as the command line.  Requests that pass the guards are      *)
(* chained on one promise, so that they are handled one after the other;   *)
(* the body of a request is read only when its turn has come.              *)
(*                                                                         *)
(* The module extends FixCommit: its Runs are the requests that apply a    *)
(* fix, and every step of such a request on the tree is a step of          *)
(* FixCommit.  Scans are the requests that only read the tree, /api/scan   *)
(* and /api/fix/preview.                                                   *)
(*                                                                         *)
(* Abstractions.  The guards on host, method and token, and the parsing of *)
(* the body, are a choice between refusing and going on.  A request that   *)
(* reads the tree does so between two steps of its own.                    *)
(***************************************************************************)
EXTENDS FixCommit, Sequences

CONSTANTS
  Scans,    \* the requests that only read the tree
  Patient   \* TRUE: nobody else saves a file while an apply is handled

ASSUME PatientAssumption == Patient \in BOOLEAN
ASSUME ScansAssumption == Scans \cap Runs = {}

Requests == Scans \cup Runs

VARIABLES
  stage,   \* how far each request is
  queue,   \* the requests chained on the promise, the one in hand first
  server,  \* "up", or "closed" by Ctrl+C
  target   \* the file each apply is about

uiOnly == <<stage, queue, server, target>>
uiVars == <<vars, uiOnly>>

Answered == {"ok", "failed", "refused"}
Serving(q) == server = "up" /\ queue # <<>> /\ Head(queue) = q

Enter(q, s) == stage' = [stage EXCEPT ![q] = s]

UiInit ==
  /\ Init
  /\ stage = [q \in Requests |-> "new"]
  /\ queue = <<>>
  /\ server = "up"
  /\ target \in [Runs -> Files]

----------------------------------------------------------------------------
(* The HTTP server.                                                        *)

\* A foreign host, a bad path, method or token is answered at once.
RejectAtDoor(q) ==
  /\ server = "up" /\ stage[q] = "new"
  /\ Enter(q, "refused")
  /\ UNCHANGED <<vars, queue, server, target>>

\* queue.then(() => route(...)).
Arrive(q) ==
  /\ server = "up" /\ stage[q] = "new"
  /\ queue' = Append(queue, q)
  /\ Enter(q, "queued")
  /\ UNCHANGED <<vars, server, target>>

\* Mutant: a request is handled as soon as it arrives.
StartAtOnce(q) ==
  /\ server = "up" /\ stage[q] = "queued"
  /\ Enter(q, "reading")
  /\ UNCHANGED <<vars, queue, server, target>>

\* Its turn has come: route starts to read the body.
Start(q) ==
  /\ Serving(q) /\ stage[q] = "queued"
  /\ Enter(q, "reading")
  /\ UNCHANGED <<vars, queue, server, target>>

\* The body is complete, and fixTarget accepts what it asks for.
BodyRead(q) ==
  /\ server = "up" /\ stage[q] = "reading"
  /\ Enter(q, "working")
  /\ UNCHANGED <<vars, queue, server, target>>

\* Mutant: a failed request stays at the head of the chain.
FailUncaught(q) ==
  /\ Enter(q, "failed")
  /\ queue' = queue

\* The promise rejects; queue = run.catch(...) lets the next request start.
Fail(q) ==
  /\ Enter(q, "failed")
  /\ queue' = Tail(queue)

\* The body is too large, no JSON or not a valid target; or the client went
\* away, or took longer to send it than the HTTP server waits.
BodyBad(q) ==
  /\ server = "up" /\ stage[q] = "reading"
  /\ Fail(q)
  /\ UNCHANGED <<vars, server, target>>

Respond(q) ==
  /\ Enter(q, "ok")
  /\ queue' = Tail(queue)

\* /api/scan and /api/fix/preview read the tree and answer.
ScanEnds(q) ==
  /\ q \in Scans
  /\ server = "up" /\ stage[q] = "working"
  /\ Respond(q) \/ Fail(q)
  /\ UNCHANGED <<vars, server, target>>

----------------------------------------------------------------------------
(* /api/fix/apply.                                                         *)

\* A conflict in any file is an error; otherwise only the edits of the file
\* the request names are written.
PlanTarget(r) ==
  /\ Plan(r)
  /\ pc'[r] # "usageError" => Planned(r)' \subseteq {target[r]}

\* One step of planFixes or writeFixes; in mode safe applyFixes never refuses.
ApplyStep(r) ==
  /\ server = "up" /\ stage[r] = "working"
  /\ Scan(r) \/ PlanTarget(r) \/ StageStep(r) \/ CommitStep(r) \/ Throw(r)
  /\ UNCHANGED uiOnly

\* After a write the tree is scanned again for the answer, and that scan may
\* throw; an error of planFixes or writeFixes is answered as an error.
ApplyEnds(r) ==
  /\ server = "up" /\ stage[r] = "working"
  /\ pc[r] \in Ended
  /\ Fail(r) \/ (pc[r] = "done" /\ Respond(r))
  /\ UNCHANGED <<vars, server, target>>

\* Ctrl+C: closeAllConnections, then process.exit, whatever is in hand.  What
\* a handler still does in between is a step before the shutdown.
Shutdown ==
  /\ server = "up"
  /\ server' = "closed"
  /\ \/ \E r \in Runs : stage[r] = "working" /\ Kill(r)
     \/ /\ \A r \in Runs : stage[r] = "working" => ~Active(r)
        /\ UNCHANGED vars
  /\ UNCHANGED <<stage, queue, target>>

\* The user saves a file, in his editor.
EditorSave(f) ==
  /\ Patient => \A r \in Runs : stage[r] # "working"
  /\ UserSave(f)
  /\ UNCHANGED uiOnly

Handle(q) ==
  \/ Start(q)
  \/ q \in Scans /\ ScanEnds(q)
  \/ q \in Runs /\ (ApplyStep(q) \/ ApplyEnds(q))

UiNext ==
  \/ \E q \in Requests : RejectAtDoor(q) \/ Arrive(q)
  \/ \E q \in Requests : Handle(q) \/ BodyRead(q) \/ BodyBad(q)
  \/ \E f \in Files : EditorSave(f)
  \/ Shutdown

UiSpec == UiInit /\ [][UiNext]_uiVars

\* The awaited calls of a handler settle; a body ends, or the HTTP server's
\* own request timeout ends it.
Fairness ==
  \A q \in Requests :
    /\ WF_uiVars(Handle(q))
    /\ WF_uiVars(BodyRead(q) \/ BodyBad(q))

FairUiSpec == UiSpec /\ Fairness

----------------------------------------------------------------------------
\* The invariant of FixProofs: the requests let in and not yet answered are
\* those of the queue, each once, and only the first of them is in hand.
UiTypeOK ==
  /\ queue \in Seq(Requests)
  /\ stage \in [Requests -> {"new", "queued", "reading", "working"} \cup Answered]
InQueue ==
  /\ \A q \in Requests : stage[q] \in {"queued", "reading", "working"} =>
       \E i \in DOMAIN queue : queue[i] = q
  /\ \A i \in DOMAIN queue : stage[queue[i]] \in {"queued", "reading", "working"}
  /\ \A i, j \in DOMAIN queue : queue[i] = queue[j] => i = j
HeadInHand == \A i \in DOMAIN queue : i # 1 => stage[queue[i]] = "queued"
QueueInv == UiTypeOK /\ InQueue /\ HeadInHand

\* What InstalledTextIsSound needs besides, where nobody saves while an apply is
\* handled: a run that has not come to its turn has planned nothing, and what the
\* run in hand has planned and not yet renamed is for the text that is there.
NotStarted(r) ==
  stage[r] \in {"new", "queued", "reading"} => pc[r] = "idle" /\ Planned(r) = {}
UpToDate(r) ==
  stage[r] = "working" =>
    \A f \in Planned(r) \ committed[r] :
      /\ plan[r][f].ver = disk[f].ver
      /\ staged[r][f].present =>
           staged[r][f].text.ver = disk[f].ver /\ staged[r][f].text.sound
SoundInv == InstalledTextIsSound /\ \A r \in Runs : NotStarted(r) /\ UpToDate(r)

\* A scan or a preview is not handled while an apply is rewriting files: a
\* file is renamed into place only when no scan is under way.
ScansSeeASettledTree ==
  [][committed' # committed => \A q \in Scans : stage[q] # "working"]_uiVars

\* A request that is let in is answered, whatever became of those before it,
\* unless the server is stopped.
RequestsAreAnswered ==
  \A q \in Requests :
    stage[q] = "queued" ~> stage[q] \in Answered \/ server = "closed"
=============================================================================
