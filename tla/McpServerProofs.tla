--------------------------- MODULE McpServerProofs ---------------------------
(***************************************************************************)
(* The safety properties of the MCP server, for any number of overlapping  *)
(* calls, any inputs, languages, releases and evidence packs.  Those of a  *)
(* scan come first, those of the audit tool last.  Inv says what holds of  *)
(* a call at each place; what calls share, the rules and the runtimes,     *)
(* only ever goes from not loaded to loaded or failed (Grows), so a step   *)
(* of one call leaves what holds of another in place (OtherCall).          *)
(***************************************************************************)
EXTENDS McpServer, FiniteSetTheorems, NaturalsInduction, WellFoundedInduction, TLAPS

\* The facts about a call that survive a step of somebody else.
Grows ==
  /\ loaded' = loaded
  /\ ruleSet = KnownProviders => ruleSet' = KnownProviders
  /\ \A l \in Languages : runtime[l] = "failed" => runtime'[l] = "failed"

LEMMA OwnGrows ==
  ASSUME Grows, NEW args, NEW result, Own(args, result)
  PROVE  Own(args, result)'
  BY DEF Own, Grows, Needs

LEMMA OtherCall ==
  ASSUME Grows, NEW c \in Calls, CallInv(c), call'[c] = call[c]
  PROVE  CallInv(c)'
<1>1. Scanned(c)' <=> Scanned(c)
  BY DEF Scanned, Answered
<1>2. Scanned(c) => Own(call[c].args, call[c].result)'
  BY OwnGrows DEF CallInv
<1>3. \A pin : Pinned(pin)' <=> Pinned(pin)
  BY DEF Pinned, Grows
<1> QED
  BY <1>1, <1>2, <1>3 DEF CallInv, Grows, Own, Pinned

\* One call moves, and the shared state at most grows.
LEMMA OneCall ==
  ASSUME Inv, Grows, TypeOK', UNCHANGED <<server, pinned>>,
         NEW c \in Calls, NEW value, call' = [call EXCEPT ![c] = value], CallInv(c)'
  PROVE  Inv'
<1>1. \A d \in Calls \ {c} : call'[d] = call[d]
  BY DEF Inv, TypeOK
<1>2. \A d \in Calls \ {c} : CallInv(d)'
  BY <1>1, OtherCall DEF Inv
<1>3. (server = "up" => Drift = "none")'
  BY DEF Inv, Drift, Grows
<1> QED
  BY <1>2, <1>3 DEF Inv

\* No call moves.
LEMMA NoCall ==
  ASSUME Inv, Grows, TypeOK', UNCHANGED call, server' = "up" => Drift'= "none"
  PROVE  Inv'
<1>1. \A c \in Calls : CallInv(c)'
  BY OtherCall DEF Inv
<1> QED
  BY <1>1 DEF Inv

LEMMA NoInternalError == \A args : InputError(args) # "internal_error"
  BY DEF InputError

LEMMA Initially == Init => Inv
<1> SUFFICES ASSUME Init
             PROVE  Inv
  OBVIOUS
<1>1. \A c \in Calls : call[c].at = "idle"
  BY DEF Init, Idle
<1>2. TypeOK
  BY DEF Init, TypeOK
<1>3. \A c \in Calls : CallInv(c)
  BY <1>1 DEF CallInv, Scanned, Answered
<1> QED
  BY <1>2, <1>3 DEF Inv, Init

LEMMA Gates ==
  ASSUME Inv, NEW c \in Calls, Gate(c)
  PROVE  Inv'
<1> DEFINE args == call[c].args
<1>1. Drift = "none" /\ args \in Inputs
  BY DEF Inv, Gate, CallInv
<1>2. Grows
  BY DEF Gate, Grows
<1>3. CASE InputError(args) = "none"
  <2> DEFINE value == [at |-> "parse", args |-> args, next |-> 1]
  <2>1. call' = [call EXCEPT ![c] = value]
    BY <1>1, <1>3 DEF Gate
  <2>2. call'[c] = value /\ TypeOK'
    BY <2>1 DEF Inv, TypeOK, Gate
  <2>3. InputError(args)' = InputError(args)
    BY <2>1 DEF InputError
  <2>4. CallInv(c)'
    BY <1>1, <1>3, <2>2 DEF CallInv, Scanned, Answered, InputError
  <2> QED
    BY <1>2, <2>1, <2>2, <2>4, OneCall DEF Gate
<1>4. CASE InputError(args) # "none"
  <2> DEFINE value == [at |-> "answered", args |-> args, result |-> [error |-> InputError(args)]]
  <2>1. call' = [call EXCEPT ![c] = value]
    BY <1>1, <1>4 DEF Gate, Answer
  <2>2. call'[c] = value /\ TypeOK'
    BY <2>1 DEF Inv, TypeOK, Gate
  <2>3. InputError(args) # "internal_error"
    BY NoInternalError
  <2>4. CallInv(c)'
    BY <1>1, <1>4, <2>2, <2>3 DEF CallInv, Scanned, Answered, InputError, Own
  <2> QED
    BY <1>2, <2>1, <2>2, <2>4, OneCall DEF Gate
<1> QED
  BY <1>3, <1>4

LEMMA Parses ==
  ASSUME Inv, NEW c \in Calls, Parse(c)
  PROVE  Inv'
<1>0. PICK args, n : args = call[c].args /\ n = call[c].next
  OBVIOUS
<1> DEFINE language == Sources(args)[n].language
<1>1. args \in Inputs /\ InputError(args) = "none" /\ n \in Nat \ {0} /\ n <= Len(Sources(args))
  BY <1>0 DEF Inv, Parse, CallInv
<1>2. CASE /\ call' = [call EXCEPT ![c] = [at |-> "parse", args |-> args, next |-> n + 1]]
           /\ runtime' = runtime
  <2> DEFINE value == [at |-> "parse", args |-> args, next |-> n + 1]
  <2>1. call' = [call EXCEPT ![c] = value] /\ runtime' = runtime
    BY <1>2
  <2>2. call'[c] = value /\ TypeOK'
    BY <2>1 DEF Inv, TypeOK, Parse
  <2>3. CallInv(c)'
    BY <1>1, <2>2 DEF CallInv, Scanned, Answered, InputError
  <2>4. Grows
    BY <2>1 DEF Parse, Grows
  <2> QED
    BY <2>1, <2>2, <2>3, <2>4, OneCall DEF Parse
<1>3. CASE /\ language \in Languages /\ runtime[language] = "failed"
           /\ Answer(c, args, [error |-> "internal_error"]) /\ runtime' = runtime
  <2> DEFINE value == [at |-> "answered", args |-> args, result |-> [error |-> "internal_error"]]
  <2>1. call' = [call EXCEPT ![c] = value] /\ runtime' = runtime
    BY <1>3 DEF Answer
  <2>2. call'[c] = value /\ TypeOK'
    BY <2>1 DEF Inv, TypeOK, Parse
  <2>3. n \in DOMAIN Sources(args)
    BY <1>1 DEF Sources
  <2>4. Grows
    BY <2>1 DEF Parse, Grows
  <2>5. language \in Needs(args)
    BY <1>3, <2>3 DEF Needs
  <2>6. Own(args, [error |-> "internal_error"])
    BY <1>1, <1>3, <2>5 DEF Own
  <2>7. Own(args, [error |-> "internal_error"])'
    BY <2>4, <2>6, OwnGrows
  <2>8. CallInv(c)'
    BY <2>2, <2>7 DEF CallInv, Scanned, Answered
  <2> QED
    BY <2>1, <2>2, <2>4, <2>8, OneCall DEF Parse
<1>4. CASE /\ language \in Languages /\ runtime[language] = "none"
           /\ call' = call /\ runtime' = [runtime EXCEPT ![language] = "loading"]
  <2>1. call' = call /\ runtime' = [runtime EXCEPT ![language] = "loading"]
    BY <1>4
  <2>2. TypeOK' /\ Grows
    BY <1>4, <2>1 DEF Inv, TypeOK, Parse, Grows
  <2> QED
    BY <2>1, <2>2, NoCall DEF Parse, Inv, Drift
<1> QED
  BY <1>0, <1>2, <1>3, <1>4 DEF Parse

LEMMA Loads ==
  ASSUME Inv, NEW l \in Languages, Load(l)
  PROVE  Inv'
<1>1. TypeOK' /\ Grows
  BY DEF Inv, TypeOK, Load, Grows
<1> QED
  BY <1>1, NoCall DEF Load, Inv, Drift

LEMMA Rules ==
  ASSUME Inv, NEW c \in Calls, AwaitRules(c)
  PROVE  Inv'
<1> DEFINE args == call[c].args
           value == [at |-> "evaluate", args |-> args]
<1>1. args \in Inputs /\ InputError(args) = "none"
  BY DEF Inv, AwaitRules, CallInv
<1>2. call' = [call EXCEPT ![c] = value] /\ ruleSet' = KnownProviders
  BY DEF AwaitRules, Inv, TypeOK
<1>3. call'[c] = value /\ TypeOK' /\ Grows
  BY <1>2 DEF Inv, TypeOK, AwaitRules, Grows
<1>4. CallInv(c)'
  BY <1>1, <1>2, <1>3 DEF CallInv, Scanned, Answered, InputError
<1> QED
  BY <1>2, <1>3, <1>4, OneCall DEF AwaitRules

LEMMA Evaluates ==
  ASSUME Inv, NEW c \in Calls, Evaluate(c)
  PROVE  Inv'
<1>0. PICK args, pin : args = call[c].args /\ pin = pinned
  OBVIOUS
<1> DEFINE result == [error |-> "none", findings |-> Findings(args, KnownProviders), pin |-> pin]
           value == [at |-> "answered", args |-> args, result |-> result]
<1>1. args \in Inputs /\ InputError(args) = "none" /\ ruleSet = KnownProviders /\ Drift = "none"
  BY <1>0 DEF Inv, Evaluate, CallInv
<1>2. call' = [call EXCEPT ![c] = value] /\ UNCHANGED <<loaded, pinned>>
  BY <1>0, <1>1 DEF Evaluate, Answer
<1>3. call'[c] = value /\ TypeOK' /\ Grows
  BY <1>2 DEF Inv, TypeOK, Evaluate, Grows
<1>4. Pinned(pin)'
  BY <1>0, <1>1, <1>2 DEF Pinned, Drift
<1>5. Own(args, result)
  BY <1>1 DEF Own
<1>6. Own(args, result)'
  BY <1>5, <1>3, OwnGrows
<1>7. CallInv(c)'
  BY <1>3, <1>4, <1>6 DEF CallInv, Scanned, Answered
<1> QED
  BY <1>2, <1>3, <1>7, OneCall DEF Evaluate

LEMMA Requests ==
  ASSUME Inv, NEW c \in Calls, Request(c)
  PROVE  Inv'
<1>1. PICK args \in Inputs : call' = [call EXCEPT ![c] = [at |-> "gate", args |-> args]]
  BY DEF Request
<1>2. call'[c] = [at |-> "gate", args |-> args] /\ TypeOK' /\ Grows
  BY <1>1 DEF Inv, TypeOK, Request, Grows
<1>3. CallInv(c)'
  BY <1>2 DEF CallInv, Scanned, Answered
<1> QED
  BY <1>1, <1>2, <1>3, OneCall DEF Request

LEMMA Verifies ==
  ASSUME Inv, NEW c \in Calls, Verify(c)
  PROVE  Inv'
<1>1. PICK pack \in Packs : Answer(c, pack, AuditVerdict(pack))
  BY DEF Verify
<1> DEFINE value == [at |-> "answered", args |-> pack, result |-> AuditVerdict(pack)]
<1>2. call' = [call EXCEPT ![c] = value]
  BY <1>1 DEF Answer
<1>3. call'[c] = value /\ TypeOK' /\ Grows
  BY <1>2 DEF Inv, TypeOK, Verify, Grows
<1>4. CallInv(c)'
  BY <1>3, InputsAssumption DEF CallInv, Scanned, Answered
<1> QED
  BY <1>2, <1>3, <1>4, OneCall DEF Verify

LEMMA Preserved == Inv /\ [Next]_vars => Inv'
<1> SUFFICES ASSUME Inv, [Next]_vars
             PROVE  Inv'
  OBVIOUS
<1>1. CASE Boot \/ Close \/ Reinstall
  <2>1. Grows /\ UNCHANGED call
    BY <1>1 DEF Boot, Close, Reinstall, Grows
  <2>2. TypeOK'
    BY <1>1 DEF Boot, Close, Reinstall, Inv, TypeOK
  <2>3. server' = "up" => Drift' = "none"
    BY <1>1 DEF Boot, Close, Reinstall, Inv, Drift
  <2> QED
    BY <2>1, <2>2, <2>3, NoCall
<1>2. CASE UNCHANGED vars
  <2>1. Grows /\ TypeOK' /\ UNCHANGED call /\ (server' = "up" => Drift' = "none")
    BY <1>2 DEF vars, Grows, Inv, TypeOK, Drift
  <2> QED
    BY <2>1, NoCall
<1>3. ASSUME NEW c \in Calls, Request(c) \/ Step(c) \/ Verify(c)
      PROVE  Inv'
  BY <1>3, Requests, Gates, Parses, Rules, Evaluates, Verifies DEF Step
<1> QED
  BY <1>1, <1>2, <1>3, Loads DEF Next

\* What holds of a call at each place it can be in, whatever the others do.
THEOREM Invariance == Spec => []Inv
  BY Initially, Preserved, PTL DEF Spec

\* A scan is answered as it would be alone.
THEOREM AnswersAreOwn == Spec => []OwnAnswers
<1>1. Inv => OwnAnswers
  BY DEF Inv, CallInv, OwnAnswers
<1> QED
  BY <1>1, Invariance, PTL

\* Findings are reported only by a process whose release is the pinned one.
THEOREM AnswersArePinned == Spec => []PinnedAnswers
<1>1. Inv => PinnedAnswers
  BY DEF Inv, CallInv, PinnedAnswers
<1> QED
  BY <1>1, Invariance, PTL
-----------------------------------------------------------------------------
(* Every call goes forward.                                                *)

\* The files of a call, and how many steps it has left but for loads.
Places(c) == Len(Sources(call[c].args))
StepsLeft(c) ==
  CASE call[c].at = "gate"     -> Places(c) + 3
    [] call[c].at = "parse"    -> Places(c) + 3 - call[c].next
    [] call[c].at = "evaluate" -> 1
    [] OTHER                   -> 0

\* A call answers for the arguments it came with, and goes forward only; a step
\* that brings it no further starts a load, and a language is loaded once.
CallsGoForward ==
  /\ \A c \in Calls :
       /\ Pending(c) => StepsLeft(c)' <= StepsLeft(c) /\ call'[c].args = call[c].args
       /\ Answered(c) => call'[c] = call[c]
       /\ Pending(c) /\ Step(c) => \/ StepsLeft(c)' < StepsLeft(c)
                                   \/ \E l \in Languages : runtime[l] = "none" /\ runtime'[l] = "loading"
  /\ \A l \in Languages : runtime'[l] # runtime[l] =>
       <<runtime[l], runtime'[l]>> \in {<<"none", "loading">>, <<"loading", "ready">>, <<"loading", "failed">>}

\* A call that is not answered has steps left.
NoneIsLost == \A c \in Calls : StepsLeft(c) \in Nat /\ (Pending(c) <=> StepsLeft(c) > 0)

\* A call parses its files in turn.
Within == \A c \in Calls : call[c].at = "parse" => call[c].next <= Places(c) + 1

LEMMA PlacesIsNat ==
  ASSUME NEW args \in Inputs
  PROVE  Len(Sources(args)) \in Nat
<1> DEFINE files == IF args.code THEN <<[language |-> "ts", parses |-> TRUE]>> ELSE args.files
<1>1. /\ Len(files) \in Nat /\ DOMAIN files = 1 .. Len(files)
  <2>1. CASE args.code
    <3>1. files = <<[language |-> "ts", parses |-> TRUE]>>
      BY <2>1
    <3> HIDE DEF files
    <3> QED
      BY <3>1
  <2>2. CASE ~args.code
    <3>1. files = args.files /\ args.files \in Seq({args.files[i] : i \in DOMAIN args.files})
      BY <2>2, FilesAssumption
    <3> HIDE DEF files
    <3> QED
      BY <3>1
  <2> QED
    BY <2>1, <2>2
<1> HIDE DEF files
<1>2. Sources(args) = [i \in 1 .. Len(files) |->
        IF args.language = Absent THEN files[i] ELSE [files[i] EXCEPT !.language = args.language]]
  BY <1>1 DEF Sources, files
<1>3. Sources(args) \in Seq({Sources(args)[i] : i \in 1 .. Len(files)})
  BY <1>1, <1>2
<1> QED
  BY <1>3

LEMMA Remaining ==
  ASSUME Inv, Within, NEW c \in Calls
  PROVE  StepsLeft(c) \in Nat /\ (Pending(c) <=> StepsLeft(c) > 0)
<1>1. /\ call[c].at \in {"idle", "gate", "parse", "evaluate", "answered"}
      /\ call[c].at \in {"gate", "parse"} => Places(c) \in Nat
      /\ call[c].at = "parse" => call[c].next \in 1 .. Places(c) + 1
  BY PlacesIsNat DEF Inv, CallInv, Within, Places
<1> QED
  BY <1>1 DEF StepsLeft, Pending

\* The step of a call: only Parse may leave it where it is, to start a load.
LEMMA TakesAStep ==
  ASSUME Inv, Within, NEW c \in Calls, Step(c)
  PROVE  /\ Pending(c)
         /\ \A d \in Calls \ {c} : call'[d] = call[d]
         /\ call'[c].args = call[c].args
         /\ call'[c].at = "parse" => call'[c].next <= Len(Sources(call[c].args)) + 1
         /\ \/ StepsLeft(c)' < StepsLeft(c) /\ StepsLeft(c)' <= StepsLeft(c) /\ runtime' = runtime
            \/ /\ call' = call
               /\ \E l \in Languages : /\ runtime[l] = "none"
                                       /\ runtime' = [runtime EXCEPT ![l] = "loading"]
<1> DEFINE N == Len(Sources(call[c].args))
<1>1. /\ call = [d \in Calls |-> call[d]] /\ runtime \in [Languages -> {"none", "loading", "ready", "failed"}]
      /\ call[c].at \in {"gate", "parse"} => N \in Nat
      /\ call[c].at = "parse" => call[c].next \in 1 .. N + 1
  BY PlacesIsNat DEF Inv, TypeOK, CallInv, Within, Places
<1>2. Pending(c)
  BY DEF Pending, Step, Gate, Parse, AwaitRules, Evaluate
<1>3. ASSUME NEW result, Answer(c, call[c].args, result), runtime' = runtime,
             call[c].at \in {"gate", "parse", "evaluate"}
      PROVE  /\ \A d \in Calls \ {c} : call'[d] = call[d]
             /\ call'[c].args = call[c].args /\ call'[c].at = "answered"
             /\ StepsLeft(c)' < StepsLeft(c) /\ StepsLeft(c)' <= StepsLeft(c)
  <2>1. /\ \A d \in Calls \ {c} : call'[d] = call[d]
        /\ call'[c] = [at |-> "answered", args |-> call[c].args, result |-> result]
    BY <1>1, <1>3 DEF Answer
  <2>2. StepsLeft(c)' = 0
    BY <2>1 DEF StepsLeft
  <2>3. StepsLeft(c) \in Nat /\ StepsLeft(c) > 0
    BY <1>2, Remaining
  <2> QED
    BY <2>1, <2>2, <2>3
<1>4. CASE Gate(c)
  <2>1. CASE call' = [call EXCEPT ![c] = [at |-> "parse", args |-> call[c].args, next |-> 1]]
    <3>1. /\ \A d \in Calls \ {c} : call'[d] = call[d]
          /\ call'[c] = [at |-> "parse", args |-> call[c].args, next |-> 1]
      BY <1>1, <2>1
    <3>2. StepsLeft(c)' = N + 3 - 1 /\ StepsLeft(c) = N + 3 /\ N \in Nat
      BY <1>1, <1>4, <3>1 DEF StepsLeft, Places, Gate
    <3> HIDE DEF N
    <3>3. StepsLeft(c)' < StepsLeft(c) /\ StepsLeft(c)' <= StepsLeft(c) /\ 1 <= N + 1
      BY <3>2
    <3> QED
      BY <1>2, <1>4, <3>1, <3>3 DEF Gate, N
  <2>2. CASE \E result : Answer(c, call[c].args, result)
    BY <1>2, <1>3, <1>4, <2>2 DEF Gate
  <2> QED
    BY <1>4, <2>1, <2>2 DEF Gate
<1>5. CASE Parse(c)
  <2>1. CASE call' = [call EXCEPT ![c] = [at |-> "parse", args |-> @.args, next |-> @.next + 1]] /\ runtime' = runtime
    <3>1. /\ \A d \in Calls \ {c} : call'[d] = call[d]
          /\ call'[c] = [at |-> "parse", args |-> call[c].args, next |-> call[c].next + 1]
      BY <1>1, <2>1
    <3>2. /\ call[c].at = "parse" /\ call[c].next <= N
      BY <1>5 DEF Parse
    <3>3. /\ StepsLeft(c)' = N + 3 - (call[c].next + 1)
          /\ StepsLeft(c) = N + 3 - call[c].next
      BY <3>1, <3>2 DEF StepsLeft, Places
    <3>4. N \in Nat /\ call[c].next \in Nat
      BY <1>1, <3>2
    <3> HIDE DEF N
    <3>5. StepsLeft(c)' < StepsLeft(c) /\ StepsLeft(c)' <= StepsLeft(c) /\ call[c].next + 1 <= N + 1
      BY <3>2, <3>3, <3>4
    <3> QED
      BY <1>2, <2>1, <3>1, <3>5 DEF N
  <2>2. CASE (\E result : Answer(c, call[c].args, result)) /\ runtime' = runtime
    BY <1>2, <1>3, <1>5, <2>2 DEF Parse
  <2>3. CASE /\ call' = call
             /\ \E l \in Languages : runtime[l] = "none" /\ runtime' = [runtime EXCEPT ![l] = "loading"]
    <3>1. call[c].at = "parse" => call[c].next <= Len(Sources(call[c].args)) + 1
      BY DEF Within, Places
    <3> QED
      BY <1>2, <2>3, <3>1
  <2> QED
    BY <1>5, <2>1, <2>2, <2>3 DEF Parse
<1>6. CASE AwaitRules(c)
  <2>1. /\ \A d \in Calls \ {c} : call'[d] = call[d]
        /\ call'[c] = [at |-> "evaluate", args |-> call[c].args]
        /\ call[c].at = "parse" /\ runtime' = runtime
    BY <1>1, <1>6 DEF AwaitRules
  <2>2. StepsLeft(c)' = 1 /\ StepsLeft(c) = N + 3 - call[c].next
    BY <2>1 DEF StepsLeft, Places
  <2>3. N \in Nat /\ call[c].next \in 1 .. N + 1
    BY <1>1, <2>1
  <2> HIDE DEF N
  <2>4. StepsLeft(c)' < StepsLeft(c) /\ StepsLeft(c)' <= StepsLeft(c)
    BY <2>2, <2>3
  <2> QED
    BY <1>2, <2>1, <2>4
<1>7. CASE Evaluate(c)
  BY <1>2, <1>3, <1>7 DEF Evaluate
<1> QED
  BY <1>4, <1>5, <1>6, <1>7 DEF Step

\* What the others do leaves a call where it is, and its runtimes at most loaded.
LEMMA Forward ==
  ASSUME Inv, Within, [Next]_vars
  PROVE  CallsGoForward /\ Within'
<1>1. /\ call = [d \in Calls |-> call[d]] /\ runtime \in [Languages -> {"none", "loading", "ready", "failed"}]
  BY DEF Inv, TypeOK
<1>2. \A c \in Calls : StepsLeft(c) \in Nat
  BY Remaining
<1>3. ASSUME NEW c \in Calls, call'[c] = call[c]
      PROVE  /\ StepsLeft(c)' = StepsLeft(c)
             /\ call'[c].at = "parse" => call'[c].next <= Len(Sources(call'[c].args)) + 1
  BY <1>3 DEF StepsLeft, Places, Within
<1>4. ASSUME NEW c \in Calls, Step(c)
      PROVE  CallsGoForward /\ Within'
  <2>1. \A d \in Calls \ {c} : call'[d] = call[d] /\ StepsLeft(d)' = StepsLeft(d)
    BY <1>3, <1>4, TakesAStep
  <2>2. Within'
    <3> SUFFICES ASSUME NEW d \in Calls, call'[d].at = "parse"
                 PROVE  call'[d].next <= Len(Sources(call'[d].args)) + 1
      BY DEF Within, Places
    <3> QED
      BY <1>3, <1>4, <2>1, TakesAStep
  <2>3. ASSUME NEW d \in Calls
        PROVE  /\ Pending(d) => StepsLeft(d)' <= StepsLeft(d) /\ call'[d].args = call[d].args
               /\ Answered(d) => call'[d] = call[d]
    <3>1. CASE d = c
      <4>1. Pending(c) /\ call'[c].args = call[c].args
        BY <1>4, TakesAStep
      <4>2. StepsLeft(c)' <= StepsLeft(c)
        BY <1>2, <1>3, <1>4, TakesAStep
      <4> QED
        BY <3>1, <4>1, <4>2 DEF Pending, Answered
    <3>2. CASE d # c
      BY <1>2, <2>1, <3>2
    <3> QED
      BY <3>1, <3>2
  <2>4. ASSUME NEW d \in Calls, Step(d)
        PROVE  \/ StepsLeft(d)' < StepsLeft(d)
               \/ \E l \in Languages : runtime[l] = "none" /\ runtime'[l] = "loading"
    BY <1>1, <2>4, TakesAStep
  <2>5. \A l \in Languages : runtime'[l] # runtime[l] => runtime[l] = "none" /\ runtime'[l] = "loading"
    BY <1>1, <1>4, TakesAStep
  <2> QED
    BY <2>2, <2>3, <2>4, <2>5 DEF CallsGoForward
<1>5. ASSUME NEW l \in Languages, Load(l)
      PROVE  /\ call' = call
             /\ \A m \in Languages : runtime'[m] # runtime[m] =>
                  runtime[m] = "loading" /\ runtime'[m] \in {"ready", "failed"}
  BY <1>1, <1>5 DEF Load
<1>6. ASSUME NEW c \in Calls, Request(c) \/ Verify(c)
      PROVE  /\ ~Pending(c) /\ ~Answered(c) /\ runtime' = runtime
             /\ \A d \in Calls \ {c} : call'[d] = call[d]
             /\ call'[c].at # "parse"
  BY <1>1, <1>6 DEF Request, Verify, Answer, Pending, Answered, Idle
<1>7. ASSUME \A c \in Calls : ~Step(c)
      PROVE  CallsGoForward /\ Within'
  <2>1. \A c \in Calls : \/ call'[c] = call[c]
                         \/ ~Pending(c) /\ ~Answered(c) /\ call'[c].at # "parse"
    BY <1>5, <1>6, <1>7 DEF Next, Boot, Close, Reinstall, vars
  <2>2. \A l \in Languages : runtime'[l] # runtime[l] =>
          runtime[l] = "loading" /\ runtime'[l] \in {"ready", "failed"}
    BY <1>5, <1>6, <1>7 DEF Next, Boot, Close, Reinstall, vars
  <2>3. Within'
    BY <1>3, <2>1 DEF Within, Places
  <2>4. ASSUME NEW c \in Calls
        PROVE  /\ Pending(c) => StepsLeft(c)' <= StepsLeft(c) /\ call'[c].args = call[c].args
               /\ Answered(c) => call'[c] = call[c]
    BY <1>2, <1>3, <2>1
  <2> QED
    BY <1>7, <2>2, <2>3, <2>4 DEF CallsGoForward
<1> QED
  BY <1>4, <1>7

\* The part of CallsAreAnswered that needs no fairness: a call takes at most as many
\* steps as it has files, and three, but for the loads that it starts, of which
\* there is one for each language, whatever the other calls do.
THEOREM CallsRunDown == Spec => []NoneIsLost /\ [][CallsGoForward]_vars
<1>1. Inv /\ Within => NoneIsLost
  BY Remaining DEF NoneIsLost
<1>2. Init => Within
  BY DEF Init, Within, Idle
<1>3. Inv /\ Within /\ [Next]_vars => [CallsGoForward]_vars /\ Within'
  BY Forward
<1> QED
  BY <1>1, <1>2, <1>3, Initially, Preserved, PTL DEF Spec
-----------------------------------------------------------------------------
(* verify_audit_chain, for any pack that nobody but the writer could sign. *)

\* A set of numbers has a least one, and Min is it.
LEMMA LeastNumber ==
  ASSUME NEW S, S \subseteq Nat, S # {}
  PROVE  Min(S) \in S /\ \A y \in S : Min(S) <= y
<1> DEFINE R == OpToRel(<, Nat)
<1>1. IsWellFoundedOn(R, Nat)
  BY NatLessThanWellFounded
<1>2. \A x, y \in Nat : x < y => <<x, y>> \in R
  BY DEF OpToRel
<1> HIDE DEF R
<1>3. PICK x \in S : \A y \in S : ~(<<y, x>> \in R)
  BY <1>1, WFMin, Zenon
<1>4. ASSUME NEW y \in S PROVE x <= y
  <2>1. x \in Nat /\ y \in Nat /\ ~(y < x)
    BY <1>2, <1>3
  <2> QED
    BY <2>1
<1> QED
  BY <1>4 DEF Min

\* The hash of a row tells what it is made of.
LEMMA DigestTells ==
  ASSUME NEW a, NEW b, NEW x, NEW y, Digest(a, x) = Digest(b, y)
  PROVE  a = b /\ x = y
<1>1. CASE a = Absent /\ b = Absent
  BY <1>1 DEF Digest
<1>2. CASE a # Absent /\ b # Absent
  BY <1>2 DEF Digest
<1>3. CASE a = Absent /\ b # Absent
  <2>1. <<"sha256", x>> = <<"sha256", b, y>>
    BY <1>3 DEF Digest
  <2>2. Len(<<"sha256", x>>) = 2 /\ Len(<<"sha256", b, y>>) = 3
    OBVIOUS
  <2> QED
    BY <2>1, <2>2
<1>4. CASE a # Absent /\ b = Absent
  <2>1. <<"sha256", a, x>> = <<"sha256", y>>
    BY <1>4 DEF Digest
  <2>2. Len(<<"sha256", y>>) = 2 /\ Len(<<"sha256", a, x>>) = 3
    OBVIOUS
  <2> QED
    BY <2>1, <2>2
<1> QED
  BY <1>1, <1>2, <1>3, <1>4

\* What a row is, and what can be said of the exported ones.
LEMMA RowShape ==
  ASSUME NEW pack, Shaped(pack)
  PROVE  /\ Len(pack.rows) \in Nat
         /\ DOMAIN pack.rows = 1..Len(pack.rows)
         /\ \A i \in DOMAIN pack.rows :
              pack.rows[i] =
                [seq |-> pack.rows[i].seq, kind |-> pack.rows[i].kind,
                 payload |-> pack.rows[i].payload,
                 hash |-> pack.rows[i].hash, prev |-> pack.rows[i].prev,
                 extra |-> pack.rows[i].extra]
<1> DEFINE r == pack.rows
           row(i) == [seq |-> r[i].seq, kind |-> r[i].kind, payload |-> r[i].payload,
                      hash |-> r[i].hash, prev |-> r[i].prev, extra |-> r[i].extra]
<1>1. Len(r) \in Nat /\ r = [i \in 1..Len(r) |-> row(i)]
  BY DEF Shaped
<1>2. DOMAIN r = 1..Len(r) /\ \A i \in 1..Len(r) : r[i] = row(i)
  <2> HIDE DEF row, r
  <2>1. DOMAIN r = 1..Len(r)
    BY <1>1
  <2>2. ASSUME NEW i \in 1..Len(r) PROVE r[i] = row(i)
    BY <1>1
  <2> QED
    BY <2>1, <2>2
<1> QED
  BY <1>1, <1>2

\* Rows of one text agree on what the chain is made of.
LEMMA SameFields ==
  ASSUME NEW p, Shaped(p), NEW q, Shaped(q),
         NEW i \in DOMAIN p.rows, NEW j \in DOMAIN q.rows, Text(p.rows[i]) = Text(q.rows[j])
  PROVE  Chained(p.rows[i]) = Chained(q.rows[j])
<1> DEFINE a == p.rows[i]
           b == q.rows[j]
<1>1. a = [seq |-> a.seq, kind |-> a.kind, payload |-> a.payload, hash |-> a.hash, prev |-> a.prev,
           extra |-> a.extra]
  BY RowShape, Zenon
<1>2. b = [seq |-> b.seq, kind |-> b.kind, payload |-> b.payload, hash |-> b.hash, prev |-> b.prev,
           extra |-> b.extra]
  BY RowShape, Zenon
<1> HIDE DEF a, b
<1>3. DOMAIN a = {"seq", "kind", "payload", "hash", "prev", "extra"}
  BY <1>1
<1>4. DOMAIN b = {"seq", "kind", "payload", "hash", "prev", "extra"}
  BY <1>2
<1>5. Text(a) = Text(b)
  BY DEF a, b
<1>6. /\ Text(a)["seq"] = a.seq /\ Text(a)["kind"] = a.kind /\ Text(a)["hash"] = a.hash
      /\ Text(a)["prev"] = a.prev /\ Text(a)["payload"] = Canonical(a.payload)
  BY <1>3 DEF Text
<1>7. /\ Text(b)["seq"] = b.seq /\ Text(b)["kind"] = b.kind /\ Text(b)["hash"] = b.hash
      /\ Text(b)["prev"] = b.prev /\ Text(b)["payload"] = Canonical(b.payload)
  BY <1>4 DEF Text
<1>8. /\ a.seq = b.seq /\ a.kind = b.kind /\ Canonical(a.payload) = Canonical(b.payload)
      /\ a.hash = b.hash /\ a.prev = b.prev
  BY <1>5, <1>6, <1>7
<1> QED
  BY <1>8 DEF a, b, Chained

\* What the chain is made of, field by field.
LEMMA ChainedTells ==
  ASSUME NEW a, NEW b
  PROVE  Chained(a) = Chained(b) <=>
           /\ a.seq = b.seq /\ a.kind = b.kind /\ Canonical(a.payload) = Canonical(b.payload)
           /\ a.hash = b.hash /\ Decoded(a.prev) = Decoded(b.prev)
BY DEF Chained

\* Equal spellings of two digests are of equal ones.
LEMMA HexTells ==
  ASSUME NEW a, NEW b
  PROVE  /\ Hex(a) = Hex(b) <=> a = b
         /\ Hex(a) # Absent => Decoded(Hex(a)) = a
BY DEF Hex, Decoded

\* Rows of which the chain sees no change, nor of the one before, hold.
LEMMA SameRowsHold ==
  ASSUME NEW p, Shaped(p), NEW i \in DOMAIN p.rows, SameRow(p, i),
         i # 1 => SameRow(p, i - 1)
  PROVE  RowHolds(p, i)
<1> DEFINE E == Exported
<1>1. i \in DOMAIN E.rows /\ p.workspace = E.workspace
  BY DEF SameRow
<1>2. /\ p.rows[i].seq = E.rows[i].seq /\ p.rows[i].kind = E.rows[i].kind
      /\ Canonical(p.rows[i].payload) = Canonical(E.rows[i].payload)
      /\ p.rows[i].hash = E.rows[i].hash
      /\ Decoded(p.rows[i].prev) = Decoded(E.rows[i].prev)
  BY ChainedTells DEF SameRow
<1>3. Content(p, i) = Content(E, i)
  BY <1>1, <1>2 DEF Content
<1>4. Before(p, i) = Before(E, i)
  <2>1. CASE i = 1
    BY <2>1 DEF Before
  <2>2. CASE i # 1
    <3>1. p.rows[i - 1].hash = E.rows[i - 1].hash
      BY <2>2, ChainedTells DEF SameRow
    <3> QED
      BY <2>2, <3>1 DEF Before
  <2> QED
    BY <2>1, <2>2
<1>5. RowHolds(E, i)
  BY <1>1, ExportedAssumption
<1> QED
  BY <1>2, <1>3, <1>4, <1>5 DEF RowHolds

\* What the chain says of the rows of the writer.
LEMMA ExportedRows ==
  /\ Shaped(Exported)
  /\ \A j \in DOMAIN Exported.rows :
       /\ RowHolds(Exported, j)
       /\ j \in Nat /\ j >= 1 /\ (j # 1 => j - 1 \in DOMAIN Exported.rows)
       /\ Decoded(Exported.rows[j].hash) # Absent
       /\ Decoded(Exported.rows[j].hash) = Digest(Before(Exported, j), Content(Exported, j))
<1>1. Shaped(Exported)
  BY ExportedAssumption
<1>2. ASSUME NEW j \in DOMAIN Exported.rows
      PROVE  /\ RowHolds(Exported, j)
             /\ j \in Nat /\ j >= 1 /\ (j # 1 => j - 1 \in DOMAIN Exported.rows)
             /\ Decoded(Exported.rows[j].hash) # Absent
  <2>1. j \in Nat /\ j >= 1 /\ (j # 1 => j - 1 \in DOMAIN Exported.rows)
    BY <1>1, RowShape
  <2>2. RowHolds(Exported, j) /\ Before(Exported, j + 1) # Absent
    BY ExportedAssumption
  <2>3. Before(Exported, j + 1) = Decoded(Exported.rows[j].hash)
    BY <2>1 DEF Before
  <2> QED
    BY <2>1, <2>2, <2>3
<1>3. ASSUME NEW j \in DOMAIN Exported.rows
      PROVE  Decoded(Exported.rows[j].hash) = Digest(Before(Exported, j), Content(Exported, j))
  <2>1. Exported.rows[j].hash = Hex(Digest(Before(Exported, j), Content(Exported, j)))
    BY <1>2 DEF RowHolds
  <2>2. Exported.rows[j].hash # Absent
    BY <1>2 DEF Decoded
  <2> QED
    BY <2>1, <2>2, HexTells
<1> QED
  BY <1>1, <1>2, <1>3

\* Unless it was hashed anew, a row that holds after one of which the chain sees no
\* change has not changed either, as far as the chain sees.
LEMMA HoldingRowsAreSame ==
  ASSUME NEW p, Shaped(p), ~Rehashed(p),
         NEW m \in DOMAIN p.rows, RowHolds(p, m), m # 1 => SameRow(p, m - 1)
  PROVE  SameRow(p, m)
<1> DEFINE E == Exported
<1>1. m \in Nat /\ m >= 1
  BY RowShape
<1>2. PICK j \in DOMAIN E.rows : Decoded(p.rows[m].hash) = Decoded(E.rows[j].hash)
  BY DEF Rehashed
<1>3. RowHolds(E, j) /\ j \in Nat /\ j >= 1
  BY ExportedRows
<1>4. Before(p, m) = Before(E, j) /\ Content(p, m) = Content(E, j)
  <2>1. p.rows[m].hash = Hex(Digest(Before(p, m), Content(p, m)))
    BY DEF RowHolds
  <2>2. p.rows[m].hash # Absent
    BY <1>2, ExportedRows DEF Decoded
  <2>3. Digest(Before(p, m), Content(p, m)) = Digest(Before(E, j), Content(E, j))
    BY <1>2, <2>1, <2>2, HexTells, ExportedRows
  <2> QED
    BY <2>3, DigestTells
<1>5. p.rows[m].hash = E.rows[j].hash
  BY <1>3, <1>4 DEF RowHolds
<1>6. m = j
  <2>1. CASE m = 1
    <3>1. Before(E, j) = Absent
      BY <1>4, <2>1 DEF Before
    <3> QED
      BY <2>1, <3>1, ExportedRows DEF Before
  <2>2. CASE m # 1
    <3>1. SameRow(p, m - 1)
      BY <2>2
    <3>2. m - 1 \in DOMAIN E.rows /\ p.rows[m - 1].hash = E.rows[m - 1].hash
      BY <3>1, ChainedTells DEF SameRow
    <3>3. Before(E, j) = Decoded(E.rows[m - 1].hash)
      BY <1>4, <2>2, <3>2 DEF Before
    <3>4. j # 1
      BY <3>2, <3>3, ExportedRows DEF Before
    <3>5. j - 1 \in DOMAIN E.rows
      BY <3>4, ExportedRows
    <3>6. Decoded(E.rows[j - 1].hash) = Decoded(E.rows[m - 1].hash)
      BY <3>3, <3>4 DEF Before
    <3>7. Content(E, j - 1) = Content(E, m - 1)
      <4>1. Digest(Before(E, j - 1), Content(E, j - 1)) = Digest(Before(E, m - 1), Content(E, m - 1))
        BY <3>2, <3>5, <3>6, ExportedRows
      <4> QED
        BY <4>1, DigestTells
    <3>8. E.rows[j - 1].seq = E.rows[m - 1].seq
      BY <3>7 DEF Content
    <3>9. j - 1 = m - 1
      BY <3>2, <3>5, <3>8, ExportedAssumption
    <3> QED
      BY <1>1, <1>3, <3>9
  <2> QED
    BY <2>1, <2>2
<1>7. /\ p.workspace = E.workspace /\ p.rows[m].kind = E.rows[m].kind
      /\ Canonical(p.rows[m].payload) = Canonical(E.rows[m].payload)
      /\ p.rows[m].seq = E.rows[m].seq
  BY <1>4, <1>6 DEF Content
<1>8. Decoded(p.rows[m].prev) = Decoded(E.rows[m].prev)
  BY <1>3, <1>4, <1>6 DEF RowHolds
<1>9. Chained(p.rows[m]) = Chained(E.rows[m])
  BY <1>5, <1>6, <1>7, <1>8, ChainedTells
<1> QED
  BY <1>6, <1>7, <1>9 DEF SameRow

\* Unless rows were hashed anew, the walk ends where the first change is.
LEMMA FirstBreakIsFirstChange ==
  ASSUME NEW p, Shaped(p), ~Rehashed(p)
  PROVE  /\ Changed(p) = {} <=> Breaks(p) = {}
         /\ Changed(p) # {} => Min(Breaks(p)) = Min(Changed(p))
<1>1. Changed(p) \subseteq Nat /\ Breaks(p) \subseteq Nat
  BY RowShape DEF Changed, Breaks
<1>2. ASSUME NEW m \in DOMAIN p.rows, \A i \in Changed(p) : m <= i
      PROVE  \A i \in DOMAIN p.rows : i < m => SameRow(p, i) /\ RowHolds(p, i)
  <2>1. \A i \in DOMAIN p.rows : i < m => SameRow(p, i)
    BY <1>1, <1>2, RowShape DEF Changed
  <2>2. ASSUME NEW i \in DOMAIN p.rows, i < m
        PROVE  RowHolds(p, i)
    <3>1. i # 1 => i - 1 \in DOMAIN p.rows /\ i - 1 < m
      BY <2>2, RowShape
    <3>2. SameRow(p, i) /\ (i # 1 => SameRow(p, i - 1))
      BY <2>1, <2>2, <3>1
    <3> QED
      BY <3>2, SameRowsHold
  <2> QED
    BY <2>1, <2>2
<1>3. ASSUME Changed(p) # {}
      PROVE  Breaks(p) # {} /\ Min(Breaks(p)) = Min(Changed(p))
  <2> DEFINE m == Min(Changed(p))
             b == Min(Breaks(p))
  <2>1. m \in Changed(p) /\ \A i \in Changed(p) : m <= i
    BY <1>1, <1>3, LeastNumber
  <2> HIDE DEF m
  <2>2. m \in DOMAIN p.rows /\ ~SameRow(p, m)
    BY <2>1 DEF Changed
  <2>3. \A i \in DOMAIN p.rows : i < m => SameRow(p, i) /\ RowHolds(p, i)
    BY <1>2, <2>1, <2>2
  <2>4. m # 1 => SameRow(p, m - 1)
    <3>1. m # 1 => m - 1 \in DOMAIN p.rows /\ m - 1 < m
      BY <2>2, RowShape
    <3> QED
      BY <2>3, <3>1
  <2>5. m \in Breaks(p)
    BY <2>2, <2>4, HoldingRowsAreSame DEF Breaks
  <2>6. b \in Breaks(p) /\ b <= m
    BY <1>1, <2>5, LeastNumber
  <2> HIDE DEF b
  <2>7. ~(b < m)
    BY <2>3, <2>6 DEF Breaks
  <2>8. b = m
    BY <1>1, <2>1, <2>6, <2>7
  <2> QED
    BY <2>5, <2>8 DEF b, m
<1>4. ASSUME Changed(p) = {}
      PROVE  Breaks(p) = {}
  <2> SUFFICES ASSUME NEW i \in DOMAIN p.rows
               PROVE  RowHolds(p, i)
    BY DEF Breaks
  <2>1. i # 1 => i - 1 \in DOMAIN p.rows
    BY RowShape
  <2>2. SameRow(p, i) /\ (i # 1 => SameRow(p, i - 1))
    BY <1>4, <2>1 DEF Changed
  <2> QED
    BY <2>2, SameRowsHold
<1> QED
  BY <1>3, <1>4

\* The manifest is made of the text of the pack and of nothing else.
LEMMA ManifestTells ==
  ASSUME NEW p, Shaped(p), NEW q, Shaped(q)
  PROVE  Manifest(p) = Manifest(q) <=>
           /\ p.workspace = q.workspace /\ p.batches = q.batches
           /\ Canonical(p.rest) = Canonical(q.rest)
           /\ Len(p.rows) = Len(q.rows)
           /\ \A i \in DOMAIN p.rows : Text(p.rows[i]) = Text(q.rows[i])
<1> DEFINE P == [i \in DOMAIN p.rows |-> Text(p.rows[i])]
           Q == [i \in DOMAIN q.rows |-> Text(q.rows[i])]
<1>1. /\ Manifest(p) = <<"sha256", p.workspace, P, p.batches, Canonical(p.rest)>>
      /\ Manifest(q) = <<"sha256", q.workspace, Q, q.batches, Canonical(q.rest)>>
  BY Zenon DEF Manifest
<1>2. /\ Len(p.rows) \in Nat /\ DOMAIN p.rows = 1..Len(p.rows)
      /\ Len(q.rows) \in Nat /\ DOMAIN q.rows = 1..Len(q.rows)
  BY RowShape
<1>3. DOMAIN P = DOMAIN p.rows /\ DOMAIN Q = DOMAIN q.rows
  OBVIOUS
<1>4. ASSUME P = Q
      PROVE  /\ Len(p.rows) = Len(q.rows)
             /\ \A i \in DOMAIN p.rows : Text(p.rows[i]) = Text(q.rows[i])
  <2>1. DOMAIN p.rows = DOMAIN q.rows
    BY <1>3, <1>4
  <2>2. Len(p.rows) = Len(q.rows)
    BY <1>2, <2>1
  <2>3. ASSUME NEW i \in DOMAIN p.rows
        PROVE  Text(p.rows[i]) = Text(q.rows[i])
    <3>1. P[i] = Text(p.rows[i]) /\ Q[i] = Text(q.rows[i])
      BY <2>1
    <3> QED
      BY <1>4, <3>1
  <2> QED
    BY <2>2, <2>3
<1>5. ASSUME /\ Len(p.rows) = Len(q.rows)
             /\ \A i \in DOMAIN p.rows : Text(p.rows[i]) = Text(q.rows[i])
      PROVE  P = Q
  <2>1. DOMAIN p.rows = DOMAIN q.rows
    BY <1>2, <1>5
  <2> QED
    BY <1>5, <2>1
<1> HIDE DEF P, Q
<1>6. Manifest(p) = Manifest(q) <=>
        /\ p.workspace = q.workspace /\ P = Q /\ p.batches = q.batches
        /\ Canonical(p.rest) = Canonical(q.rest)
  BY <1>1
<1> QED
  BY <1>4, <1>5, <1>6

\* SameText is equality of what the manifest is made of, and then the chain sees no
\* change.
LEMMA SameTextIsManifest ==
  ASSUME NEW p, Shaped(p)
  PROVE  /\ SameText(p) <=> Manifest(p) = Manifest(Exported)
         /\ SameText(p) => Changed(p) = {}
<1>1. Shaped(Exported)
  BY ExportedAssumption
<1>2. SameText(p) <=> Manifest(p) = Manifest(Exported)
  BY <1>1, ManifestTells DEF SameText
<1>3. ASSUME SameText(p), NEW i \in DOMAIN p.rows
      PROVE  SameRow(p, i)
  <2>1. i \in DOMAIN Exported.rows
    BY <1>1, <1>3, RowShape DEF SameText
  <2>2. Chained(p.rows[i]) = Chained(Exported.rows[i])
    BY <1>1, <1>3, <2>1, SameFields DEF SameText
  <2> QED
    BY <1>3, <2>1, <2>2 DEF SameRow, SameText
<1> QED
  BY <1>2, <1>3 DEF Changed

\* As many batch signatures are verified as there are batches at most.
LEMMA CountOfSignatures ==
  ASSUME NEW p, Shaped(p), NEW T, T \subseteq DOMAIN p.batches
  PROVE  /\ Cardinality(T) \in Nat /\ Cardinality(T) <= Len(p.batches)
         /\ Cardinality(DOMAIN p.batches) = Len(p.batches)
<1>1. Len(p.batches) \in Nat /\ DOMAIN p.batches = 1..Len(p.batches)
  BY DEF Shaped
<1>2. IsFiniteSet(1..Len(p.batches)) /\ Cardinality(1..Len(p.batches)) = Len(p.batches)
  BY <1>1, FS_Interval
<1>3. IsFiniteSet(T) /\ Cardinality(T) <= Cardinality(1..Len(p.batches))
  BY <1>1, <1>2, FS_Subset
<1> QED
  BY <1>1, <1>2, <1>3, FS_CardinalityType

\* With the writer's key, only what the writer signed is valid.
LEMMA ValidIsExported ==
  ASSUME NEW p, Shaped(p), Unforged(p), p.key = Exported.key, Valid(p)
  PROVE  SameText(p)
<1> DEFINE T == {i \in DOMAIN p.batches : Signs(p.batches[i].signature, p.key, Decoded(p.batches[i].root))}
           signed == Signs(p.signature, p.key, Manifest(p))
<1>1. p.key # Absent
  BY ExportedAssumption
<1>2. Cardinality(T) + (IF signed THEN 1 ELSE 0) = Len(p.batches) + 1
  BY <1>1 DEF Valid, VerifiedSignatures
<1>3. T \subseteq DOMAIN p.batches
  OBVIOUS
<1> HIDE DEF T
<1>4. Cardinality(T) \in Nat /\ Cardinality(T) <= Len(p.batches) /\ Len(p.batches) \in Nat
  BY <1>3, CountOfSignatures DEF Shaped
<1>5. signed
  <2> HIDE DEF signed
  <2> QED
    BY <1>2, <1>4
<1>6. Sign(Exported.key, Manifest(p)) = Sign(Exported.key, Manifest(Exported))
  BY <1>5, ExportedAssumption DEF Unforged, Signs
<1>7. Manifest(p) = Manifest(Exported)
  BY <1>6 DEF Sign
<1> QED
  BY <1>7, SameTextIsManifest

\* What the writer signed is valid, with its key or without one.
LEMMA ExportedIsValid ==
  ASSUME NEW p, Shaped(p), p.key \in {Exported.key, Absent}, SameText(p),
         p.manifest = Exported.manifest, Decoded(p.signature) = Decoded(Exported.signature)
  PROVE  Valid(p)
<1>1. Manifest(p) = Manifest(Exported)
  BY SameTextIsManifest
<1>2. p.manifest = Manifest(p)
  BY <1>1, ExportedAssumption
<1>3. Breaks(p) = {}
  <2> SUFFICES ASSUME NEW i \in DOMAIN p.rows
               PROVE  RowHolds(p, i)
    BY DEF Breaks
  <2>1. i # 1 => i - 1 \in DOMAIN p.rows
    BY RowShape
  <2>2. SameRow(p, i) /\ (i # 1 => SameRow(p, i - 1))
    BY <2>1, SameTextIsManifest DEF Changed
  <2> QED
    BY <2>2, SameRowsHold
<1>4. ASSUME p.key = Exported.key
      PROVE  VerifiedSignatures(p) = Len(p.batches) + 1
  <2> DEFINE T == {i \in DOMAIN p.batches : Signs(p.batches[i].signature, p.key, Decoded(p.batches[i].root))}
  <2>1. p.batches = Exported.batches /\ p.key # Absent
    BY <1>4, ExportedAssumption DEF SameText
  <2>2. T = DOMAIN p.batches
    BY <1>4, <2>1, ExportedAssumption
  <2>3. Signs(p.signature, p.key, Manifest(p))
    BY <1>1, <1>4, ExportedAssumption DEF Signs
  <2>4. Cardinality(DOMAIN p.batches) = Len(p.batches)
    BY CountOfSignatures
  <2>5. VerifiedSignatures(p) = Cardinality(T) + 1
    BY <2>1, <2>3 DEF VerifiedSignatures
  <2> HIDE DEF T
  <2> QED
    BY <2>2, <2>4, <2>5
<1> QED
  BY <1>2, <1>3, <1>4 DEF Valid

\* The verdict on any pack that can be sent.
LEMMA Exact ==
  ASSUME NEW p \in Packs
  PROVE  VerdictIsExact(p, AuditVerdict(p))
<1> DEFINE v == AuditVerdict(p)
<1>1. SUFFICES ASSUME v.error = "none"
               PROVE  VerdictIsExact(p, v)
  BY DEF VerdictIsExact
<1>2. AuditError(p) = "none"
  BY <1>1 DEF AuditVerdict
<1>3. p.object /\ ~Throws(p)
  BY <1>2 DEF AuditError
<1>4. Shaped(p) /\ Unforged(p)
  BY <1>3, PacksAssumption
<1>5. p.key \in {Exported.key, Absent}
  BY <1>3, <1>4 DEF Throws, Unforged
<1>6. v.valid = Valid(p) /\ v.brokenAt = BrokenAtRow(p)
  BY <1>2 DEF AuditVerdict
<1> HIDE DEF v
<1>7. v.valid /\ (p.key # Absent \/ p.manifest = Exported.manifest) => SameText(p)
  <2>1. v.valid /\ p.key # Absent => SameText(p)
    BY <1>4, <1>5, <1>6, ValidIsExported
  <2>2. v.valid /\ p.manifest = Exported.manifest => Manifest(p) = Manifest(Exported)
    BY <1>6, ExportedAssumption DEF Valid
  <2> QED
    BY <1>4, <2>1, <2>2, SameTextIsManifest
<1>8. v.valid /\ ~Rehashed(p) => Changed(p) = {}
  BY <1>4, <1>6, FirstBreakIsFirstChange DEF Valid
<1>9. (/\ SameText(p) /\ p.manifest = Exported.manifest
       /\ Decoded(p.signature) = Decoded(Exported.signature)) => v.valid
  BY <1>4, <1>5, <1>6, ExportedIsValid
<1>10. ASSUME ~Rehashed(p)
       PROVE  v.brokenAt = IF Changed(p) = {} THEN Absent ELSE Decoded(p.rows[Min(Changed(p))].seq)
  BY <1>4, <1>6, <1>10, FirstBreakIsFirstChange DEF BrokenAtRow
<1> QED
  BY <1>7, <1>8, <1>9, <1>10 DEF VerdictIsExact

\* An answer about a pack is the verdict on that pack.
Told == \A c \in Calls : Answered(c) /\ call[c].args \in Packs => call[c].result = AuditVerdict(call[c].args)

LEMMA TellingGoesOn == Inv /\ Told /\ [Next]_vars => Told'
<1> SUFFICES ASSUME Inv, Told, [Next]_vars, NEW d \in Calls, Answered(d)', call'[d].args \in Packs
             PROVE  call'[d].result = AuditVerdict(call'[d].args)
  BY DEF Told, Answered
<1>1. CASE call'[d] = call[d]
  BY <1>1 DEF Told, Answered
<1>2. ASSUME NEW c \in Calls, Verify(c), call'[d] # call[d]
      PROVE  call'[d].result = AuditVerdict(call'[d].args)
  BY <1>2 DEF Verify, Answer, Inv, TypeOK
<1>3. ASSUME NEW c \in Calls, Step(c), call'[d] # call[d]
      PROVE  call'[d].args \in Inputs
  <2>1. call[c].at \in {"gate", "parse", "evaluate"}
    BY <1>3 DEF Step, Gate, Parse, AwaitRules, Evaluate
  <2>2. call[c].args \in Inputs /\ c \in DOMAIN call
    BY <2>1 DEF Inv, TypeOK, CallInv
  <2>3. \A value : call' = [call EXCEPT ![c] = value] => call'[d] = value
    BY <1>3, <2>2
  <2>4. PICK value : value.args = call[c].args /\ call' = [call EXCEPT ![c] = value]
    BY <1>3 DEF Step, Gate, Parse, AwaitRules, Evaluate, Answer
  <2> QED
    BY <2>2, <2>3, <2>4
<1>4. ASSUME NEW c \in Calls, Request(c), call'[d] # call[d]
      PROVE  call'[d].args \in Inputs
  BY <1>4 DEF Request, Inv, TypeOK
<1>5. CASE UNCHANGED call
  BY <1>1, <1>5
<1>6. Boot \/ Close \/ Reinstall \/ (\E l \in Languages : Load(l)) \/ UNCHANGED vars => UNCHANGED call
  BY DEF Boot, Close, Reinstall, Load, vars
<1> QED
  BY <1>1, <1>2, <1>3, <1>4, <1>5, <1>6, InputsAssumption DEF Next

\* verify_audit_chain: with the key in the pack or its old manifest hash only the
\* exported text is valid, and a change of what the chain is made of that was not
\* hashed anew is found at the first row it touches, for packs of any length.
THEOREM VerdictsAreExact == Spec => []ChainVerdictIsExact
<1>1. Init => Told
  BY DEF Init, Told, Answered, Idle
<1>2. Told => ChainVerdictIsExact
  BY Exact DEF Told, ChainVerdictIsExact
<1> QED
  BY <1>1, <1>2, Invariance, TellingGoesOn, PTL DEF Spec
=============================================================================
