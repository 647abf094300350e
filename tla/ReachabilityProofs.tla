------------------------- MODULE ReachabilityProofs -------------------------
(***************************************************************************)
(* What computeReachableSymbols guarantees for any files, any depth and    *)
(* any cap: the search stays within its bounds, reports a name once,       *)
(* reports nothing without a chain of calls from the handler to it, and,   *)
(* where a name has one meaning, reports each with its least distance and  *)
(* misses nothing below the cap.                                           *)
(*                                                                         *)
(* CallChain is not inductive: that a symbol is properly reported depends  *)
(* on where the symbols still to be recorded, and those still to be        *)
(* expanded, come from.  IInv says so of all three lists.  Search adds     *)
(* what has been recorded already and why nothing nearer is missing.       *)
(***************************************************************************)
EXTENDS Reachability, NaturalsInduction, WellFoundedInduction, TLAPS

(* What every binding is, and hence what a target's calls are.             *)
BoundOK == \A f \in Files, n \in Names : bound[f][n] \in Bindings(f, n)
HandlerOK == handler \in Seq(Names)

(* A list of calls makes a list of symbols.                                *)
LEMMA FoundType ==
  ASSUME NEW f \in Files, NEW calls \in Seq(Names)
  PROVE  /\ Found(f, calls) \in Seq(Symbol)
         /\ \A i \in DOMAIN Found(f, calls) :
              /\ Found(f, calls)[i].file = f
              /\ Found(f, calls)[i].name \in Range(calls)
<1>1. Found(f, calls) = [i \in 1 .. Len(calls) |-> [name |-> calls[i], file |-> f]]
  BY DEF Found
<1>2. \A i \in 1 .. Len(calls) : [name |-> calls[i], file |-> f] \in Symbol
  BY DEF Symbol
<1>3. Found(f, calls) \in Seq(Symbol)
  BY <1>1, <1>2
<1>4. \A i \in DOMAIN calls : calls[i] \in Range(calls)
  BY DEF Range
<1>5. QED
  BY <1>1, <1>3, <1>4

(* Bindings that are functions have lists of names for calls, and those    *)
(* that are imports lead to other files.                                   *)
LEMMA BindingShape ==
  ASSUME NEW f \in Files, NEW n \in Names, NEW b \in Bindings(f, n)
  PROVE  /\ b.kind = "function" => b.calls \in Seq(Names)
         /\ b.kind \in {"named", "default"} => b.file \in Files /\ b.name \in Names
         /\ b.kind = "named" => b.name = n
<1>1. CASE b = Free
  BY <1>1 DEF Free
<1>2. CASE \E c \in Calls : b = Defined(c)
  BY <1>2, CallsAssumption DEF Defined
<1>3. ASSUME NEW k \in Imports \cap {"default"}, NEW g \in Files, NEW m \in Names,
             b = Import(k, g, m)
      PROVE  b.kind = "default" /\ b.file \in Files /\ b.name \in Names
  BY <1>3 DEF Import
<1>4. ASSUME NEW k \in Imports \cap {"named"}, NEW g \in Files, b = Import(k, g, n)
      PROVE  b.kind = "named" /\ b.file \in Files /\ b.name = n
  BY <1>4 DEF Import
<1>5. QED
  BY <1>1, <1>2, <1>3, <1>4 DEF Bindings

(* A target is a function of a parsed file.                                *)
LEMMA TargetShape ==
  ASSUME BoundOK, NEW f \in Files, NEW n \in Names, NEW t \in Target(f, n)
  PROVE  t[1] \in Files /\ t[2] \in Names /\ bound[t[1]][t[2]].calls \in Seq(Names)
<1>1. bound[f][n] \in Bindings(f, n)
  BY DEF BoundOK
<1>2. CASE IsImported(f, n)
  <2>1. bound[f][n].file \in Files /\ bound[f][n].name \in Names
    BY <1>1, <1>2, BindingShape DEF IsImported
  <2>2. ExportedName(f, n) \in Names
    BY <2>1 DEF ExportedName
  <2>3. t = <<bound[f][n].file, ExportedName(f, n)>> /\ IsFunction(t[1], t[2])
    BY <1>2 DEF Target
  <2>4. QED
    BY <2>1, <2>2, <2>3, BindingShape DEF BoundOK, IsFunction
<1>3. CASE ~IsImported(f, n)
  <2>1. t = <<f, n>> /\ IsFunction(f, n)
    BY <1>3 DEF Target
  <2>2. QED
    BY <2>1, <1>1, BindingShape DEF IsFunction
<1>4. QED
  BY <1>2, <1>3

(* The code follows a name to what it means unless an import renames it.   *)
LEMMA TargetIsMeaning ==
  ASSUME SpelledAlike, NEW f \in Files, NEW n \in Names
  PROVE  Target(f, n) = Meaning(f, n)
<1>1. bound[f][n].kind # "default"
  BY DEF SpelledAlike
<1>2. QED
  BY <1>1 DEF Target, Meaning, ExportedName

(* Expanding a symbol gives symbols of the target's file that it calls.    *)
LEMMA ExpandShape ==
  ASSUME BoundOK, NEW s \in Symbol
  PROVE  /\ Expand(s) \in Seq(Symbol)
         /\ \A i \in DOMAIN Expand(s) : \E t \in Target(s.file, s.name) :
              /\ Expand(s)[i].file = t[1]
              /\ Expand(s)[i].name \in Range(bound[t[1]][t[2]].calls)
<1> s.file \in Files /\ s.name \in Names
  BY DEF Symbol
<1>1. CASE Target(s.file, s.name) = {}
  BY <1>1 DEF Expand
<1>2. CASE Target(s.file, s.name) # {}
  <2> DEFINE t == CHOOSE t \in Target(s.file, s.name) : TRUE
  <2>1. t \in Target(s.file, s.name)
    BY <1>2
  <2>2. t[1] \in Files /\ bound[t[1]][t[2]].calls \in Seq(Names)
    BY <2>1, TargetShape
  <2>3. Expand(s) = Found(t[1], bound[t[1]][t[2]].calls)
    BY <1>2 DEF Expand
  <2> HIDE DEF t
  <2>4. QED
    BY <2>1, <2>2, <2>3, FoundType
<1>3. QED
  BY <1>1, <1>2

-----------------------------------------------------------------------------
(* Types and the cap.                                                      *)

TypeInv == TypeOK /\ BoundOK /\ HandlerOK /\ done \in BOOLEAN

LEMMA InitType == Init => TypeInv
<1> SUFFICES ASSUME Init PROVE TypeInv
  OBVIOUS
<1>1. HandlerOK /\ BoundOK
  BY CallsAssumption DEF Init, Projects, Bound, HandlerOK, BoundOK
<1>2. todo \in Seq(Symbol)
  BY <1>1, HandlerFileAssumption, FoundType DEF Init, HandlerOK
<1>3. hop \in 1 .. MaxDepth
  BY DepthAssumption DEF Init
<1>4. /\ out \in Seq([name : Names, file : Files, hops : 1 .. MaxDepth])
      /\ frontier \in Seq(Symbol) /\ next \in Seq(Symbol)
  BY DEF Init
<1>5. cap \in Caps
  BY DEF Init
<1>6. visited \subseteq Names /\ done \in BOOLEAN
  BY DEF Init
<1>7. QED
  BY <1>1, <1>2, <1>3, <1>4, <1>5, <1>6 DEF TypeInv, TypeOK

LEMMA NextType == TypeInv /\ [Next]_vars => TypeInv'
<1> SUFFICES ASSUME TypeInv, [Next]_vars PROVE TypeInv'
  OBVIOUS
<1> USE DEF TypeInv, TypeOK
<1>1. CASE Record
  <2> DEFINE s == Head(todo)
  <2>0. s \in Symbol
    BY <1>1 DEF Record
  <2>1. s.name \in Names /\ s.file \in Files
    BY <2>0 DEF Symbol
  <2>2. [name |-> s.name, file |-> s.file, hops |-> hop]
          \in [name : Names, file : Files, hops : 1 .. MaxDepth]
    BY <2>1
  <2>3. out' \in Seq([name : Names, file : Files, hops : 1 .. MaxDepth])
    BY <1>1, <2>2 DEF Record
  <2>4. visited' \subseteq Names /\ next' \in Seq(Symbol) /\ todo' \in Seq(Symbol)
    BY <1>1, <2>0, <2>1 DEF Record
  <2>5. QED
    BY <1>1, <2>3, <2>4 DEF Record, project, BoundOK, HandlerOK, Bindings
<1>2. CASE Drop
  BY <1>2 DEF Drop, project, BoundOK, HandlerOK, Bindings
<1>3. CASE ExpandNext
  <2>1. Head(frontier) \in Symbol
    BY <1>3 DEF ExpandNext
  <2>2. todo' \in Seq(Symbol)
    BY <1>3, <2>1, ExpandShape DEF ExpandNext
  <2>3. QED
    BY <1>3, <2>2 DEF ExpandNext, project, BoundOK, HandlerOK, Bindings
<1>4. CASE NextHop
  <2>1. hop' \in 1 .. MaxDepth
    BY <1>4, DepthAssumption DEF NextHop, LastHop
  <2>2. QED
    BY <1>4, <2>1 DEF NextHop, project, BoundOK, HandlerOK, Bindings
<1>5. CASE Return
  BY <1>5 DEF Return, project, BoundOK, HandlerOK, Bindings
<1>6. CASE UNCHANGED vars
  BY <1>6 DEF vars, BoundOK, HandlerOK, Bindings
<1>7. QED
  BY <1>1, <1>2, <1>3, <1>4, <1>5, <1>6 DEF Next

(* The search never goes deeper than MaxDepth and its lists hold symbols   *)
(* of parsed files only.                                                   *)
THEOREM TypeCorrect == Spec => []TypeOK
<1>1. TypeInv => TypeOK
  BY DEF TypeInv
<1>2. QED
  BY InitType, NextType, <1>1, PTL DEF Spec

-----------------------------------------------------------------------------
(* A name is taken once.                                                   *)

Once ==
  /\ TakenOnce
  /\ \A i \in DOMAIN out : out[i].name \in visited

LEMMA OnceStep == TypeInv /\ Once /\ [Next]_vars => Once'
<1> SUFFICES ASSUME TypeInv, Once, [Next]_vars PROVE Once'
  OBVIOUS
<1>1. CASE Record
  <2> DEFINE e == [name |-> Head(todo).name, file |-> Head(todo).file, hops |-> hop]
  <2>1. out' = Append(out, e) /\ visited' = visited \cup {e.name}
    BY <1>1 DEF Record
  <2>2. e.name \notin visited /\ Len(out) < cap
    BY <1>1 DEF Record, Fresh
  <2> HIDE DEF e
  <2>3. out \in Seq([name : Names, file : Files, hops : 1 .. MaxDepth])
    BY DEF TypeInv, TypeOK
  <2>4. /\ Len(out') = Len(out) + 1 /\ Len(out) \in Nat
        /\ DOMAIN out' = 1 .. Len(out) + 1 /\ DOMAIN out = 1 .. Len(out)
        /\ out'[Len(out) + 1] = e
        /\ \A i \in DOMAIN out : out'[i] = out[i]
    BY <2>1, <2>3
  <2>5. \A i \in DOMAIN out : out[i].name # e.name
    BY <2>2 DEF Once
  <2>6. \A i, j \in DOMAIN out' : out'[i].name = out'[j].name => i = j
    BY <2>4, <2>5 DEF Once, TakenOnce
  <2>7. Len(out') <= cap'
    <3>1. cap' = cap
      BY <1>1 DEF Record, project
    <3>2. cap \in Nat
      BY DepthAssumption DEF TypeInv, TypeOK
    <3>3. QED
      BY <3>1, <3>2, <2>2, <2>4
  <2>8. \A i \in DOMAIN out' : out'[i].name \in visited'
    BY <2>1, <2>4 DEF Once
  <2>9. QED
    BY <2>6, <2>7, <2>8 DEF Once, TakenOnce
<1>2. CASE UNCHANGED <<visited, out, cap>>
  BY <1>2 DEF Once, TakenOnce
<1>3. QED
  BY <1>1, <1>2 DEF Next, Drop, ExpandNext, NextHop, Return, vars, project

LEMMA OnceStarts == Init => Once
<1>1. Init => out = <<>> /\ cap \in Nat
  BY DepthAssumption DEF Init
<1>2. QED
  BY <1>1 DEF Once, TakenOnce

(* However calls go in circles, no name is reported twice and the cap      *)
(* bounds the symbols reported.                                            *)
THEOREM OnceEach == Spec => []TakenOnce
<1>1. Once => TakenOnce
  BY DEF Once
<1>2. QED
  BY InitType, NextType, OnceStarts, OnceStep, <1>1, PTL DEF Spec

-----------------------------------------------------------------------------
(* Nothing is reported without a chain of calls.                           *)

(* A reported symbol whose meaning is this function.                       *)
CalledFrom(s, h) ==
  \E j \in DOMAIN out :
    /\ out[j].hops + 1 = h
    /\ \E t \in Meaning(out[j].file, out[j].name) :
         s.file = t[1] /\ s.name \in Range(bound[t[1]][t[2]].calls)

Chained(s, h) ==
  \/ h = 1 /\ s.file = HandlerFile /\ s.name \in Range(handler)
  \/ CalledFrom(s, h)

Reported(s, h) ==
  \E j \in DOMAIN out : out[j].name = s.name /\ out[j].file = s.file /\ out[j].hops = h

Chain == \A i \in DOMAIN out : HasCaller(i)

(* What waits to be recorded has a chain for this hop; what waits to be    *)
(* expanded was reported at the hop before; what will be, at this one.     *)
TodoOK == \A i \in DOMAIN todo : Chained(todo[i], hop)
FrontierOK == \A i \in DOMAIN frontier : Reported(frontier[i], hop - 1)
NextOK == \A i \in DOMAIN next : Reported(next[i], hop)

IInv == Chain /\ TodoOK /\ FrontierOK /\ NextOK

(* What holds of a project and a report still holds of a longer report.    *)
LEMMA LongerReport ==
  ASSUME UNCHANGED project, NEW e, out \in Seq([name : Names, file : Files, hops : 1 .. MaxDepth]),
         out' = Append(out, e), NEW s, NEW h
  PROVE  /\ Chained(s, h) => Chained(s, h)'
         /\ Reported(s, h) => Reported(s, h)'
<1>1. DOMAIN out \subseteq DOMAIN out' /\ \A i \in DOMAIN out : out'[i] = out[i]
  OBVIOUS
<1>2. bound' = bound /\ handler' = handler
  BY DEF project
<1>3. \A f, n : Meaning(f, n)' = Meaning(f, n)
  BY <1>2 DEF Meaning, IsFunction, IsImported
<1>4. ASSUME CalledFrom(s, h) PROVE CalledFrom(s, h)'
  <2>1. PICK j \in DOMAIN out :
          /\ out[j].hops + 1 = h
          /\ \E t \in Meaning(out[j].file, out[j].name) :
               s.file = t[1] /\ s.name \in Range(bound[t[1]][t[2]].calls)
    BY <1>4 DEF CalledFrom
  <2>2. j \in DOMAIN out' /\ out'[j] = out[j]
    BY <1>1
  <2>3. QED
    BY <2>1, <2>2, <1>2, <1>3 DEF CalledFrom
<1>5. QED
  BY <1>1, <1>2, <1>4 DEF Chained, Reported

(* The steps that record nothing.                                          *)
LEMMA SameReport ==
  ASSUME UNCHANGED project, out' = out, NEW s, NEW h
  PROVE  /\ Chained(s, h)' = Chained(s, h)
         /\ Reported(s, h)' = Reported(s, h)
         /\ Chain' = Chain
<1>1. bound' = bound /\ handler' = handler
  BY DEF project
<1>2. \A f, n : Meaning(f, n)' = Meaning(f, n)
  BY <1>1 DEF Meaning, IsFunction, IsImported
<1>3. Chain' = Chain
  BY <1>1, <1>2 DEF Chain, HasCaller
<1>4. CalledFrom(s, h)' = CalledFrom(s, h)
  BY <1>1, <1>2 DEF CalledFrom
<1>5. Reported(s, h)' = Reported(s, h)
  BY DEF Reported
<1>6. QED
  BY <1>1, <1>3, <1>4, <1>5 DEF Chained

LEMMA RecordInv == TypeInv /\ IInv /\ Record => IInv'
<1> SUFFICES ASSUME TypeInv, IInv, Record PROVE IInv'
  OBVIOUS
<1> DEFINE s == Head(todo)
           e == [name |-> s.name, file |-> s.file, hops |-> hop]
<1>1. /\ out' = Append(out, e) /\ next' = Append(next, s) /\ todo' = Tail(todo)
      /\ todo # <<>> /\ UNCHANGED project /\ hop' = hop /\ frontier' = frontier
  BY DEF Record
<1>2. /\ out \in Seq([name : Names, file : Files, hops : 1 .. MaxDepth])
      /\ todo \in Seq(Symbol) /\ next \in Seq(Symbol)
  BY DEF TypeInv, TypeOK
<1>3. Chained(s, hop)
  BY <1>1, <1>2 DEF IInv, TodoOK
<1>4. /\ e.name = s.name /\ e.file = s.file /\ e.hops = hop
  OBVIOUS
<1> HIDE DEF s, e
<1>5. /\ Len(out) \in Nat /\ DOMAIN out = 1 .. Len(out)
      /\ DOMAIN out' = 1 .. Len(out) + 1
      /\ out'[Len(out) + 1] = e
      /\ \A i \in DOMAIN out : out'[i] = out[i]
  BY <1>1, <1>2
<1>6. bound' = bound /\ handler' = handler
  BY <1>1 DEF project
<1>7. \A f, n : Meaning(f, n)' = Meaning(f, n)
  BY <1>6 DEF Meaning, IsFunction, IsImported
<1>8. Chain'
  <2> SUFFICES ASSUME NEW i \in DOMAIN out'
               PROVE  \/ /\ out'[i].hops = 1 /\ out'[i].file = HandlerFile
                         /\ out'[i].name \in Range(handler)
                      \/ \E j \in 1 .. i - 1 :
                           /\ out'[j].hops + 1 = out'[i].hops
                           /\ \E t \in Meaning(out'[j].file, out'[j].name) :
                                /\ out'[i].file = t[1]
                                /\ out'[i].name \in Range(bound[t[1]][t[2]].calls)
    BY <1>6, <1>7 DEF Chain, HasCaller
  <2>1. CASE i \in DOMAIN out
    <3>1. \A j \in 1 .. i - 1 : out'[j] = out[j]
      BY <2>1, <1>5
    <3>2. out'[i] = out[i]
      BY <2>1, <1>5
    <3>3. QED
      BY <2>1, <3>1, <3>2 DEF IInv, Chain, HasCaller
  <2>2. CASE i = Len(out) + 1
    <3>1. out'[i] = e
      BY <2>2, <1>5
    <3>2. CASE hop = 1 /\ s.file = HandlerFile /\ s.name \in Range(handler)
      BY <3>1, <3>2, <1>4
    <3>3. CASE CalledFrom(s, hop)
      <4>1. PICK j \in DOMAIN out :
              /\ out[j].hops + 1 = hop
              /\ \E t \in Meaning(out[j].file, out[j].name) :
                   s.file = t[1] /\ s.name \in Range(bound[t[1]][t[2]].calls)
        BY <3>3 DEF CalledFrom
      <4>2. j \in 1 .. i - 1 /\ out'[j] = out[j]
        BY <2>2, <1>5
      <4>3. QED
        BY <3>1, <4>1, <4>2, <1>4
    <3>4. QED
      BY <3>2, <3>3, <1>3 DEF Chained
  <2>3. QED
    BY <1>5, <2>1, <2>2
<1>9. TodoOK'
  <2>1. \A i \in DOMAIN todo' : i + 1 \in DOMAIN todo /\ todo'[i] = todo[i + 1]
    BY <1>1, <1>2
  <2>2. \A i \in DOMAIN todo' : Chained(todo'[i], hop)
    BY <2>1 DEF IInv, TodoOK
  <2>3. QED
    BY <2>2, <1>1, <1>2, LongerReport DEF TodoOK
<1>10. FrontierOK'
  BY <1>1, <1>2, LongerReport DEF IInv, FrontierOK
<1>11. NextOK'
  <2>1. /\ DOMAIN next' = 1 .. Len(next) + 1 /\ DOMAIN next = 1 .. Len(next)
        /\ Len(next) \in Nat /\ next'[Len(next) + 1] = s
        /\ \A i \in DOMAIN next : next'[i] = next[i]
    BY <1>1, <1>2
  <2>2. \A x, h : Reported(x, h) => Reported(x, h)'
    BY <1>1, <1>2, LongerReport
  <2>3. \A x : x = s => Reported(x, hop)'
    BY <1>1, <1>4, <1>5 DEF Reported
  <2>4. ASSUME NEW i \in DOMAIN next' PROVE \A x : x = next'[i] => Reported(x, hop)'
    BY <2>1, <2>2, <2>3, <1>1 DEF IInv, NextOK
  <2>5. QED
    BY <2>4 DEF NextOK
<1>12. QED
  BY <1>8, <1>9, <1>10, <1>11 DEF IInv

LEMMA ExpandInv ==
  SpelledAlike /\ TypeInv /\ IInv /\ ExpandNext => IInv'
<1> SUFFICES ASSUME SpelledAlike, TypeInv, IInv, ExpandNext PROVE IInv'
  OBVIOUS
<1> DEFINE s == Head(frontier)
<1>1. /\ todo' = Expand(s) /\ frontier' = Tail(frontier) /\ frontier # <<>>
      /\ UNCHANGED project /\ out' = out /\ hop' = hop /\ next' = next
  BY DEF ExpandNext
<1>2. frontier \in Seq(Symbol) /\ BoundOK
  BY DEF TypeInv, TypeOK
<1>3. s \in Symbol /\ Reported(s, hop - 1)
  BY <1>1, <1>2 DEF IInv, FrontierOK
<1>4. s.file \in Files /\ s.name \in Names
  BY <1>3 DEF Symbol
<1>5. hop \in Nat
  BY DEF TypeInv, TypeOK
<1> HIDE DEF s
<1>6. \A i \in DOMAIN Expand(s) : CalledFrom(Expand(s)[i], hop)
  <2> SUFFICES ASSUME NEW i \in DOMAIN Expand(s) PROVE CalledFrom(Expand(s)[i], hop)
    OBVIOUS
  <2>1. PICK j \in DOMAIN out :
          out[j].name = s.name /\ out[j].file = s.file /\ out[j].hops = hop - 1
    BY <1>3 DEF Reported
  <2>2. \E t \in Meaning(s.file, s.name) :
          /\ Expand(s)[i].file = t[1]
          /\ Expand(s)[i].name \in Range(bound[t[1]][t[2]].calls)
    BY <1>2, <1>3, <1>4, ExpandShape, TargetIsMeaning
  <2>3. out[j].hops + 1 = hop
    BY <2>1, <1>5
  <2>4. QED
    BY <2>1, <2>2, <2>3 DEF CalledFrom
<1>7. TodoOK'
  BY <1>1, <1>6, SameReport DEF TodoOK, Chained
<1>8. FrontierOK'
  <2>1. \A i \in DOMAIN frontier' : i + 1 \in DOMAIN frontier /\ frontier'[i] = frontier[i + 1]
    BY <1>1, <1>2
  <2>2. QED
    BY <2>1, <1>1, SameReport DEF IInv, FrontierOK
<1>9. NextOK' /\ Chain'
  BY <1>1, SameReport DEF IInv, NextOK
<1>10. QED
  BY <1>7, <1>8, <1>9 DEF IInv

LEMMA StepInv ==
  SpelledAlike /\ TypeInv /\ IInv /\ [Next]_vars => IInv'
<1> SUFFICES ASSUME SpelledAlike, TypeInv, IInv, [Next]_vars PROVE IInv'
  OBVIOUS
<1>1. CASE Record
  BY <1>1, RecordInv
<1>2. CASE Drop
  <2>1. /\ todo' = Tail(todo) /\ todo # <<>> /\ UNCHANGED project
        /\ UNCHANGED <<out, hop, frontier, next>>
    BY <1>2 DEF Drop
  <2>2. todo \in Seq(Symbol)
    BY DEF TypeInv, TypeOK
  <2>3. \A i \in DOMAIN todo' : i + 1 \in DOMAIN todo /\ todo'[i] = todo[i + 1]
    BY <2>1, <2>2
  <2>4. TodoOK'
    BY <2>1, <2>3, SameReport DEF IInv, TodoOK
  <2>5. QED
    BY <2>1, <2>4, SameReport DEF IInv, FrontierOK, NextOK
<1>3. CASE ExpandNext
  BY <1>3, ExpandInv
<1>4. CASE NextHop
  <2>1. /\ todo' = todo /\ todo = <<>> /\ UNCHANGED project /\ out' = out
        /\ hop' = hop + 1 /\ frontier' = next /\ next' = <<>>
    BY <1>4 DEF NextHop
  <2>2. hop \in Nat /\ hop' - 1 = hop
    BY <2>1 DEF TypeInv, TypeOK
  <2>3. TodoOK' /\ NextOK'
    BY <2>1 DEF TodoOK, NextOK
  <2>4. FrontierOK'
    BY <2>1, <2>2, SameReport DEF IInv, NextOK, FrontierOK
  <2>5. QED
    BY <2>1, <2>3, <2>4, SameReport DEF IInv
<1>5. CASE Return
  BY <1>5, SameReport DEF Return, IInv, TodoOK, FrontierOK, NextOK
<1>6. CASE UNCHANGED vars
  BY <1>6, SameReport DEF vars, project, IInv, TodoOK, FrontierOK, NextOK
<1>7. QED
  BY <1>1, <1>2, <1>3, <1>4, <1>5, <1>6 DEF Next

LEMMA InitInv == Init => IInv
<1> SUFFICES ASSUME Init PROVE IInv
  OBVIOUS
<1>1. /\ todo = Found(HandlerFile, handler) /\ handler \in Seq(Names)
      /\ out = <<>> /\ frontier = <<>> /\ next = <<>> /\ hop = 1
  BY CallsAssumption DEF Init
<1>2. TodoOK
  BY <1>1, HandlerFileAssumption, FoundType DEF TodoOK, Chained
<1>3. QED
  BY <1>1, <1>2 DEF IInv, Chain, FrontierOK, NextOK

(* No step changes what the imports are.                                   *)
LEMMA SameSpelling == [Next]_vars => (SpelledAlike' => SpelledAlike)
<1> SUFFICES ASSUME [Next]_vars PROVE bound' = bound
  BY DEF SpelledAlike
<1>1. QED
  BY DEF Next, Record, Drop, ExpandNext, NextHop, Return, vars, project

(* Where imports keep the names of functions, nothing is reported that the *)
(* handler cannot call, over exactly as many hops as the report says.      *)
THEOREM Sound == Spec => []CallChain
<1> DEFINE Inv == SpelledAlike => IInv
<1>1. Init => Inv
  BY InitInv
<1>2. TypeInv /\ Inv /\ [Next]_vars => Inv'
  BY StepInv, SameSpelling
<1>3. Inv => CallChain
  BY DEF IInv, Chain, CallChain
<1> HIDE DEF Inv
<1>4. QED
  BY InitType, NextType, <1>1, <1>2, <1>3, PTL DEF Spec
-----------------------------------------------------------------------------
(* What is within so many hops.  The provers have no induction rule they   *)
(* can instantiate; a set of numbers that are exceptions has a least one,  *)
(* and that does as well.                                                  *)

(* A set of numbers has a least one.                                       *)
LEMMA LeastNumber ==
  ASSUME NEW S, S \subseteq Nat, S # {}
  PROVE  \E x \in S : \A y \in S : x <= y
<1> DEFINE R == OpToRel(<, Nat)
<1>1. IsWellFoundedOn(R, Nat)
  BY NatLessThanWellFounded
<1>2. \A x, y \in Nat : x < y => <<x, y>> \in R
  BY DEF OpToRel
<1> HIDE DEF R
<1>3. PICK x \in S : \A y \in S : ~(<<y, x>> \in R)
  BY <1>1, WFMin, Zenon
<1>4. ASSUME NEW y \in S PROVE x <= y
  <2>1. x \in Nat /\ y \in Nat /\ ~(y < x)
    BY <1>2, <1>3
  <2> QED
    BY <2>1
<1> QED
  BY <1>4

(* The calls the handler makes itself, and those one hop beyond a set.     *)
CallsOf(r) ==
  UNION {{<<t[1], c>> : c \in Range(bound[t[1]][t[2]].calls)} : t \in Meaning(r[1], r[2])}
FirstHop == {<<HandlerFile, n>> : n \in Range(handler)}
OneHopOn(R) == R \cup UNION {CallsOf(r) : r \in R}

Hops(g, m) == g = [k \in 1 .. m |-> IF k = 1 THEN FirstHop ELSE OneHopOn(g[k - 1])]

(* The recursion of Within has a solution.                                 *)
LEMMA HopsExist == \E g : Hops(g, MaxDepth)
<1> DEFINE Bad == {m \in 1 .. MaxDepth : ~ \E g : Hops(g, m)}
<1>1. ASSUME NEW m \in Bad, \A k \in Bad : m <= k PROVE FALSE
  <2>1. m \in Nat /\ m >= 1 /\ m <= MaxDepth /\ ~ \E g : Hops(g, m)
    OBVIOUS
  <2>2. CASE m = 1
    <3>1. Hops([k \in 1 .. 1 |-> FirstHop], 1)
      BY DEF Hops
    <3>2. QED
      BY <2>1, <2>2, <3>1
  <2>3. CASE m # 1
    <3>1. m - 1 \in 1 .. MaxDepth /\ ~(m <= m - 1)
      BY <2>1, <2>3, DepthAssumption
    <3>2. m - 1 \notin Bad
      BY <1>1, <3>1
    <3>3. PICK g : Hops(g, m - 1)
      BY <3>1, <3>2
    <3> DEFINE h == [k \in 1 .. m |-> IF k = m THEN OneHopOn(g[m - 1]) ELSE g[k]]
    <3>4. \A k \in 1 .. m - 1 : g[k] = IF k = 1 THEN FirstHop ELSE OneHopOn(g[k - 1])
      BY <3>3 DEF Hops
    <3>5. ASSUME NEW k \in 1 .. m
          PROVE  h[k] = IF k = 1 THEN FirstHop ELSE OneHopOn(h[k - 1])
      <4>1. CASE k = m
        <5>1. h[k - 1] = g[m - 1]
          BY <2>1, <2>3, <4>1
        <5>2. QED
          BY <2>3, <4>1, <5>1
      <4>2. CASE k # m
        <5>1. k \in 1 .. m - 1
          BY <2>1, <4>2
        <5>2. h[k] = g[k]
          BY <4>2
        <5>3. k # 1 => k - 1 \in 1 .. m /\ k - 1 # m
          BY <5>1, <2>1
        <5>4. k # 1 => h[k - 1] = g[k - 1]
          BY <5>3
        <5>5. QED
          BY <3>4, <5>1, <5>2, <5>4
      <4>3. QED
        BY <4>1, <4>2
    <3>6. h = [k \in 1 .. m |-> h[k]]
      OBVIOUS
    <3>7. Hops(h, m)
      <4> HIDE DEF h
      <4> QED
        BY <3>5, <3>6 DEF Hops
    <3>8. QED
      BY <2>1, <3>7
  <2>4. QED
    BY <2>2, <2>3
<1>2. Bad = {}
  <2>1. Bad \subseteq Nat
    OBVIOUS
  <2> HIDE DEF Bad
  <2>2. QED
    BY <1>1, <2>1, LeastNumber
<1>3. MaxDepth \in 1 .. MaxDepth
  BY DepthAssumption
<1>4. QED
  BY <1>2, <1>3

(* How Within grows from hop to hop.                                       *)
LEMMA WithinByHops ==
  /\ Within[1] = FirstHop
  /\ \A k \in 2 .. MaxDepth : Within[k] = OneHopOn(Within[k - 1])
<1>1. Hops(Within, MaxDepth)
  <2>1. PICK g : Hops(g, MaxDepth)
    BY HopsExist
  <2>2. QED
    BY <2>1 DEF Within, Hops, FirstHop, OneHopOn, CallsOf
<1>2. \A k \in 1 .. MaxDepth :
        Within[k] = IF k = 1 THEN FirstHop ELSE OneHopOn(Within[k - 1])
  BY <1>1 DEF Hops
<1>3. 1 \in 1 .. MaxDepth /\ \A k \in 2 .. MaxDepth : k \in 1 .. MaxDepth /\ k # 1
  BY DepthAssumption
<1>4. QED
  BY <1>2, <1>3

(* What is within some hops is within more.                                *)
LEMMA WithinGrows ==
  ASSUME NEW j \in 1 .. MaxDepth, NEW k \in 1 .. MaxDepth, j <= k
  PROVE  Within[j] \subseteq Within[k]
<1> DEFINE Bad == {m \in 1 .. MaxDepth : j <= m /\ ~(Within[j] \subseteq Within[m])}
<1>1. ASSUME NEW m \in Bad, \A n \in Bad : m <= n PROVE FALSE
  <2>1. m \in Nat /\ j <= m /\ m <= MaxDepth /\ ~(Within[j] \subseteq Within[m]) /\ m # j
    OBVIOUS
  <2>2. m \in 2 .. MaxDepth /\ m - 1 \in 1 .. MaxDepth /\ j <= m - 1 /\ ~(m <= m - 1)
    BY <2>1, DepthAssumption
  <2>3. Within[j] \subseteq Within[m - 1]
    BY <1>1, <2>2
  <2>4. Within[m - 1] \subseteq Within[m]
    BY <2>2, WithinByHops DEF OneHopOn
  <2>5. QED
    BY <2>1, <2>3, <2>4
<1>2. Bad = {}
  <2>1. Bad \subseteq Nat
    OBVIOUS
  <2> HIDE DEF Bad
  <2>2. QED
    BY <1>1, <2>1, LeastNumber
<1>3. QED
  BY <1>2

(* No step changes what is within reach.                                   *)
LEMMA WithinStays ==
  UNCHANGED project => UNCHANGED <<Within, OneMeaning, SpelledAlike>>
<1> SUFFICES ASSUME UNCHANGED project
             PROVE  UNCHANGED <<Within, OneMeaning, SpelledAlike>>
  OBVIOUS
<1>1. bound' = bound /\ handler' = handler
  BY DEF project
<1>2. Within' = Within
  BY <1>1 DEF Within, Meaning, IsFunction, IsImported
<1>3. OneMeaning' = OneMeaning /\ SpelledAlike' = SpelledAlike
  BY <1>1 DEF OneMeaning, SpelledAlike, Meaning, IsFunction, IsImported
<1>4. QED
  BY <1>2, <1>3
-----------------------------------------------------------------------------
(* Nothing nearer is missed.  Near is soundness with the distance; Least   *)
(* says that what was recorded at a hop was not within the hop before, all *)
(* of which had been recorded; Thorough is why: until the cap is reached,  *)
(* what the hop before calls is recorded, waits to be, or its caller waits *)
(* to be expanded.                                                         *)

At(s) == <<s.file, s.name>>
NamesOf(q) == {q[i].name : i \in DOMAIN q}
Holds(q, s) == \E k \in DOMAIN q : q[k].name = s.name /\ q[k].file = s.file
CalledBy(s) == {x[2] : x \in CallsOf(At(s))}

Near == \A i \in DOMAIN out : At(out[i]) \in Within[out[i].hops]

Least ==
  \A i \in DOMAIN out :
    /\ out[i].hops <= hop
    /\ out[i].hops > 1 =>
         /\ NamesWithin(out[i].hops - 1) \subseteq visited
         /\ out[i].name \notin NamesWithin(out[i].hops - 1)

Recorded ==
  /\ visited \subseteq NamesOf(out)
  /\ \A i \in DOMAIN out : out[i].hops = hop => Holds(next, out[i])

Thorough ==
  Len(out) < cap =>
    /\ hop = 1 => Range(handler) \subseteq visited \cup NamesOf(todo)
    /\ hop > 1 => NamesWithin(hop - 1) \subseteq visited
    /\ \A i \in DOMAIN out :
         out[i].hops + 1 = hop =>
           Holds(frontier, out[i])
             \/ CalledBy(out[i]) \subseteq visited \cup NamesOf(todo)

Finished == done => todo = <<>> /\ frontier = <<>> /\ LastHop

Search == Near /\ Least /\ Recorded /\ Thorough /\ Finished

(* Everything within reach is a name in a parsed file.                     *)
LEMMA CallsOfShape ==
  ASSUME BoundOK, SpelledAlike, NEW f \in Files, NEW n \in Names
  PROVE  CallsOf(<<f, n>>) \subseteq Files \X Names
<1> SUFFICES ASSUME NEW t \in Meaning(f, n), NEW c \in Range(bound[t[1]][t[2]].calls)
             PROVE  <<t[1], c>> \in Files \X Names
  BY DEF CallsOf
<1>1. t \in Target(f, n)
  BY TargetIsMeaning
<1>2. t[1] \in Files /\ bound[t[1]][t[2]].calls \in Seq(Names)
  BY <1>1, TargetShape
<1>3. c \in Names
  BY <1>2 DEF Range
<1>4. QED
  BY <1>2, <1>3

LEMMA WithinShape ==
  ASSUME BoundOK, HandlerOK, SpelledAlike, NEW k \in 1 .. MaxDepth
  PROVE  Within[k] \subseteq Files \X Names
<1> DEFINE Bad == {m \in 1 .. MaxDepth : ~(Within[m] \subseteq Files \X Names)}
<1>1. ASSUME NEW m \in Bad, \A n \in Bad : m <= n PROVE FALSE
  <2>1. m \in Nat /\ m >= 1 /\ m <= MaxDepth /\ ~(Within[m] \subseteq Files \X Names)
    OBVIOUS
  <2>2. CASE m = 1
    <3>1. FirstHop \subseteq Files \X Names
      BY HandlerFileAssumption DEF FirstHop, HandlerOK, Range
    <3>2. QED
      BY <2>1, <2>2, <3>1, WithinByHops
  <2>3. CASE m # 1
    <3>1. m \in 2 .. MaxDepth /\ m - 1 \in 1 .. MaxDepth /\ ~(m <= m - 1)
      BY <2>1, <2>3, DepthAssumption
    <3>2. Within[m - 1] \subseteq Files \X Names
      BY <1>1, <3>1
    <3>3. \A r \in Within[m - 1] : CallsOf(r) \subseteq Files \X Names
      <4> TAKE r \in Within[m - 1]
      <4>1. PICK f \in Files, n \in Names : r = <<f, n>>
        BY <3>2
      <4>2. QED
        BY <4>1, CallsOfShape
    <3>4. OneHopOn(Within[m - 1]) \subseteq Files \X Names
      BY <3>2, <3>3 DEF OneHopOn
    <3>5. QED
      BY <2>1, <3>1, <3>4, WithinByHops
  <2>4. QED
    BY <2>2, <2>3
<1>2. Bad = {}
  <2>1. Bad \subseteq Nat
    OBVIOUS
  <2> HIDE DEF Bad
  <2>2. QED
    BY <1>1, <2>1, LeastNumber
<1>3. QED
  BY <1>2

(* What something within k hops calls is within k + 1.                     *)
LEMMA CallsAreOneFarther ==
  ASSUME NEW k \in 1 .. MaxDepth, k + 1 \in 1 .. MaxDepth, NEW r \in Within[k]
  PROVE  CallsOf(r) \subseteq Within[k + 1]
<1>1. k + 1 \in 2 .. MaxDepth /\ (k + 1) - 1 = k
  BY DepthAssumption
<1>2. Within[k + 1] = OneHopOn(Within[k])
  BY <1>1, WithinByHops
<1>3. QED
  BY <1>2 DEF OneHopOn

(* With one meaning for every name, it does not matter where it is called. *)
LEMMA SameCalls ==
  ASSUME OneMeaning, NEW f \in Files, NEW g \in Files, NEW n \in Names
  PROVE  CallsOf(<<f, n>>) = CallsOf(<<g, n>>)
<1>1. Meaning(f, n) = Meaning(g, n)
  BY DEF OneMeaning
<1>2. QED
  BY <1>1 DEF CallsOf

LEMMA MemberOfSeq ==
  ASSUME NEW S, NEW q \in Seq(S), NEW j \in DOMAIN q
  PROVE  q[j] \in S
OBVIOUS

LEMMA SymbolsInOut ==
  ASSUME TypeInv, NEW j \in DOMAIN out
  PROVE  /\ out[j].file \in Files /\ out[j].name \in Names
         /\ out[j].hops \in 1 .. MaxDepth
<1>1. out[j] \in [name : Names, file : Files, hops : 1 .. MaxDepth]
  <2>1. out \in Seq([name : Names, file : Files, hops : 1 .. MaxDepth])
    BY DEF TypeInv, TypeOK
  <2>2. QED
    BY <2>1, MemberOfSeq, Zenon
<1>2. QED
  BY <1>1

LEMMA NamesInFirstHop == NamesWithin(1) = Range(handler)
<1>1. NamesWithin(1) = {r[2] : r \in FirstHop}
  BY WithinByHops DEF NamesWithin
<1>2. \A n \in Range(handler) : <<HandlerFile, n>> \in FirstHop /\ <<HandlerFile, n>>[2] = n
  BY DEF FirstHop
<1>3. \A r \in FirstHop : r[2] \in Range(handler)
  BY DEF FirstHop
<1>4. Range(handler) \subseteq NamesWithin(1)
  <2> SUFFICES ASSUME NEW n \in Range(handler) PROVE n \in NamesWithin(1)
    OBVIOUS
  <2>1. \E r \in FirstHop : r[2] = n
    BY <1>2
  <2>2. QED
    BY <1>1, <2>1
<1>5. QED
  BY <1>1, <1>3, <1>4

(* What waits to be recorded is within the hop at work.                    *)
LEMMA TodoIsWithin ==
  ASSUME TypeInv, IInv, Near, NEW i \in DOMAIN todo
  PROVE  At(todo[i]) \in Within[hop]
<1>1. Chained(todo[i], hop)
  BY DEF IInv, TodoOK
<1>2. CASE hop = 1 /\ todo[i].file = HandlerFile /\ todo[i].name \in Range(handler)
  BY <1>2, WithinByHops DEF FirstHop, At
<1>3. CASE CalledFrom(todo[i], hop)
  <2>1. PICK j \in DOMAIN out :
          /\ out[j].hops + 1 = hop
          /\ \E t \in Meaning(out[j].file, out[j].name) :
               /\ todo[i].file = t[1]
               /\ todo[i].name \in Range(bound[t[1]][t[2]].calls)
    BY <1>3 DEF CalledFrom
  <2>2. At(todo[i]) \in CallsOf(At(out[j]))
    BY <2>1 DEF CallsOf, At
  <2>3. At(out[j]) \in Within[out[j].hops]
    BY DEF Near
  <2>4. out[j].hops \in 1 .. MaxDepth /\ hop \in 1 .. MaxDepth
    BY SymbolsInOut DEF TypeInv, TypeOK
  <2>5. QED
    BY <2>1, <2>2, <2>3, <2>4, CallsAreOneFarther
<1>4. QED
  BY <1>1, <1>2, <1>3 DEF Chained

(* Expanding a symbol finds everything it calls.                           *)
LEMMA ExpandFindsAll ==
  ASSUME BoundOK, SpelledAlike, NEW s \in Symbol
  PROVE  CalledBy(s) \subseteq NamesOf(Expand(s))
<1>1. s.file \in Files /\ s.name \in Names
  BY DEF Symbol
<1>2. Target(s.file, s.name) = Meaning(s.file, s.name)
  BY <1>1, TargetIsMeaning
<1>3. SUFFICES ASSUME NEW t \in Meaning(s.file, s.name),
                      NEW c \in Range(bound[t[1]][t[2]].calls)
               PROVE  c \in NamesOf(Expand(s))
  BY <1>1 DEF CalledBy, CallsOf, At
<1>4. \A u \in Target(s.file, s.name) : u = t
  BY <1>2, <1>3 DEF Meaning
<1>5. Expand(s) = Found(t[1], bound[t[1]][t[2]].calls)
  BY <1>2, <1>3, <1>4 DEF Expand
<1>6. bound[t[1]][t[2]].calls \in Seq(Names)
  BY <1>1, <1>2, <1>3, TargetShape
<1>7. PICK i \in DOMAIN bound[t[1]][t[2]].calls : c = bound[t[1]][t[2]].calls[i]
  BY <1>3 DEF Range
<1>8. i \in DOMAIN Expand(s) /\ Expand(s)[i].name = c
  BY <1>5, <1>7 DEF Found
<1>9. QED
  BY <1>8 DEF NamesOf

(* When nothing waits and the cap is not reached, all that is within the   *)
(* hop at work is recorded.                                                *)
LEMMA EndOfHop ==
  ASSUME TypeInv, OneMeaning, SpelledAlike, Search,
         todo = <<>>, frontier = <<>>, Len(out) < cap
  PROVE  NamesWithin(hop) \subseteq visited
<1>1. hop \in 1 .. MaxDepth /\ NamesOf(todo) = {} /\ BoundOK /\ HandlerOK
  BY DEF TypeInv, TypeOK, NamesOf
<1>2. CASE hop = 1
  <2>1. NamesWithin(hop) = Range(handler)
    BY <1>2, NamesInFirstHop
  <2>2. QED
    BY <1>1, <1>2, <2>1 DEF Search, Thorough
<1>3. CASE hop # 1
  <2>1. hop \in 2 .. MaxDepth /\ hop - 1 \in 1 .. MaxDepth /\ hop > 1
    BY <1>1, <1>3, DepthAssumption
  <2>2. NamesWithin(hop - 1) \subseteq visited
    BY <2>1 DEF Search, Thorough
  <2>3. Within[hop - 1] \subseteq Files \X Names
    BY <1>1, <2>1, WithinShape
  <2>4. ASSUME NEW r \in Within[hop - 1], NEW x \in CallsOf(r)
        PROVE  x[2] \in visited
    <3>1. r = <<r[1], r[2]>> /\ r[1] \in Files /\ r[2] \in Names
      BY <2>3
    <3>2. r[2] \in NamesWithin(hop - 1)
      BY DEF NamesWithin
    <3>3. PICK j \in DOMAIN out : out[j].name = r[2]
      BY <2>2, <3>2 DEF Search, Recorded, NamesOf
    <3>4. out[j].file \in Files /\ out[j].hops \in 1 .. MaxDepth
      BY SymbolsInOut
    <3>5. CallsOf(At(out[j])) = CallsOf(r)
      BY <3>1, <3>3, <3>4, SameCalls DEF At
    <3>6. out[j].hops # hop /\ out[j].hops <= hop
      BY <2>1, <3>2, <3>3 DEF Search, Least
    <3>7. CASE out[j].hops + 1 = hop
      <4>1. CalledBy(out[j]) \subseteq visited
        BY <1>1, <3>7 DEF Search, Thorough, Holds
      <4>2. QED
        BY <2>4, <3>5, <4>1 DEF CalledBy
    <3>8. CASE out[j].hops + 1 # hop
      <4>1. /\ out[j].hops + 1 \in 1 .. MaxDepth
            /\ out[j].hops + 1 <= hop - 1
        BY <1>1, <2>1, <3>4, <3>6, <3>8, DepthAssumption
      <4>2. At(out[j]) \in Within[out[j].hops]
        BY DEF Search, Near
      <4>3. CallsOf(At(out[j])) \subseteq Within[out[j].hops + 1]
        BY <3>4, <4>1, <4>2, CallsAreOneFarther
      <4>4. x \in Within[hop - 1]
        BY <2>1, <2>4, <3>5, <4>1, <4>3, WithinGrows
      <4>5. QED
        BY <2>2, <4>4 DEF NamesWithin
    <3>9. QED
      BY <3>7, <3>8
  <2>5. Within[hop] = OneHopOn(Within[hop - 1])
    BY <2>1, WithinByHops
  <2>6. QED
    BY <2>2, <2>4, <2>5 DEF NamesWithin, OneHopOn
<1>4. QED
  BY <1>2, <1>3
LEMMA SearchStarts == Init => Search
<1> SUFFICES ASSUME Init PROVE Search
  OBVIOUS
<1>1. /\ todo = Found(HandlerFile, handler) /\ out = <<>> /\ hop = 1 /\ ~done
      /\ visited = {}
  BY DEF Init
<1>2. Range(handler) \subseteq NamesOf(todo)
  <2> SUFFICES ASSUME NEW n \in Range(handler) PROVE n \in NamesOf(todo)
    OBVIOUS
  <2>1. PICK i \in DOMAIN handler : handler[i] = n
    BY DEF Range
  <2>2. i \in DOMAIN todo /\ todo[i].name = n
    BY <1>1, <2>1 DEF Found
  <2>3. QED
    BY <2>2 DEF NamesOf
<1>3. QED
  BY <1>1, <1>2
     DEF Search, Near, Least, Recorded, Thorough, Finished, NamesOf

(* A step that records nothing keeps what is said of the report.           *)
LEMMA SearchStays ==
  ASSUME Search, UNCHANGED <<project, visited, out, hop, next>>,
         Thorough', Finished'
  PROVE  Search'
<1>1. Within' = Within
  BY WithinStays
<1>2. Near'
  BY <1>1 DEF Search, Near, At
<1>3. Least'
  BY <1>1 DEF Search, Least, NamesWithin
<1>4. Recorded'
  BY DEF Search, Recorded, NamesOf, Holds
<1>5. QED
  BY <1>2, <1>3, <1>4 DEF Search

(* The names that wait are the first and those of the rest.                *)
LEMMA NamesOfTail ==
  ASSUME NEW q \in Seq(Symbol), q # <<>>
  PROVE  NamesOf(q) \subseteq {Head(q).name} \cup NamesOf(Tail(q))
<1> SUFFICES ASSUME NEW i \in DOMAIN q
             PROVE  q[i].name = Head(q).name \/ q[i].name \in NamesOf(Tail(q))
  BY DEF NamesOf
<1>1. CASE i = 1
  BY <1>1
<1>2. CASE i # 1
  <2>1. i - 1 \in DOMAIN Tail(q) /\ Tail(q)[i - 1] = q[i]
    BY <1>2
  <2>2. QED
    BY <2>1 DEF NamesOf
<1>3. QED
  BY <1>1, <1>2

(* A symbol that a list holds is its first or in the rest.                 *)
LEMMA HoldsTail ==
  ASSUME NEW q \in Seq(Symbol), q # <<>>, NEW s, Holds(q, s)
  PROVE  \/ Head(q).name = s.name /\ Head(q).file = s.file
         \/ Holds(Tail(q), s)
<1>1. PICK i \in DOMAIN q : q[i].name = s.name /\ q[i].file = s.file
  BY DEF Holds
<1>2. CASE i = 1
  BY <1>1, <1>2
<1>3. CASE i # 1
  <2>1. i - 1 \in DOMAIN Tail(q) /\ Tail(q)[i - 1] = q[i]
    BY <1>3
  <2>2. QED
    BY <1>1, <2>1 DEF Holds
<1>4. QED
  BY <1>2, <1>3

LEMMA RecordSearches ==
  TypeInv /\ IInv /\ Search /\ Record => Search'
<1> SUFFICES ASSUME TypeInv, IInv, Search, Record PROVE Search'
  OBVIOUS
<1> DEFINE s == Head(todo)
           e == [name |-> s.name, file |-> s.file, hops |-> hop]
<1>1. /\ out' = Append(out, e) /\ next' = Append(next, s) /\ todo' = Tail(todo)
      /\ todo # <<>> /\ UNCHANGED project /\ hop' = hop /\ frontier' = frontier
      /\ s.name \notin visited /\ Len(out) < cap /\ visited' = visited \cup {s.name}
      /\ done' = done
  BY DEF Record, Fresh
<1>2. /\ out \in Seq([name : Names, file : Files, hops : 1 .. MaxDepth])
      /\ todo \in Seq(Symbol) /\ next \in Seq(Symbol) /\ hop \in 1 .. MaxDepth
      /\ cap \in Nat
  BY DepthAssumption DEF TypeInv, TypeOK
<1>3. At(s) \in Within[hop]
  <2>1. 1 \in DOMAIN todo /\ s = todo[1]
    BY <1>1, <1>2
  <2>2. QED
    BY <2>1, TodoIsWithin DEF Search
<1>4. e.name = s.name /\ e.file = s.file /\ e.hops = hop /\ At(e) = At(s)
  BY DEF At
<1>5. NamesOf(todo) \subseteq {s.name} \cup NamesOf(todo')
  BY <1>1, <1>2, NamesOfTail
<1> HIDE DEF s, e
<1>6. /\ Len(out) \in Nat /\ DOMAIN out = 1 .. Len(out)
      /\ Len(out') = Len(out) + 1 /\ DOMAIN out' = 1 .. Len(out) + 1
      /\ out'[Len(out) + 1] = e
      /\ \A i \in DOMAIN out : out'[i] = out[i]
  BY <1>1, <1>2
<1>7. \A i \in DOMAIN out' : i \in DOMAIN out \/ out'[i] = e
  BY <1>6
<1>8. Within' = Within /\ bound' = bound /\ handler' = handler /\ cap' = cap
  BY <1>1, WithinStays DEF project
<1>9. Near'
  <2> SUFFICES ASSUME NEW i \in DOMAIN out' PROVE At(out'[i]) \in Within[out'[i].hops]
    BY <1>8 DEF Near, At
  <2>1. CASE i \in DOMAIN out
    BY <1>6, <2>1 DEF Search, Near
  <2>2. CASE out'[i] = e
    BY <1>3, <1>4, <2>2
  <2>3. QED
    BY <1>7, <2>1, <2>2
<1>10. Least'
  <2> SUFFICES ASSUME NEW i \in DOMAIN out'
               PROVE  /\ out'[i].hops <= hop
                      /\ out'[i].hops > 1 =>
                           /\ NamesWithin(out'[i].hops - 1) \subseteq visited'
                           /\ out'[i].name \notin NamesWithin(out'[i].hops - 1)
    BY <1>1, <1>8 DEF Least, NamesWithin
  <2>1. CASE i \in DOMAIN out
    BY <1>1, <1>6, <2>1 DEF Search, Least
  <2>2. CASE out'[i] = e
    <3>1. hop > 1 => NamesWithin(hop - 1) \subseteq visited
      BY <1>1 DEF Search, Thorough
    <3>2. QED
      BY <1>1, <1>2, <1>4, <2>2, <3>1
  <2>3. QED
    BY <1>7, <2>1, <2>2
<1>11. Recorded'
  <2>1. visited' \subseteq NamesOf(out')
    <3>1. NamesOf(out) \subseteq NamesOf(out')
      BY <1>6 DEF NamesOf
    <3>2. s.name \in NamesOf(out')
      BY <1>4, <1>6 DEF NamesOf
    <3>3. QED
      BY <1>1, <3>1, <3>2 DEF Search, Recorded
  <2>2. /\ DOMAIN next' = 1 .. Len(next) + 1 /\ DOMAIN next = 1 .. Len(next)
        /\ Len(next) \in Nat /\ next'[Len(next) + 1] = s
        /\ \A i \in DOMAIN next : next'[i] = next[i]
    BY <1>1, <1>2
  <2>3. ASSUME NEW i \in DOMAIN out', out'[i].hops = hop
        PROVE  \E k \in DOMAIN next' : next'[k].name = out'[i].name /\ next'[k].file = out'[i].file
    <3>1. CASE i \in DOMAIN out
      <4>1. out'[i] = out[i] /\ Holds(next, out[i])
        BY <1>6, <2>3, <3>1 DEF Search, Recorded
      <4>2. QED
        BY <4>1, <2>2 DEF Holds
    <3>2. CASE out'[i] = e
      BY <1>4, <2>2, <3>2
    <3>3. QED
      BY <1>7, <3>1, <3>2
  <2>4. QED
    BY <1>1, <2>1, <2>3 DEF Recorded, NamesOf, Holds
<1>12. Thorough'
  <2>1. Thorough /\ visited \cup NamesOf(todo) \subseteq visited' \cup NamesOf(todo')
        /\ visited \subseteq visited'
    BY <1>1, <1>5 DEF Search
  <2>2. hop = 1 => Range(handler) \subseteq visited' \cup NamesOf(todo')
    BY <1>1, <2>1 DEF Thorough
  <2>3. hop > 1 => NamesWithin(hop - 1) \subseteq visited'
    BY <1>1, <2>1 DEF Thorough
  <2>4. ASSUME NEW i \in DOMAIN out', out'[i].hops + 1 = hop
        PROVE  Holds(frontier, out'[i])
                 \/ CalledBy(out'[i]) \subseteq visited' \cup NamesOf(todo')
    <3>1. out'[i] # e
      BY <1>2, <1>4, <2>4
    <3>2. i \in DOMAIN out /\ out'[i] = out[i]
      BY <1>6, <1>7, <3>1
    <3>3. QED
      BY <1>1, <2>1, <2>4, <3>2 DEF Thorough
  <2>5. (hop > 1 => NamesWithin(hop - 1) \subseteq visited)'
    BY <1>1, <1>8, <2>3 DEF NamesWithin
  <2>6. (hop = 1 => Range(handler) \subseteq visited \cup NamesOf(todo))'
    BY <1>1, <1>8, <2>2 DEF NamesOf
  <2>7. (\A i \in DOMAIN out :
           out[i].hops + 1 = hop =>
             Holds(frontier, out[i])
               \/ CalledBy(out[i]) \subseteq visited \cup NamesOf(todo))'
    <3> SUFFICES ASSUME NEW i \in DOMAIN out', out'[i].hops + 1 = hop'
                 PROVE  Holds(frontier', out'[i])
                          \/ CalledBy(out[i])' \subseteq visited' \cup NamesOf(todo')
      BY DEF Holds, NamesOf
    <3>1. CalledBy(out[i])' = CalledBy(out'[i])
      BY <1>8 DEF CalledBy, CallsOf, At, Meaning, IsFunction, IsImported
    <3>2. QED
      BY <1>1, <2>4, <3>1
  <2>8. QED
    BY <2>5, <2>6, <2>7 DEF Thorough
<1>13. Finished'
  BY <1>1 DEF Search, Finished
<1>14. QED
  BY <1>9, <1>10, <1>11, <1>12, <1>13 DEF Search
(* What a step that records nothing has to show for Thorough.              *)
LEMMA ThoroughAfter ==
  ASSUME UNCHANGED project, UNCHANGED <<visited, out, hop>>,
         Len(out) < cap =>
           /\ hop = 1 => Range(handler) \subseteq visited \cup NamesOf(todo')
           /\ hop > 1 => NamesWithin(hop - 1) \subseteq visited
           /\ \A i \in DOMAIN out :
                out[i].hops + 1 = hop =>
                  Holds(frontier', out[i])
                    \/ CalledBy(out[i]) \subseteq visited \cup NamesOf(todo')
  PROVE  Thorough'
<1>1. Within' = Within /\ bound' = bound /\ handler' = handler /\ cap' = cap
  BY WithinStays DEF project
<1>2. SUFFICES ASSUME Len(out) < cap
               PROVE  /\ (hop = 1 => Range(handler) \subseteq visited \cup NamesOf(todo))'
                      /\ (hop > 1 => NamesWithin(hop - 1) \subseteq visited)'
                      /\ (\A i \in DOMAIN out :
                            out[i].hops + 1 = hop =>
                              Holds(frontier, out[i])
                                \/ CalledBy(out[i]) \subseteq visited \cup NamesOf(todo))'
  BY <1>1 DEF Thorough
<1>3. (hop = 1 => Range(handler) \subseteq visited \cup NamesOf(todo))'
  BY <1>1, <1>2 DEF NamesOf
<1>4. (hop > 1 => NamesWithin(hop - 1) \subseteq visited)'
  BY <1>1, <1>2 DEF NamesWithin
<1>5. (\A i \in DOMAIN out :
         out[i].hops + 1 = hop =>
           Holds(frontier, out[i])
             \/ CalledBy(out[i]) \subseteq visited \cup NamesOf(todo))'
  <2> SUFFICES ASSUME NEW i \in DOMAIN out, out[i].hops + 1 = hop
               PROVE  Holds(frontier', out[i])
                        \/ CalledBy(out[i])' \subseteq visited \cup NamesOf(todo')
    BY DEF Holds, NamesOf
  <2>1. \A f, n : Meaning(f, n)' = Meaning(f, n)
    BY <1>1 DEF Meaning, IsFunction, IsImported
  <2>2. out' = out
    OBVIOUS
  <2>3. CalledBy(out[i])' = CalledBy(out[i])
    BY <1>1, <2>1, <2>2 DEF CalledBy, CallsOf, At
  <2>4. QED
    BY <1>2, <2>3
<1>6. QED
  BY <1>3, <1>4, <1>5

LEMMA DropSearches == TypeInv /\ Search /\ Drop => Search'
<1> SUFFICES ASSUME TypeInv, Search, Drop PROVE Search'
  OBVIOUS
<1> DEFINE s == Head(todo)
<1>1. /\ todo' = Tail(todo) /\ todo # <<>> /\ UNCHANGED project
      /\ UNCHANGED <<visited, out, hop, frontier, next, done>>
      /\ s.name \in visited \/ ~(Len(out) < cap)
  BY DEF Drop, Fresh
<1>2. todo \in Seq(Symbol)
  BY DEF TypeInv, TypeOK
<1>3. NamesOf(todo) \subseteq {s.name} \cup NamesOf(todo')
  BY <1>1, <1>2, NamesOfTail
<1> HIDE DEF s
<1>4. Thorough'
  <2> SUFFICES ASSUME Len(out) < cap
               PROVE  /\ hop = 1 => Range(handler) \subseteq visited \cup NamesOf(todo')
                      /\ hop > 1 => NamesWithin(hop - 1) \subseteq visited
                      /\ \A i \in DOMAIN out :
                           out[i].hops + 1 = hop =>
                             Holds(frontier, out[i])
                               \/ CalledBy(out[i]) \subseteq visited \cup NamesOf(todo')
    BY <1>1, ThoroughAfter
  <2>1. visited \cup NamesOf(todo) \subseteq visited \cup NamesOf(todo')
    BY <1>1, <1>3
  <2>2. QED
    BY <2>1 DEF Search, Thorough
<1>5. Finished'
  BY <1>1 DEF Search, Finished
<1>6. QED
  BY <1>1, <1>4, <1>5, SearchStays

LEMMA ExpandSearches == TypeInv /\ SpelledAlike /\ Search /\ ExpandNext => Search'
<1> SUFFICES ASSUME TypeInv, SpelledAlike, Search, ExpandNext PROVE Search'
  OBVIOUS
<1> DEFINE s == Head(frontier)
<1>1. /\ todo = <<>> /\ todo' = Expand(s)
      /\ frontier' = Tail(frontier) /\ frontier # <<>>
      /\ UNCHANGED project /\ UNCHANGED <<visited, out, hop, next, done>>
  BY DEF ExpandNext
<1>2. frontier \in Seq(Symbol) /\ BoundOK
  BY DEF TypeInv, TypeOK
<1>3. s \in Symbol
  BY <1>1, <1>2
<1>4. CalledBy(s) \subseteq NamesOf(todo')
  BY <1>1, <1>2, <1>3, ExpandFindsAll
<1>5. \A x : Holds(frontier, x) =>
               (s.name = x.name /\ s.file = x.file) \/ Holds(frontier', x)
  BY <1>1, <1>2, HoldsTail
<1> HIDE DEF s
<1>6. NamesOf(todo) = {}
  BY <1>1 DEF NamesOf
<1>7. Thorough'
  <2> SUFFICES ASSUME Len(out) < cap
               PROVE  /\ hop = 1 => Range(handler) \subseteq visited \cup NamesOf(todo')
                      /\ hop > 1 => NamesWithin(hop - 1) \subseteq visited
                      /\ \A i \in DOMAIN out :
                           out[i].hops + 1 = hop =>
                             Holds(frontier', out[i])
                               \/ CalledBy(out[i]) \subseteq visited \cup NamesOf(todo')
    BY <1>1, ThoroughAfter
  <2>1. /\ hop = 1 => Range(handler) \subseteq visited
        /\ hop > 1 => NamesWithin(hop - 1) \subseteq visited
        /\ \A i \in DOMAIN out :
             out[i].hops + 1 = hop =>
               Holds(frontier, out[i]) \/ CalledBy(out[i]) \subseteq visited
    BY <1>6 DEF Search, Thorough
  <2>2. ASSUME NEW i \in DOMAIN out, Holds(frontier, out[i])
        PROVE  Holds(frontier', out[i])
                 \/ CalledBy(out[i]) \subseteq visited \cup NamesOf(todo')
    <3>1. CASE s.name = out[i].name /\ s.file = out[i].file
      <4>1. CalledBy(out[i]) = CalledBy(s)
        BY <3>1 DEF CalledBy, At
      <4>2. QED
        BY <1>4, <4>1
    <3>2. QED
      BY <1>5, <2>2, <3>1
  <2>3. QED
    BY <2>1, <2>2
<1>8. Finished'
  BY <1>1 DEF Search, Finished
<1>9. QED
  BY <1>1, <1>7, <1>8, SearchStays

LEMMA NextHopSearches ==
  TypeInv /\ OneMeaning /\ SpelledAlike /\ Search /\ NextHop => Search'
<1> SUFFICES ASSUME TypeInv, OneMeaning, SpelledAlike, Search, NextHop PROVE Search'
  OBVIOUS
<1>1. /\ todo = <<>> /\ frontier = <<>> /\ ~done /\ Len(out) < cap
      /\ hop' = hop + 1 /\ frontier' = next /\ next' = <<>>
      /\ UNCHANGED project /\ UNCHANGED <<visited, out, todo, done>>
  <2>1. cap \in Nat /\ Len(out) \in Nat
    BY DepthAssumption DEF TypeInv, TypeOK
  <2>2. QED
    BY <2>1 DEF NextHop, LastHop
<1>2. NamesWithin(hop) \subseteq visited
  BY <1>1, EndOfHop
<1>3. hop \in Nat /\ hop >= 1
  BY DEF TypeInv, TypeOK
<1>4. Within' = Within /\ bound' = bound /\ handler' = handler /\ cap' = cap
  BY <1>1, WithinStays DEF project
<1>5. Near'
  BY <1>1, <1>4 DEF Search, Near, At
<1>6. \A i \in DOMAIN out : out[i].hops \in Nat /\ out[i].hops <= hop
  BY SymbolsInOut DEF Search, Least
<1>7. Least'
  <2>1. \A i \in DOMAIN out : out[i].hops <= hop + 1
    BY <1>3, <1>6
  <2>2. QED
    BY <1>1, <1>4, <2>1 DEF Search, Least, NamesWithin
<1>8. Recorded'
  <2>1. \A i \in DOMAIN out : out[i].hops # hop + 1
    BY <1>3, <1>6
  <2>2. QED
    BY <1>1, <2>1 DEF Search, Recorded, NamesOf
<1>9. Thorough'
  <2>1. \A i \in DOMAIN out : out[i].hops + 1 = hop + 1 => Holds(next, out[i])
    BY <1>3, <1>6 DEF Search, Recorded
  <2>2. (hop + 1) - 1 = hop /\ hop + 1 # 1
    BY <1>3
  <2>3. (hop > 1 => NamesWithin(hop - 1) \subseteq visited)'
    BY <1>1, <1>2, <1>4, <2>2 DEF NamesWithin
  <2>4. (\A i \in DOMAIN out : out[i].hops + 1 = hop => Holds(frontier, out[i]))'
    BY <1>1, <2>1 DEF Holds
  <2>5. QED
    BY <1>1, <2>2, <2>3, <2>4 DEF Thorough
<1>10. Finished'
  BY <1>1 DEF Finished
<1>11. QED
  BY <1>5, <1>7, <1>8, <1>9, <1>10 DEF Search

(* Steps that leave the lists alone keep Thorough.                         *)
LEMMA ThoroughStays ==
  ASSUME Thorough, UNCHANGED project, UNCHANGED <<visited, out, hop, todo, frontier>>
  PROVE  Thorough'
BY ThoroughAfter DEF Thorough

LEMMA SearchGoesOn ==
  TypeInv /\ OneMeaning /\ SpelledAlike /\ IInv /\ Search /\ [Next]_vars => Search'
<1> SUFFICES ASSUME TypeInv, OneMeaning, SpelledAlike, IInv, Search, [Next]_vars
             PROVE  Search'
  OBVIOUS
<1>1. CASE Return
  <2>1. /\ UNCHANGED project /\ UNCHANGED <<visited, out, hop, todo, frontier, next>>
        /\ todo = <<>> /\ frontier = <<>> /\ LastHop
    BY <1>1 DEF Return
  <2>2. Finished'
    BY <2>1 DEF Finished, LastHop, project
  <2>3. QED
    BY <2>1, <2>2, ThoroughStays, SearchStays DEF Search
<1>2. CASE UNCHANGED vars
  <2>1. /\ UNCHANGED project
        /\ UNCHANGED <<visited, out, hop, todo, frontier, next, done>>
    BY <1>2 DEF vars, project
  <2>2. Finished'
    BY <2>1 DEF Finished, LastHop, Search, project
  <2>3. QED
    BY <2>1, <2>2, ThoroughStays, SearchStays DEF Search
<1>3. QED
  BY <1>1, <1>2, RecordSearches, DropSearches, ExpandSearches, NextHopSearches
     DEF Next

(* No step changes what names mean.                                        *)
LEMMA SameProject == [Next]_vars => UNCHANGED project
BY DEF Next, Record, Drop, ExpandNext, NextHop, Return, vars, project

SearchInv == OneMeaning /\ SpelledAlike => IInv /\ Search

LEMMA SearchInvariance == Spec => [](TypeInv /\ Once /\ SearchInv)
<1>1. Init => SearchInv
  BY InitInv, SearchStarts DEF SearchInv
<1>2. TypeInv /\ SearchInv /\ [Next]_vars => SearchInv'
  <2> SUFFICES ASSUME TypeInv, SearchInv, [Next]_vars, OneMeaning', SpelledAlike'
               PROVE  IInv' /\ Search'
    BY DEF SearchInv
  <2>1. OneMeaning /\ SpelledAlike
    BY SameProject, WithinStays
  <2>2. QED
    BY <2>1, StepInv, SearchGoesOn DEF SearchInv
<1>3. QED
  BY InitType, NextType, OnceStarts, OnceStep, <1>1, <1>2, PTL DEF Spec

(* Where a name has one meaning, a symbol is reported with the least       *)
(* number of hops over which the handler can call it.                      *)
THEOREM LeastHops == Spec => []HopsAreLeast
<1>1. TypeInv /\ SearchInv => HopsAreLeast
  <2> SUFFICES ASSUME TypeInv, SearchInv, OneMeaning, SpelledAlike,
                      NEW i \in DOMAIN out
               PROVE  /\ out[i].name \in NamesWithin(out[i].hops)
                      /\ out[i].hops > 1 =>
                           out[i].name \notin NamesWithin(out[i].hops - 1)
    BY DEF HopsAreLeast
  <2>1. At(out[i]) \in Within[out[i].hops] /\ At(out[i])[2] = out[i].name
    BY DEF SearchInv, Search, Near, At
  <2>2. out[i].name \in NamesWithin(out[i].hops)
    BY <2>1 DEF NamesWithin
  <2>3. QED
    BY <2>2 DEF SearchInv, Search, Least
<1>2. QED
  BY <1>1, SearchInvariance, PTL

(* When no new symbol was found at the last hop, there is nothing beyond.  *)
LEMMA NothingBeyond ==
  ASSUME TypeInv, OneMeaning, SpelledAlike, Search,
         todo = <<>>, frontier = <<>>, next = <<>>, Len(out) < cap,
         NEW k \in 1 .. MaxDepth
  PROVE  NamesWithin(k) \subseteq visited
<1> DEFINE Bad == {m \in 1 .. MaxDepth : ~(NamesWithin(m) \subseteq visited)}
<1>0. hop \in 1 .. MaxDepth /\ BoundOK /\ HandlerOK
  BY DEF TypeInv, TypeOK
<1>1. NamesWithin(hop) \subseteq visited
  BY EndOfHop
<1>2. ASSUME NEW m \in Bad, \A n \in Bad : m <= n PROVE FALSE
  <2>1. m \in Nat /\ m >= 1 /\ m <= MaxDepth /\ ~(NamesWithin(m) \subseteq visited)
    OBVIOUS
  <2>2. ~(m <= hop)
    <3> SUFFICES ASSUME m <= hop PROVE FALSE
      OBVIOUS
    <3>1. Within[m] \subseteq Within[hop]
      BY <1>0, <2>1, WithinGrows
    <3>2. NamesWithin(m) \subseteq NamesWithin(hop)
      BY <3>1 DEF NamesWithin
    <3>3. QED
      BY <1>1, <2>1, <3>2
  <2>3. m \in 2 .. MaxDepth /\ m - 1 \in 1 .. MaxDepth /\ ~(m <= m - 1)
    BY <1>0, <2>1, <2>2, DepthAssumption
  <2>4. NamesWithin(m - 1) \subseteq visited
    BY <1>2, <2>3
  <2>5. Within[m - 1] \subseteq Files \X Names
    BY <1>0, <2>3, WithinShape
  <2>6. ASSUME NEW r \in Within[m - 1], NEW x \in CallsOf(r)
        PROVE  x[2] \in visited
    <3>1. r = <<r[1], r[2]>> /\ r[1] \in Files /\ r[2] \in Names
      BY <2>5
    <3>2. r[2] \in visited
      BY <2>4 DEF NamesWithin
    <3>3. PICK j \in DOMAIN out : out[j].name = r[2]
      BY <3>2 DEF Search, Recorded, NamesOf
    <3>4. out[j].file \in Files /\ out[j].hops \in 1 .. MaxDepth
      BY SymbolsInOut
    <3>5. CallsOf(At(out[j])) = CallsOf(r)
      BY <3>1, <3>3, <3>4, SameCalls DEF At
    <3>6. out[j].hops # hop /\ out[j].hops <= hop
      BY DEF Search, Recorded, Least, Holds
    <3>7. out[j].hops + 1 \in 1 .. MaxDepth /\ out[j].hops + 1 <= hop
      BY <1>0, <3>4, <3>6, DepthAssumption
    <3>8. At(out[j]) \in Within[out[j].hops]
      BY DEF Search, Near
    <3>9. CallsOf(At(out[j])) \subseteq Within[out[j].hops + 1]
      BY <3>4, <3>7, <3>8, CallsAreOneFarther
    <3>10. x \in Within[hop]
      BY <1>0, <2>6, <3>5, <3>7, <3>9, WithinGrows
    <3>11. QED
      BY <1>1, <3>10 DEF NamesWithin
  <2>7. Within[m] = OneHopOn(Within[m - 1])
    BY <2>3, WithinByHops
  <2>8. QED
    BY <2>1, <2>4, <2>6, <2>7 DEF NamesWithin, OneHopOn
<1>3. Bad = {}
  <2>1. Bad \subseteq Nat
    OBVIOUS
  <2> HIDE DEF Bad
  <2>2. QED
    BY <1>2, <2>1, LeastNumber
<1>4. QED
  BY <1>3

(* Where a name has one meaning, what the handler can call within the      *)
(* depth is reported unless the cap was reached, and then nothing farther  *)
(* away was preferred.                                                     *)
THEOREM MissesNothingElse == Spec => []MissesOnlyAtTheCap
<1>1. TypeInv /\ Once /\ SearchInv => MissesOnlyAtTheCap
  <2> SUFFICES ASSUME TypeInv, Once, SearchInv, done, OneMeaning, SpelledAlike,
                      NEW k \in 1 .. MaxDepth, NEW n \in NamesWithin(k), n \notin visited
               PROVE  Len(out) = cap /\ \A i \in DOMAIN out : out[i].hops <= k
    BY DEF MissesOnlyAtTheCap
  <2>0. Search /\ hop \in 1 .. MaxDepth /\ cap \in Nat /\ Len(out) \in Nat
    BY DepthAssumption DEF SearchInv, TypeInv, TypeOK
  <2>1. todo = <<>> /\ frontier = <<>> /\ LastHop
    BY <2>0 DEF Search, Finished
  <2>2. ASSUME Len(out) < cap PROVE FALSE
    <3>1. CASE hop = MaxDepth
      <4>1. NamesWithin(hop) \subseteq visited
        BY <2>0, <2>1, <2>2, EndOfHop
      <4>2. Within[k] \subseteq Within[hop]
        BY <2>0, <3>1, DepthAssumption, WithinGrows
      <4>3. n \in NamesWithin(hop)
        BY <4>2 DEF NamesWithin
      <4>4. QED
        BY <4>1, <4>3
    <3>2. CASE next = <<>>
      BY <2>0, <2>1, <2>2, <3>2, NothingBeyond
    <3>3. QED
      BY <2>0, <2>1, <2>2, <3>1, <3>2 DEF LastHop
  <2>3. Len(out) = cap
    BY <2>0, <2>2 DEF Once, TakenOnce
  <2>4. ASSUME NEW i \in DOMAIN out, ~(out[i].hops <= k) PROVE FALSE
    <3>1. out[i].hops \in 1 .. MaxDepth
      BY SymbolsInOut
    <3>2. /\ out[i].hops > 1 /\ out[i].hops - 1 \in 1 .. MaxDepth
          /\ k <= out[i].hops - 1
      BY <2>4, <3>1, DepthAssumption
    <3>3. NamesWithin(out[i].hops - 1) \subseteq visited
      BY <2>0, <3>2 DEF Search, Least
    <3>4. Within[k] \subseteq Within[out[i].hops - 1]
      BY <3>2, WithinGrows
    <3>5. n \in NamesWithin(out[i].hops - 1)
      BY <3>4 DEF NamesWithin
    <3>6. QED
      BY <3>3, <3>5
  <2>5. QED
    BY <2>3, <2>4
<1>2. QED
  BY <1>1, SearchInvariance, PTL
=============================================================================
