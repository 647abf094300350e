---------------------------- MODULE Reachability -----------------------------
(***************************************************************************)
(* computeReachableSymbols (packages/engine/src/model/reachability.ts):    *)
(* the names a handler calls, those the functions behind these names call, *)
(* and so on for MaxDepth hops, through imports into other parsed files.   *)
(* The rules take a handler for verified when a verify call is among them. *)
(*                                                                         *)
(* A name is a called name up to its first dot, which is what imports and  *)
(* symbol tables are searched for.  A file binds every name: to a function *)
(* of its own (with the names it calls, in order), to an import, or to     *)
(* nothing it knows of.                                                    *)
(***************************************************************************)
EXTENDS Naturals, Sequences, Functions

CONSTANTS
  Names,
  Files,       \* the parsed files
  HandlerFile,
  MaxDepth,    \* config.reachability_max_depth
  Caps,        \* the values of MAX_VISITED_SYMBOLS tried
  HandlerCalls, \* the lists of calls tried in the handler,
  Calls,       \* and in the functions
  Imports      \* the kinds of import tried

ASSUME HandlerFileAssumption == HandlerFile \in Files
ASSUME DepthAssumption == MaxDepth \in Nat \ {0} /\ Caps \subseteq Nat
ASSUME CallsAssumption == HandlerCalls \cup Calls \subseteq Seq(Names)
ASSUME ImportsAssumption == Imports \subseteq {"named", "default"}

VARIABLES
  bound,    \* what every name stands for in every file
  handler,  \* the names the handler calls
  cap,      \* MAX_VISITED_SYMBOLS
  visited,  \* the names recorded
  out,      \* the symbols recorded, in order
  hop,      \* the hop at work
  todo,     \* symbols found, not yet recorded or dropped
  frontier, \* symbols of the hop before, not yet expanded
  next,     \* symbols recorded at this hop
  done

project == <<bound, handler, cap>>
vars == <<bound, handler, cap, visited, out, hop, todo, frontier, next, done>>

(* What a name may stand for in a file.  A "default" import names the      *)
(* function another file exports, which has another name there; one that   *)
(* keeps the name is as good as a "named" one, and so is                   *)
(* "import {a as b}", which the code resolves.                             *)
Free == [kind |-> "free"]
Defined(calls) == [kind |-> "function", calls |-> calls]
Import(kind, file, name) == [kind |-> kind, file |-> file, name |-> name]

Bindings(f, n) ==
  {Free} \cup {Defined(c) : c \in Calls}
    \cup {Import(k, g, m) : k \in Imports \cap {"default"}, g \in Files \ {f}, m \in Names \ {n}}
    \cup {Import(k, g, n) : k \in Imports \cap {"named"}, g \in Files \ {f}}

(* What a file may bind its names to, and the projects made of such files. *)
Bound(f) ==
  {b \in [Names -> UNION {Bindings(f, n) : n \in Names}] : \A n \in Names : b[n] \in Bindings(f, n)}
Projects ==
  {b \in [Files -> UNION {Bound(f) : f \in Files}] : \A f \in Files : b[f] \in Bound(f)}

IsFunction(f, n) == bound[f][n].kind = "function"
IsImported(f, n) == bound[f][n].kind \in {"named", "default"}

-----------------------------------------------------------------------------
(* What the code makes of a name.                                          *)

(* findExportedName: for a default import, the local name.                 *)
ExportedName(f, n) ==
  IF bound[f][n].kind = "default" THEN n ELSE bound[f][n].name

(* The function whose body is walked for a name called in a file: at most  *)
(* one, given by its file and its name there.                              *)
Target(f, n) ==
  LET at == IF IsImported(f, n) THEN <<bound[f][n].file, ExportedName(f, n)>>
                                ELSE <<f, n>> IN
    IF IsFunction(at[1], at[2]) THEN {at} ELSE {}

(* A symbol knows its name and the file to resolve it from.                *)
Symbol == [name : Names, file : Files]

Found(f, calls) == [i \in DOMAIN calls |-> [name |-> calls[i], file |-> f]]

(* Mutant of Expand: hops resolve from the handler's file, whatever file   *)
(* the import led into.                                                    *)
ExpandFromHandler(s) ==
  IF Target(s.file, s.name) = {} THEN <<>>
  ELSE LET t == CHOOSE t \in Target(s.file, s.name) : TRUE IN
         Found(HandlerFile, bound[t[1]][t[2]].calls)

(* expandFrontierEntry.                                                    *)
Expand(s) ==
  IF Target(s.file, s.name) = {} THEN <<>>
  ELSE LET t == CHOOSE t \in Target(s.file, s.name) : TRUE IN
         Found(t[1], bound[t[1]][t[2]].calls)

-----------------------------------------------------------------------------
(* What a name means in the language: the function it is bound to.         *)

Meaning(f, n) ==
  LET at == IF IsImported(f, n) THEN <<bound[f][n].file, bound[f][n].name>>
                                ELSE <<f, n>> IN
    IF IsFunction(at[1], at[2]) THEN {at} ELSE {}

(* No name means different functions in two files.                         *)
OneMeaning == \A f, g \in Files, n \in Names : Meaning(f, n) = Meaning(g, n)

(* No function is imported under another name than its own.                *)
SpelledAlike == \A f \in Files, n \in Names : bound[f][n].kind # "default"

(* The calls within so many hops, each with the file it stands in.         *)
Within[k \in 1 .. MaxDepth] ==
  IF k = 1
    THEN {<<HandlerFile, n>> : n \in Range(handler)}
    ELSE Within[k - 1] \cup UNION
           {UNION {{<<t[1], c>> : c \in Range(bound[t[1]][t[2]].calls)}
                     : t \in Meaning(r[1], r[2])} : r \in Within[k - 1]}

NamesWithin(k) == {r[2] : r \in Within[k]}

-----------------------------------------------------------------------------
TypeOK ==
  /\ cap \in Caps /\ visited \subseteq Names
  /\ out \in Seq([name : Names, file : Files, hops : 1 .. MaxDepth])
  /\ hop \in 1 .. MaxDepth
  /\ todo \in Seq(Symbol) /\ frontier \in Seq(Symbol) /\ next \in Seq(Symbol)
  /\ done \in BOOLEAN

Init ==
  /\ bound \in Projects
  /\ handler \in HandlerCalls
  /\ cap \in Caps
  /\ visited = {} /\ out = <<>> /\ hop = 1 /\ next = <<>> /\ frontier = <<>>
  /\ todo = Found(HandlerFile, handler)
  /\ done = FALSE

(* Mutants of Fresh: the cap is one too low; a name is taken once per hop. *)
FreshShort(s) == s.name \notin visited /\ Len(out) + 1 < cap
FreshAtHop(s) ==
  /\ ~ \E i \in DOMAIN out : out[i].name = s.name /\ out[i].hops = hop
  /\ Len(out) < cap

(* record: a name is taken once, and no name is taken at the cap.          *)
Fresh(s) == s.name \notin visited /\ Len(out) < cap

Record ==
  /\ todo # <<>>
  /\ LET s == Head(todo) IN
       /\ Fresh(s)
       /\ visited' = visited \cup {s.name}
       /\ out' = Append(out, [name |-> s.name, file |-> s.file, hops |-> hop])
       /\ next' = Append(next, s)
  /\ todo' = Tail(todo)
  /\ UNCHANGED <<project, hop, frontier, done>>

Drop ==
  /\ todo # <<>> /\ ~Fresh(Head(todo))
  /\ todo' = Tail(todo)
  /\ UNCHANGED <<project, visited, out, hop, frontier, next, done>>

ExpandNext ==
  /\ todo = <<>> /\ frontier # <<>>
  /\ todo' = Expand(Head(frontier))
  /\ frontier' = Tail(frontier)
  /\ UNCHANGED <<project, visited, out, hop, next, done>>

LastHop == hop = MaxDepth \/ next = <<>> \/ Len(out) >= cap

NextHop ==
  /\ todo = <<>> /\ frontier = <<>> /\ ~done /\ ~LastHop
  /\ hop' = hop + 1
  /\ frontier' = next /\ next' = <<>>
  /\ UNCHANGED <<project, visited, out, todo, done>>

Return ==
  /\ todo = <<>> /\ frontier = <<>> /\ ~done /\ LastHop
  /\ done' = TRUE
  /\ UNCHANGED <<project, visited, out, hop, todo, frontier, next>>

Next == Record \/ Drop \/ ExpandNext \/ NextHop \/ Return

Spec == Init /\ [][Next]_vars

-----------------------------------------------------------------------------
(* Where a name has one meaning, every symbol reported can be called by    *)
(* the handler over so many hops as it says and over no fewer: the rules   *)
(* prefer near symbols, and a reader is told the distance.                 *)
HopsAreLeast ==
  OneMeaning /\ SpelledAlike =>
    \A i \in DOMAIN out :
      /\ out[i].name \in NamesWithin(out[i].hops)
      /\ out[i].hops > 1 => out[i].name \notin NamesWithin(out[i].hops - 1)

(* Where a name has one meaning, all that the handler can call within the  *)
(* depth is reported, or the cap is reached and nothing farther away was   *)
(* preferred.  Two functions of one name in two files hide each other, and *)
(* a default import under another name is not followed: that is the        *)
(* premise.                                                                *)
MissesOnlyAtTheCap ==
  done /\ OneMeaning /\ SpelledAlike =>
    \A k \in 1 .. MaxDepth : \A n \in NamesWithin(k) \ visited :
      Len(out) = cap /\ \A i \in DOMAIN out : out[i].hops <= k

(* The handler itself calls symbol i of the report, or a function does     *)
(* that a symbol reported one hop before stands for.                       *)
HasCaller(i) ==
  \/ out[i].hops = 1 /\ out[i].file = HandlerFile /\ out[i].name \in Range(handler)
  \/ \E j \in 1 .. i - 1 :
       /\ out[j].hops + 1 = out[i].hops
       /\ \E t \in Meaning(out[j].file, out[j].name) :
            /\ out[i].file = t[1]
            /\ out[i].name \in Range(bound[t[1]][t[2]].calls)

(* Also where names mean different things in different files, nothing is   *)
(* reported without a chain of calls from the handler to it.               *)
CallChain == SpelledAlike => \A i \in DOMAIN out : HasCaller(i)

(* No name is reported twice, which is what makes the search end on calls  *)
(* in a circle, and no more names than the cap allows.                     *)
TakenOnce ==
  /\ \A i, j \in DOMAIN out : out[i].name = out[j].name => i = j
  /\ Len(out) <= cap
=============================================================================
