----------------------------- MODULE McpInitProofs -----------------------------
(***************************************************************************)
(* What `hookwarden-mcp init` does to configurations, for any clients,     *)
(* processes and servers.  The inductive invariant has a part that always  *)
(* holds, and one that holds as long as no two of them work on one thing   *)
(* at once: there is one process at work, what it read is still there, and *)
(* what it has written beside it is what it says.                          *)
(***************************************************************************)
EXTENDS McpInit, TLAPS

Engaged(p) == init[p].at \in {"bak", "fillBak", "tmp", "fillTmp", "rename"}

\* Always: a client without a row is still to be visited.
ProcessInv(p) ==
  /\ Working(p) \/ init[p].at = "idle" => init[p].todo # <<>>
  /\ init[p].at = "ended" => init[p].todo = <<>>
  /\ init[p].at = "idle" => \A c \in Client : init[p].rows[c] = "none"
  /\ \A c \in Client : init[p].rows[c] = "none" =>
       \E i \in DOMAIN init[p].todo : init[p].todo[i] = c

\* Always: there are no servers in the file of a client with one per server.
YamlInv ==
  \A c \in Client : c \in Yaml =>
    config[c].entries \cap Servers = {} /\ tmp[c].entries \cap Servers = {}

\* Without an overlap: what was read is in place, backed up, and merged.
AloneInv(p) ==
  /\ Engaged(p) => config[Now(p)] = init[p].existing
  /\ init[p].at \in {"tmp", "fillTmp", "rename"} /\ init[p].existing.kind # "absent" =>
       bak[Now(p)] = init[p].existing
  /\ init[p].at = "fillTmp" => init[p].into = "tmp" /\ tmp[Now(p)] = Torn
  /\ init[p].at = "rename" => tmp[Now(p)] = Merged(Now(p), init[p].existing)
  /\ ~init[p].dry => \A c \in Client :
       init[p].rows[c] \notin {"none", "error"} => Has(c, config[c])

OneAtWork == \A p, q \in Inits : Working(p) /\ Working(q) => p = q

IInv ==
  /\ TypeOK /\ YamlInv
  /\ \A p \in Inits : ProcessInv(p)
  /\ ~overlap => OneAtWork /\ \A p \in Inits : AloneInv(p)

-----------------------------------------------------------------------------
\* Texts.

LEMMA Contents ==
  /\ Nothing \in Content /\ Torn \in Content
  /\ \A e \in SUBSET Entry : Whole(e) \in Content
BY DEF Content, Nothing, Torn, Whole

\* What init writes is a configuration with hookwarden and the servers in it.
LEMMA MergedText ==
  ASSUME NEW c, NEW content \in Content
  PROVE  /\ Merged(c, content) \in Content
         /\ Merged(c, content).kind = "whole"
         /\ Has(c, Merged(c, content))
         /\ c \in Yaml => Merged(c, content).entries \cap Servers = {}
         /\ c \notin Yaml => content.entries \cap Servers \subseteq Merged(c, content).entries
<1>1. Merged(c, content) = Whole(IF c \in Yaml THEN {"ours"} ELSE (content.entries \ {"mine"}) \cup {"ours"})
  BY DEF Merged
<1>2. content.entries \subseteq Entry /\ "ours" \in Entry
  BY DEF Content, Entry
<1> QED
  BY <1>1, <1>2, ServersAssumption DEF Whole, Content, Has

\* The client a process is at.
LEMMA AtClient ==
  ASSUME NEW todo \in Seq(Client), todo # <<>>
  PROVE  /\ Head(todo) \in Client /\ Tail(todo) \in Seq(Client)
         /\ \A c \in Client : (\E i \in DOMAIN todo : todo[i] = c) /\ c # Head(todo) =>
              \E i \in DOMAIN Tail(todo) : Tail(todo)[i] = c
<1>1. Head(todo) \in Client /\ Tail(todo) \in Seq(Client) /\ Len(todo) > 0
  OBVIOUS
<1>2. ASSUME NEW i \in DOMAIN todo, todo[i] # Head(todo)
      PROVE  i - 1 \in DOMAIN Tail(todo) /\ Tail(todo)[i - 1] = todo[i]
  <2>1. i \in 1 .. Len(todo) /\ i # 1
    BY <1>2
  <2>2. Len(Tail(todo)) = Len(todo) - 1
    BY <1>1
  <2> QED
    BY <1>1, <2>1, <2>2
<1> QED
  BY <1>1, <1>2

LEMMA InitInv == Init => IInv
<1> SUFFICES ASSUME Init PROVE IInv
  OBVIOUS
<1>1. /\ Clients \in Seq(Client) /\ Clients # <<>>
      /\ \A c \in Client : \E i \in DOMAIN Clients : Clients[i] = c
  BY ClientsAssumption DEF Client
<1>2. \A c \in Client : Configs(c) \subseteq Content
  BY Contents DEF Configs, Entry
<1>3. config \in [Client -> Content] /\ bak \in [Client -> Content] /\ tmp \in [Client -> Content]
  BY <1>2, Contents DEF Init
<1>4. init \in [Inits -> Process]
  BY <1>1, Contents DEF Init, Process
<1>5. TypeOK
  <2>1. saves \in 0 .. MaxSaves
    BY SavesAssumption DEF Init
  <2>2. overlap \in BOOLEAN
    BY DEF Init
  <2> QED
    BY <1>3, <1>4, <2>1, <2>2 DEF TypeOK
<1>6. YamlInv
  <2> SUFFICES ASSUME NEW c \in Client, c \in Yaml
               PROVE  config[c].entries \cap Servers = {} /\ tmp[c].entries \cap Servers = {}
    BY DEF YamlInv
  <2>1. config[c].entries \subseteq {"mine"}
    <3>1. config[c] \in {Nothing, Torn} \cup {Whole(e) : e \in SUBSET {"mine"}}
      BY DEF Init, Configs
    <3>2. CASE config[c] \in {Nothing, Torn}
      BY <3>2 DEF Nothing, Torn
    <3>3. CASE \E e \in SUBSET {"mine"} : config[c] = Whole(e)
      BY <3>3 DEF Whole
    <3> QED
      BY <3>1, <3>2, <3>3
  <2>2. tmp[c].entries = {}
    BY DEF Init, Nothing
  <2> QED
    BY <2>1, <2>2, ServersAssumption
<1>7. ASSUME NEW p \in Inits PROVE ProcessInv(p) /\ AloneInv(p) /\ ~Working(p)
  BY <1>1 DEF Init, ProcessInv, AloneInv, Engaged, Working
<1> QED
  BY <1>5, <1>6, <1>7 DEF IInv, OneAtWork

-----------------------------------------------------------------------------
\* The process after the row of its client.
Done(p, status) ==
  [init[p] EXCEPT !.rows[Now(p)] = status, !.todo = Tail(init[p].todo),
                  !.existing = Nothing, !.into = "none",
                  !.at = IF Tail(init[p].todo) = <<>> THEN "ended" ELSE "read"]

LEMMA DoneFacts ==
  ASSUME TypeOK, NEW p \in Inits, ProcessInv(p), Working(p),
         NEW status \in {"added", "updated", "skipped", "error"}
  PROVE  /\ Done(p, status) \in Process
         /\ Done(p, status).dry = init[p].dry
         /\ Done(p, status).at = IF Done(p, status).todo = <<>> THEN "ended" ELSE "read"
         /\ \A c \in Client : Done(p, status).rows[c] = IF c = Now(p) THEN status ELSE init[p].rows[c]
         /\ \A c \in Client : Done(p, status).rows[c] = "none" =>
              \E i \in DOMAIN Done(p, status).todo : Done(p, status).todo[i] = c
<1>1. init[p] \in Process
  BY DEF TypeOK
<1>2. init[p].todo \in Seq(Client) /\ init[p].todo # <<>>
  BY <1>1 DEF Process, ProcessInv
<1>3. Now(p) \in Client /\ Tail(init[p].todo) \in Seq(Client)
  BY <1>2, AtClient DEF Now
<1>4. init[p].rows \in [Client -> {"none", "added", "updated", "skipped", "error"}]
  BY <1>1 DEF Process
<1>5. [init[p].rows EXCEPT ![Now(p)] = status] \in [Client -> {"none", "added", "updated", "skipped", "error"}]
  BY <1>3, <1>4
<1>6. /\ Done(p, status).rows = [init[p].rows EXCEPT ![Now(p)] = status]
      /\ Done(p, status).todo = Tail(init[p].todo)
      /\ Done(p, status).dry = init[p].dry
      /\ Done(p, status).at = IF Tail(init[p].todo) = <<>> THEN "ended" ELSE "read"
  BY <1>1 DEF Done, Process
<1>7. Done(p, status) \in Process
  BY <1>1, <1>3, <1>5, Contents DEF Done, Process
<1>8. \A c \in Client : Done(p, status).rows[c] = IF c = Now(p) THEN status ELSE init[p].rows[c]
  BY <1>4, <1>6
<1>9. ASSUME NEW c \in Client, Done(p, status).rows[c] = "none"
      PROVE  \E i \in DOMAIN Done(p, status).todo : Done(p, status).todo[i] = c
  <2>1. c # Now(p) /\ \E i \in DOMAIN init[p].todo : init[p].todo[i] = c
    BY <1>8, <1>9 DEF ProcessInv
  <2>2. c # Head(init[p].todo)
    BY <2>1 DEF Now
  <2>3. \E i \in DOMAIN Tail(init[p].todo) : Tail(init[p].todo)[i] = c
    BY <1>2, <2>1, <2>2, AtClient
  <2> QED
    BY <1>6, <2>3
<1> QED
  BY <1>6, <1>7, <1>8, <1>9

\* What a step of another process leaves of one.
Kept(q) ==
  /\ init'[q].at = init[q].at /\ init'[q].todo = init[q].todo
  /\ init'[q].existing = init[q].existing /\ init'[q].rows = init[q].rows
  /\ init'[q].dry = init[q].dry
  /\ init'[q].into = init[q].into \/ Working(q)

LEMMA KeptKeeps == ASSUME NEW q, ProcessInv(q), Kept(q) PROVE ProcessInv(q)'
BY DEF ProcessInv, Kept, Working

\* A step that enters one place of one process.
LEMMA Entered ==
  ASSUME TypeOK, NEW p \in Inits, NEW r \in Process, init' = [init EXCEPT ![p] = r]
  PROVE  init' \in [Inits -> Process] /\ init'[p] = r /\ \A q \in Inits \ {p} : Kept(q)
BY DEF TypeOK, Kept

LEMMA AtWork ==
  ASSUME TypeOK, NEW p \in Inits, ProcessInv(p), Working(p)
  PROVE  /\ init[p] \in Process /\ Now(p) \in Client /\ init[p].todo # <<>>
         /\ config[Now(p)] \in Content /\ tmp[Now(p)] \in Content
         /\ init[p].existing \in Content
BY AtClient DEF TypeOK, Process, ProcessInv, Now

-----------------------------------------------------------------------------
\* What always holds, step by step.

\* A step that only moves a process on, at work or not.
LEMMA Moves ==
  ASSUME IInv, NEW p \in Inits, NEW r \in Process, init' = [init EXCEPT ![p] = r],
         Working(p) \/ init[p].at = "idle", r.at \notin {"idle", "ended"}, r.todo = init[p].todo, r.rows = init[p].rows
  PROVE  init' \in [Inits -> Process] /\ \A q \in Inits : ProcessInv(q)'
<1>1. init' \in [Inits -> Process] /\ init'[p] = r /\ \A q \in Inits \ {p} : Kept(q)
  BY Entered DEF IInv
<1>2. \A q \in Inits \ {p} : ProcessInv(q)'
  BY <1>1, KeptKeeps DEF IInv
<1>3. ProcessInv(p)'
  BY <1>1 DEF IInv, ProcessInv
<1> QED
  BY <1>1, <1>2, <1>3

\* A step that gives a client its row.
LEMMA Rows ==
  ASSUME IInv, NEW p \in Inits, Working(p), NEW status \in {"added", "updated", "skipped", "error"},
         init'[p] = Done(p, status), DOMAIN init' = Inits, init' = [q \in Inits |-> init'[q]],
         \A q \in Inits \ {p} : Kept(q) /\ init'[q] \in Process
  PROVE  init' \in [Inits -> Process] /\ \A q \in Inits : ProcessInv(q)'
<1>1. TypeOK /\ ProcessInv(p)
  BY DEF IInv
<1>2. ProcessInv(p)' /\ init'[p] \in Process
  BY <1>1, DoneFacts DEF ProcessInv, Working
<1>3. \A q \in Inits \ {p} : ProcessInv(q)'
  BY KeptKeeps DEF IInv
<1> QED
  BY <1>2, <1>3

LEMMA RunStep == ASSUME IInv, NEW p \in Inits, Run(p)
  PROVE TypeOK' /\ YamlInv' /\ \A q \in Inits : ProcessInv(q)'
<1> PICK force \in BOOLEAN, dry \in BOOLEAN :
      init' = [init EXCEPT ![p].at = "read", ![p].force = force, ![p].dry = dry]
  BY DEF Run
<1> DEFINE r == [init[p] EXCEPT !.at = "read", !.force = force, !.dry = dry]
<1>1. r \in Process /\ r.at = "read" /\ r.todo = init[p].todo /\ r.rows = init[p].rows
  BY DEF IInv, TypeOK, Process
<1>2. init' = [init EXCEPT ![p] = r]
  OBVIOUS
<1>3. init' \in [Inits -> Process] /\ \A q \in Inits : ProcessInv(q)'
  BY <1>1, <1>2, Moves DEF Run
<1>4. overlap' \in BOOLEAN
  BY DEF Run, IInv, TypeOK
<1>5. UNCHANGED <<config, bak, tmp, saves>>
  BY DEF Run
<1> QED
  BY <1>3, <1>4, <1>5 DEF IInv, TypeOK, YamlInv

LEMMA ReadStep == ASSUME IInv, NEW p \in Inits, Read(p)
  PROVE TypeOK' /\ YamlInv' /\ \A q \in Inits : ProcessInv(q)'
<1>0. TypeOK /\ ProcessInv(p) /\ Working(p)
  BY DEF IInv, Read, Working
<1>1. UNCHANGED <<config, bak, tmp, saves, overlap>>
  BY DEF Read, Files
<1>2. CASE \E status \in {"added", "updated", "skipped", "error"} : Row(p, status)
  <2> PICK status \in {"added", "updated", "skipped", "error"} : Row(p, status)
    BY <1>2
  <2>1. init' = [init EXCEPT ![p] = Done(p, status)]
    BY DEF Row, Done
  <2>2. Done(p, status) \in Process
    BY <1>0, DoneFacts
  <2>3. init' \in [Inits -> Process] /\ init'[p] = Done(p, status) /\ \A q \in Inits \ {p} : Kept(q)
    BY <1>0, <2>1, <2>2, Entered
  <2>4. init' \in [Inits -> Process] /\ \A q \in Inits : ProcessInv(q)'
    BY <1>0, <2>3, Rows
  <2> QED
    BY <1>1, <2>4 DEF IInv, TypeOK, YamlInv
<1>3. CASE \E at \in {"tmp", "bak"} :
             init' = [init EXCEPT ![p].existing = config[Now(p)], ![p].at = at]
  <2> PICK at \in {"tmp", "bak"} : init' = [init EXCEPT ![p].existing = config[Now(p)], ![p].at = at]
    BY <1>3
  <2> DEFINE r == [init[p] EXCEPT !.existing = config[Now(p)], !.at = at]
  <2>1. r \in Process /\ r.at = at /\ r.todo = init[p].todo /\ r.rows = init[p].rows
    BY <1>0, AtWork DEF Process
  <2>2. init' = [init EXCEPT ![p] = r]
    OBVIOUS
  <2>3. init' \in [Inits -> Process] /\ \A q \in Inits : ProcessInv(q)'
    BY <1>0, <2>1, <2>2, Moves
  <2> QED
    BY <1>1, <2>3 DEF IInv, TypeOK, YamlInv
<1> QED
  BY <1>2, <1>3 DEF Read

LEMMA OpenBakStep == ASSUME IInv, NEW p \in Inits, OpenBak(p)
  PROVE TypeOK' /\ YamlInv' /\ \A q \in Inits : ProcessInv(q)'
<1>0. TypeOK /\ ProcessInv(p) /\ Working(p) /\ YamlInv
  BY DEF IInv, OpenBak, Working
<1> DEFINE c == Now(p)
<1> DEFINE r == [init[p] EXCEPT !.at = "fillBak"]
<1>1. r \in Process /\ r.at = "fillBak" /\ r.todo = init[p].todo /\ r.rows = init[p].rows
  BY <1>0, AtWork DEF Process
<1>2. init' = [init EXCEPT ![p] = r]
  BY DEF OpenBak
<1>3. init' \in [Inits -> Process] /\ \A q \in Inits : ProcessInv(q)'
  BY <1>0, <1>1, <1>2, Moves
<1>4. bak' \in [Client -> Content]
  BY <1>0, AtWork, Contents DEF OpenBak, TypeOK
<1> QED
  BY <1>0, <1>3, <1>4 DEF OpenBak, TypeOK, YamlInv

LEMMA FillBakStep == ASSUME IInv, NEW p \in Inits, FillBak(p)
  PROVE TypeOK' /\ YamlInv' /\ \A q \in Inits : ProcessInv(q)'
<1>0. TypeOK /\ ProcessInv(p) /\ Working(p) /\ YamlInv
  BY DEF IInv, FillBak, Working
<1> DEFINE c == Now(p)
<1> DEFINE r == [init[p] EXCEPT !.at = "tmp"]
<1>1. r \in Process /\ r.at = "tmp" /\ r.todo = init[p].todo /\ r.rows = init[p].rows
  BY <1>0, AtWork DEF Process
<1>2. init' = [init EXCEPT ![p] = r]
  BY DEF FillBak
<1>3. init' \in [Inits -> Process] /\ \A q \in Inits : ProcessInv(q)'
  BY <1>0, <1>1, <1>2, Moves
<1>4. bak' \in [Client -> Content]
  BY <1>0, AtWork DEF FillBak, BackedUp, TypeOK
<1> QED
  BY <1>0, <1>3, <1>4 DEF FillBak, TypeOK, YamlInv

LEMMA OpenTmpStep == ASSUME IInv, NEW p \in Inits, OpenTmp(p)
  PROVE TypeOK' /\ YamlInv' /\ \A q \in Inits : ProcessInv(q)'
<1>0. TypeOK /\ ProcessInv(p) /\ Working(p) /\ YamlInv
  BY DEF IInv, OpenTmp, Working
<1> DEFINE c == Now(p)
<1> DEFINE r == [init[p] EXCEPT !.at = "fillTmp", !.into = "tmp"]
<1>1. r \in Process /\ r.at = "fillTmp" /\ r.todo = init[p].todo /\ r.rows = init[p].rows
  BY <1>0, AtWork DEF Process
<1>2. init' = [init EXCEPT ![p] = r]
  BY DEF OpenTmp
<1>3. init' \in [Inits -> Process] /\ \A q \in Inits : ProcessInv(q)'
  BY <1>0, <1>1, <1>2, Moves
<1>4. tmp' \in [Client -> Content]
  BY <1>0, AtWork, Contents DEF OpenTmp, TypeOK
<1>5. YamlInv'
  BY <1>0 DEF OpenTmp, YamlInv, Torn, TypeOK
<1> QED
  BY <1>0, <1>3, <1>4, <1>5 DEF OpenTmp, TypeOK

LEMMA FilledText ==
  ASSUME NEW d, NEW content \in Content, NEW file, NEW f \in Filled(file, Merged(d, content))
  PROVE  f \in Content /\ (d \in Yaml => f.entries \cap Servers = {})
<1>1. f \in {Merged(d, content), Torn}
  BY DEF Filled
<1> QED
  BY <1>1, MergedText, Contents DEF Torn

LEMMA FillTmpStep == ASSUME IInv, NEW p \in Inits, FillTmp(p)
  PROVE TypeOK' /\ YamlInv' /\ \A q \in Inits : ProcessInv(q)'
<1>0. TypeOK /\ ProcessInv(p) /\ Working(p) /\ YamlInv
  BY DEF IInv, FillTmp, Working
<1> DEFINE c == Now(p)
<1> DEFINE r == [init[p] EXCEPT !.at = "rename"]
<1>1. r \in Process /\ r.at = "rename" /\ r.todo = init[p].todo /\ r.rows = init[p].rows
  BY <1>0, AtWork DEF Process
<1>2. init' = [init EXCEPT ![p] = r]
  BY DEF FillTmp
<1>3. init' \in [Inits -> Process] /\ \A q \in Inits : ProcessInv(q)'
  BY <1>0, <1>1, <1>2, Moves
<1>4. /\ tmp' \in [Client -> Content] /\ config' \in [Client -> Content] /\ YamlInv'
  <2>1. init[p].existing \in Content /\ c \in Client
    BY <1>0, AtWork
  <2>2. CASE \E f \in Filled(tmp[c], Merged(c, init[p].existing)) :
               tmp' = [tmp EXCEPT ![c] = f] /\ UNCHANGED config
    BY <1>0, <2>1, <2>2, FilledText DEF TypeOK, YamlInv
  <2>3. CASE \E f \in Filled(config[c], Merged(c, init[p].existing)) :
               config' = [config EXCEPT ![c] = f] /\ UNCHANGED tmp
    BY <1>0, <2>1, <2>3, FilledText DEF TypeOK, YamlInv
  <2>4. CASE UNCHANGED <<config, tmp>>
    BY <1>0, <2>4 DEF TypeOK, YamlInv
  <2> QED
    BY <2>2, <2>3, <2>4 DEF FillTmp
<1> QED
  BY <1>0, <1>3, <1>4 DEF FillTmp, TypeOK

LEMMA RenameStep == ASSUME IInv, NEW p \in Inits, Rename(p)
  PROVE TypeOK' /\ YamlInv' /\ \A q \in Inits : ProcessInv(q)'
<1>0. TypeOK /\ ProcessInv(p) /\ Working(p) /\ YamlInv
  BY DEF IInv, Rename, Working
<1> DEFINE c == Now(p)
<1>1. c \in Client
  BY <1>0, AtWork
<1>2. Status(p) \in {"added", "updated", "skipped", "error"}
  BY DEF Status
<1>3. /\ init' = [q \in Inits |-> init'[q]] /\ DOMAIN init' = Inits
      /\ init'[p] = Done(p, Status(p))
  BY DEF Rename, Done
<1>4. ASSUME NEW q \in Inits \ {p} PROVE Kept(q) /\ init'[q] \in Process
  <2>1. init'[q] = [init[q] EXCEPT !.into = Moved(p, c, q)] /\ init[q] \in Process
    BY <1>0 DEF Rename, TypeOK
  <2>2. Moved(p, c, q) \in {init[q].into, "config", "gone"} /\ (Moved(p, c, q) # init[q].into => Working(q))
    BY DEF Moved, Working
  <2> QED
    BY <2>1, <2>2 DEF Kept, Process
<1>5. init' \in [Inits -> Process] /\ \A q \in Inits : ProcessInv(q)'
  BY <1>0, <1>2, <1>3, <1>4, Rows
<1>6. config' \in [Client -> Content] /\ tmp' \in [Client -> Content]
  BY <1>0, <1>1, Contents DEF Rename, TypeOK
<1>7. YamlInv'
  BY <1>0, <1>1 DEF Rename, YamlInv, Nothing, TypeOK
<1> QED
  BY <1>0, <1>5, <1>6, <1>7 DEF Rename, TypeOK

LEMMA DieStep == ASSUME IInv, NEW p \in Inits, Die(p)
  PROVE TypeOK' /\ YamlInv' /\ \A q \in Inits : ProcessInv(q)'
<1>0. TypeOK /\ ProcessInv(p) /\ Working(p) /\ YamlInv
  BY DEF IInv, Die
<1> DEFINE r == [init[p] EXCEPT !.at = "dead"]
<1>1. r \in Process /\ r.at = "dead" /\ r.todo = init[p].todo /\ r.rows = init[p].rows
  BY <1>0, AtWork DEF Process
<1>2. init' = [init EXCEPT ![p] = r]
  BY DEF Die
<1>3. init' \in [Inits -> Process] /\ \A q \in Inits : ProcessInv(q)'
  BY <1>0, <1>1, <1>2, Moves
<1> QED
  BY <1>0, <1>3 DEF Die, Files, TypeOK, YamlInv

\* The text an application saves.
LEMMA SavedText ==
  ASSUME TypeOK, NEW c \in Client, Save(c)
  PROVE  \E e \in SUBSET Entry :
           /\ config' = [config EXCEPT ![c] = Whole(e)]
           /\ config[c].entries \cap {"mine", "ours"} = e \cap {"mine", "ours"}
<1> PICK s \in Servers :
      config' = [config EXCEPT ![c] = Whole(
        IF s \in config[c].entries THEN config[c].entries \ {s} ELSE config[c].entries \cup {s})]
  BY DEF Save
<1> DEFINE e == IF s \in config[c].entries THEN config[c].entries \ {s} ELSE config[c].entries \cup {s}
<1>1. config[c].entries \subseteq Entry /\ s \in Entry
  BY DEF TypeOK, Content, Entry
<1>2. s \notin {"mine", "ours"}
  BY ServersAssumption
<1>3. e \in SUBSET Entry /\ config[c].entries \cap {"mine", "ours"} = e \cap {"mine", "ours"}
  BY <1>1, <1>2
<1> QED
  BY <1>3

LEMMA SaveStep == ASSUME IInv, NEW c \in Client, Save(c)
  PROVE TypeOK' /\ YamlInv' /\ \A q \in Inits : ProcessInv(q)'
<1>1. PICK e \in SUBSET Entry : config' = [config EXCEPT ![c] = Whole(e)]
  BY SavedText DEF IInv
<1>2. config' \in [Client -> Content] /\ c \notin Yaml
  BY <1>1, Contents DEF IInv, TypeOK, Save
<1>3. saves' \in 0 .. MaxSaves
  BY SavesAssumption DEF IInv, TypeOK, Save
<1>4. overlap' \in BOOLEAN
  BY DEF Save, IInv, TypeOK
<1>5. TypeOK'
  BY <1>2, <1>3, <1>4 DEF IInv, TypeOK, Save
<1>6. YamlInv'
  BY <1>1, <1>2 DEF IInv, TypeOK, YamlInv, Save
<1>7. \A q \in Inits : ProcessInv(q)'
  BY DEF IInv, ProcessInv, Working, Save
<1> QED
  BY <1>5, <1>6, <1>7

LEMMA AlwaysStep == ASSUME IInv, Next PROVE TypeOK' /\ YamlInv' /\ \A q \in Inits : ProcessInv(q)'
BY RunStep, ReadStep, OpenBakStep, FillBakStep, OpenTmpStep, FillTmpStep, RenameStep, DieStep,
   SaveStep DEF Next

-----------------------------------------------------------------------------
\* What holds as long as nothing overlaps.

LEMMA OverlapStays == ASSUME IInv, Next, ~overlap' PROVE ~overlap
BY DEF Next, Run, Read, OpenBak, FillBak, OpenTmp, FillTmp, Rename, Die, Save, Files

\* A step of a process, alone: the configuration stays as it is, or the rename
\* puts in its place what it is with hookwarden in it.
LEMMA ConfigStep ==
  ASSUME IInv, ~overlap, NEW p \in Inits,
         Run(p) \/ Read(p) \/ OpenBak(p) \/ FillBak(p) \/ OpenTmp(p) \/ FillTmp(p) \/ Rename(p) \/ Die(p)
  PROVE  \/ config' = config
         \/ /\ Rename(p) /\ Now(p) \in Client
            /\ config' = [config EXCEPT ![Now(p)] = Merged(Now(p), config[Now(p)])]
<1>1. AloneInv(p)
  BY DEF IInv
<1>2. CASE FillTmp(p)
  BY <1>1, <1>2 DEF FillTmp, AloneInv
<1>3. CASE Rename(p)
  <2>1. TypeOK /\ ProcessInv(p) /\ Working(p)
    BY <1>3 DEF IInv, Rename, Working
  <2>2. config[Now(p)] = init[p].existing /\ tmp[Now(p)] = Merged(Now(p), init[p].existing)
    BY <1>1, <1>3 DEF AloneInv, Engaged, Rename
  <2> QED
    BY <1>3, <2>1, <2>2, AtWork DEF Rename
<1> QED
  BY <1>2, <1>3 DEF Run, Read, OpenBak, FillBak, OpenTmp, Die, Files

\* A client that has an entry for hookwarden keeps one.
LEMMA EntryStays ==
  ASSUME IInv, Next, ~overlap', NEW c \in Client, Has(c, config[c])
  PROVE  Has(c, config'[c])
<1>0. ~overlap /\ TypeOK
  BY OverlapStays DEF IInv
<1>1. CASE \E p \in Inits : Run(p) \/ Read(p) \/ OpenBak(p) \/ FillBak(p) \/ OpenTmp(p)
                              \/ FillTmp(p) \/ Rename(p) \/ Die(p)
  <2> PICK p \in Inits : Run(p) \/ Read(p) \/ OpenBak(p) \/ FillBak(p) \/ OpenTmp(p)
                           \/ FillTmp(p) \/ Rename(p) \/ Die(p)
    BY <1>1
  <2>1. CASE config' = config
    BY <2>1
  <2>2. CASE /\ Now(p) \in Client
             /\ config' = [config EXCEPT ![Now(p)] = Merged(Now(p), config[Now(p)])]
    <3>1. config[Now(p)] \in Content
      BY <1>0, <2>2 DEF TypeOK
    <3>2. Has(Now(p), Merged(Now(p), config[Now(p)]))
      BY <3>1, MergedText
    <3> QED
      BY <1>0, <2>2, <3>2 DEF TypeOK
  <2> QED
    BY <1>0, <2>1, <2>2, ConfigStep
<1>2. CASE \E d \in Client : Save(d)
  <2> PICK d \in Client : Save(d)
    BY <1>2
  <2>1. PICK e \in SUBSET Entry :
           /\ config' = [config EXCEPT ![d] = Whole(e)]
           /\ config[d].entries \cap {"mine", "ours"} = e \cap {"mine", "ours"}
    BY <1>0, SavedText
  <2>2. CASE c = d
    <3>1. c \notin Yaml /\ config'[c].entries = e
      BY <1>0, <2>1, <2>2 DEF Save, TypeOK, Whole
    <3> QED
      BY <2>1, <2>2, <3>1 DEF Has
  <2>3. CASE c # d
    BY <1>0, <2>1, <2>3 DEF TypeOK
  <2> QED
    BY <2>2, <2>3
<1> QED
  BY <1>1, <1>2 DEF Next

\* A process that is not at work needs of the rest only that entries stay.
LEMMA RestsAlone ==
  ASSUME IInv, Next, ~overlap', NEW q \in Inits, ~Working(q), Kept(q)
  PROVE  ~Working(q)' /\ AloneInv(q)'
<1>1. AloneInv(q)
  BY OverlapStays DEF IInv
<1>2. \A c \in Client : Has(c, config[c]) => Has(c, config'[c])
  BY EntryStays
<1>3. ~Working(q)' /\ ~Engaged(q)'
  BY DEF Kept, Working, Engaged
<1>4. init'[q].rows = init[q].rows /\ init'[q].dry = init[q].dry
  BY DEF Kept
<1> QED
  BY <1>1, <1>2, <1>3, <1>4 DEF AloneInv, Engaged

\* A step of the process at work: it still is the only one, and the others rest.
LEMMA WorkAlone ==
  ASSUME IInv, Next, ~overlap', NEW p \in Inits,
         \A q \in Inits \ {p} : Kept(q) /\ ~Working(q), AloneInv(p)'
  PROVE  OneAtWork' /\ \A q \in Inits : AloneInv(q)'
BY RestsAlone DEF OneAtWork

\* The rows of a process that gives a client its row.
LEMMA DoneAlone ==
  ASSUME IInv, Next, ~overlap', NEW p \in Inits, Working(p), AloneInv(p),
         NEW status \in {"added", "updated", "skipped", "error"},
         init'[p] = Done(p, status),
         ~init[p].dry /\ status # "error" => Has(Now(p), config'[Now(p)])
  PROVE  AloneInv(p)'
<1>1. TypeOK /\ ProcessInv(p)
  BY DEF IInv
<1>2. /\ init'[p].dry = init[p].dry /\ init'[p].at \in {"ended", "read"}
      /\ \A c \in Client : init'[p].rows[c] = IF c = Now(p) THEN status ELSE init[p].rows[c]
  BY <1>1, DoneFacts
<1>3. ~Engaged(p)'
  BY <1>2 DEF Engaged
<1>4. ASSUME ~init'[p].dry, NEW c \in Client, init'[p].rows[c] \notin {"none", "error"}
      PROVE  Has(c, config'[c])
  <2>1. CASE c = Now(p)
    BY <1>2, <1>4, <2>1
  <2>2. CASE c # Now(p)
    <3>1. Has(c, config[c])
      BY <1>2, <1>4, <2>2 DEF AloneInv
    <3> QED
      BY <3>1, EntryStays
  <2> QED
    BY <2>1, <2>2
<1> QED
  BY <1>2, <1>3, <1>4 DEF AloneInv, Engaged

LEMMA RunAlone ==
  ASSUME IInv, Next, ~overlap', NEW p \in Inits, Run(p)
  PROVE  OneAtWork' /\ \A q \in Inits : AloneInv(q)'
<1>1. ~Working(p) /\ \A q \in Inits \ {p} : ~Working(q)
  BY DEF Run, Working
<1>2. PICK force \in BOOLEAN, dry \in BOOLEAN :
        init' = [init EXCEPT ![p].at = "read", ![p].force = force, ![p].dry = dry]
  BY DEF Run
<1>3. \A q \in Inits \ {p} : Kept(q)
  BY <1>2 DEF IInv, TypeOK, Kept
<1>4. /\ init'[p].at = "read"
      /\ \A c \in Client : init'[p].rows[c] = "none"
  BY <1>2 DEF Run, IInv, TypeOK, ProcessInv, Process
<1>5. AloneInv(p)'
  BY <1>4 DEF AloneInv, Engaged
<1> QED
  BY <1>1, <1>3, <1>5, WorkAlone

LEMMA ReadAlone ==
  ASSUME IInv, Next, ~overlap', NEW p \in Inits, Read(p)
  PROVE  OneAtWork' /\ \A q \in Inits : AloneInv(q)'
<1>0. TypeOK /\ ProcessInv(p) /\ AloneInv(p) /\ Working(p)
  BY OverlapStays DEF IInv, Read, Working
<1>1. \A q \in Inits \ {p} : ~Working(q)
  BY <1>0, OverlapStays DEF IInv, OneAtWork
<1>2. Now(p) \in Client /\ init[p] \in Process /\ config[Now(p)] \in Content
  BY <1>0, AtWork
<1>3. config' = config /\ bak' = bak /\ tmp' = tmp
  BY DEF Read, Files
<1>4. CASE \E status \in {"added", "updated", "skipped", "error"} :
             /\ Row(p, status)
             /\ ~init[p].dry /\ status # "error" => Has(Now(p), config[Now(p)])
  <2> PICK status \in {"added", "updated", "skipped", "error"} :
             /\ Row(p, status)
             /\ ~init[p].dry /\ status # "error" => Has(Now(p), config[Now(p)])
    BY <1>4
  <2>1. init' = [init EXCEPT ![p] = Done(p, status)]
    BY DEF Row, Done
  <2>2. init'[p] = Done(p, status) /\ \A q \in Inits \ {p} : Kept(q)
    BY <1>0, <2>1, DoneFacts, Entered
  <2>3. AloneInv(p)'
    BY <1>0, <1>3, <2>2, DoneAlone
  <2> QED
    BY <1>1, <2>2, <2>3, WorkAlone
<1>5. CASE /\ init' = [init EXCEPT ![p].existing = config[Now(p)],
                 ![p].at = IF config[Now(p)].kind = "absent" THEN "tmp" ELSE "bak"]
  <2>1. /\ init'[p].existing = config[Now(p)] /\ init'[p].todo = init[p].todo
        /\ init'[p].rows = init[p].rows /\ init'[p].dry = init[p].dry
        /\ init'[p].at = IF config[Now(p)].kind = "absent" THEN "tmp" ELSE "bak"
        /\ \A q \in Inits \ {p} : Kept(q)
    BY <1>0, <1>2, <1>5 DEF TypeOK, Process, Kept
  <2>2. AloneInv(p)'
    BY <1>0, <1>3, <2>1 DEF AloneInv, Engaged, Now
  <2> QED
    BY <1>1, <2>1, <2>2, WorkAlone
<1> QED
  BY <1>4, <1>5 DEF Read

LEMMA OpenBakAlone ==
  ASSUME IInv, Next, ~overlap', NEW p \in Inits, OpenBak(p)
  PROVE  OneAtWork' /\ \A q \in Inits : AloneInv(q)'
<1>0. TypeOK /\ ProcessInv(p) /\ AloneInv(p) /\ Working(p)
  BY OverlapStays DEF IInv, OpenBak, Working
<1>1. \A q \in Inits \ {p} : ~Working(q)
  BY <1>0, OverlapStays DEF IInv, OneAtWork
<1>2. Now(p) \in Client /\ init[p] \in Process /\ config[Now(p)] \in Content
  BY <1>0, AtWork
<1>3. /\ init'[p].at = "fillBak" /\ init'[p].todo = init[p].todo
      /\ init'[p].existing = init[p].existing /\ init'[p].rows = init[p].rows
      /\ init'[p].dry = init[p].dry
      /\ \A q \in Inits \ {p} : Kept(q)
  BY <1>0, <1>2 DEF OpenBak, TypeOK, Process, Kept
<1>4. config' = config /\ tmp' = tmp
  BY <1>0, <1>2 DEF OpenBak, TypeOK, AloneInv, Engaged
<1>5. AloneInv(p)'
  BY <1>0, <1>3, <1>4 DEF OpenBak, AloneInv, Engaged, Now
<1> QED
  BY <1>1, <1>3, <1>5, WorkAlone

LEMMA FillBakAlone ==
  ASSUME IInv, Next, ~overlap', NEW p \in Inits, FillBak(p)
  PROVE  OneAtWork' /\ \A q \in Inits : AloneInv(q)'
<1>0. TypeOK /\ ProcessInv(p) /\ AloneInv(p) /\ Working(p)
  BY OverlapStays DEF IInv, FillBak, Working
<1>1. \A q \in Inits \ {p} : ~Working(q)
  BY <1>0, OverlapStays DEF IInv, OneAtWork
<1>2. Now(p) \in Client /\ init[p] \in Process /\ config[Now(p)] \in Content
  BY <1>0, AtWork
<1>3. /\ init'[p].at = "tmp" /\ init'[p].todo = init[p].todo
      /\ init'[p].existing = init[p].existing /\ init'[p].rows = init[p].rows
      /\ init'[p].dry = init[p].dry
      /\ \A q \in Inits \ {p} : Kept(q)
  BY <1>0, <1>2 DEF FillBak, TypeOK, Process, Kept
<1>4. config' = config /\ tmp' = tmp /\ bak'[Now(p)] = init[p].existing
  BY <1>0, <1>2 DEF FillBak, TypeOK, AloneInv, Engaged, BackedUp
<1>5. AloneInv(p)'
  BY <1>0, <1>3, <1>4 DEF FillBak, AloneInv, Engaged, Now
<1> QED
  BY <1>1, <1>3, <1>5, WorkAlone

LEMMA OpenTmpAlone ==
  ASSUME IInv, Next, ~overlap', NEW p \in Inits, OpenTmp(p)
  PROVE  OneAtWork' /\ \A q \in Inits : AloneInv(q)'
<1>0. TypeOK /\ ProcessInv(p) /\ AloneInv(p) /\ Working(p)
  BY OverlapStays DEF IInv, OpenTmp, Working
<1>1. \A q \in Inits \ {p} : ~Working(q)
  BY <1>0, OverlapStays DEF IInv, OneAtWork
<1>2. Now(p) \in Client /\ init[p] \in Process /\ config[Now(p)] \in Content
  BY <1>0, AtWork
<1>3. /\ init'[p].at = "fillTmp" /\ init'[p].todo = init[p].todo
      /\ init'[p].existing = init[p].existing /\ init'[p].rows = init[p].rows
      /\ init'[p].dry = init[p].dry /\ init'[p].into = "tmp"
      /\ \A q \in Inits \ {p} : Kept(q)
  BY <1>0, <1>2 DEF OpenTmp, TypeOK, Process, Kept
<1>4. config' = config /\ bak' = bak /\ tmp'[Now(p)] = Torn
  BY <1>0, <1>2 DEF OpenTmp, TypeOK, AloneInv, Engaged
<1>5. AloneInv(p)'
  BY <1>0, <1>3, <1>4 DEF OpenTmp, AloneInv, Engaged, Now
<1> QED
  BY <1>1, <1>3, <1>5, WorkAlone

LEMMA FillTmpAlone ==
  ASSUME IInv, Next, ~overlap', NEW p \in Inits, FillTmp(p)
  PROVE  OneAtWork' /\ \A q \in Inits : AloneInv(q)'
<1>0. TypeOK /\ ProcessInv(p) /\ AloneInv(p) /\ Working(p)
  BY OverlapStays DEF IInv, FillTmp, Working
<1>1. \A q \in Inits \ {p} : ~Working(q)
  BY <1>0, OverlapStays DEF IInv, OneAtWork
<1>2. Now(p) \in Client /\ init[p] \in Process /\ config[Now(p)] \in Content
  BY <1>0, AtWork
<1>3. /\ init'[p].at = "rename" /\ init'[p].todo = init[p].todo
      /\ init'[p].existing = init[p].existing /\ init'[p].rows = init[p].rows
      /\ init'[p].dry = init[p].dry
      /\ \A q \in Inits \ {p} : Kept(q)
  BY <1>0, <1>2 DEF FillTmp, TypeOK, Process, Kept
<1>4. config' = config /\ bak' = bak /\ tmp'[Now(p)] = Merged(Now(p), init[p].existing)
  BY <1>0, <1>2 DEF FillTmp, TypeOK, AloneInv, Engaged, Filled, Torn
<1>5. AloneInv(p)'
  BY <1>0, <1>3, <1>4 DEF FillTmp, AloneInv, Engaged, Now
<1> QED
  BY <1>1, <1>3, <1>5, WorkAlone

LEMMA RenameAlone ==
  ASSUME IInv, Next, ~overlap', NEW p \in Inits, Rename(p)
  PROVE  OneAtWork' /\ \A q \in Inits : AloneInv(q)'
<1>0. TypeOK /\ ProcessInv(p) /\ AloneInv(p) /\ Working(p)
  BY OverlapStays DEF IInv, Rename, Working
<1>1. \A q \in Inits \ {p} : ~Working(q)
  BY <1>0, OverlapStays DEF IInv, OneAtWork
<1>2. Now(p) \in Client /\ init[p] \in Process /\ config[Now(p)] \in Content
  BY <1>0, AtWork
<1>3. Status(p) \in {"added", "updated", "skipped", "error"} /\ init'[p] = Done(p, Status(p))
  BY DEF Status, Rename, Done
<1>4. ASSUME NEW q \in Inits \ {p} PROVE Kept(q)
  <2>1. init'[q] = [init[q] EXCEPT !.into = Moved(p, Now(p), q)] /\ init[q] \in Process
    BY <1>0 DEF Rename, TypeOK
  <2>2. Moved(p, Now(p), q) # init[q].into => Working(q)
    BY DEF Moved, Working
  <2> QED
    BY <2>1, <2>2 DEF Kept, Process
<1>5. config'[Now(p)] = Merged(Now(p), init[p].existing) /\ init[p].existing \in Content
  BY <1>0, <1>2, AtWork DEF Rename, AloneInv, TypeOK
<1>6. AloneInv(p)'
  BY <1>0, <1>3, <1>5, MergedText, DoneAlone
<1> QED
  BY <1>1, <1>4, <1>6, WorkAlone

LEMMA DieAlone ==
  ASSUME IInv, Next, ~overlap', NEW p \in Inits, Die(p)
  PROVE  OneAtWork' /\ \A q \in Inits : AloneInv(q)'
<1>0. TypeOK /\ AloneInv(p) /\ Working(p)
  BY OverlapStays DEF IInv, Die
<1>1. \A q \in Inits \ {p} : ~Working(q)
  BY <1>0, OverlapStays DEF IInv, OneAtWork
<1>2. /\ init'[p].at = "dead" /\ init'[p].rows = init[p].rows /\ init'[p].dry = init[p].dry
      /\ config' = config /\ \A q \in Inits \ {p} : Kept(q)
  BY <1>0 DEF Die, Files, TypeOK, Process, Kept
<1>3. AloneInv(p)'
  BY <1>0, <1>2 DEF AloneInv, Engaged
<1> QED
  BY <1>1, <1>2, <1>3, WorkAlone

LEMMA SaveAlone ==
  ASSUME IInv, Next, ~overlap', NEW c \in Client, Save(c)
  PROVE  OneAtWork' /\ \A q \in Inits : AloneInv(q)'
<1>1. ~Busy(c) /\ ~overlap /\ init' = init /\ bak' = bak /\ tmp' = tmp
  BY OverlapStays DEF Save
<1>2. \A d \in Client \ {c} : config'[d] = config[d]
  BY DEF Save, IInv, TypeOK
<1>3. OneAtWork'
  BY <1>1 DEF IInv, OneAtWork, Working
<1>4. ASSUME NEW q \in Inits PROVE AloneInv(q)'
  <2>1. AloneInv(q) /\ Now(q)' = Now(q) /\ Engaged(q)' = Engaged(q)
    BY <1>1 DEF IInv, Now, Engaged
  <2>2. Engaged(q) => Now(q) \in Client \ {c}
    <3>1. Engaged(q) => Working(q) /\ Now(q) # c
      BY <1>1 DEF Busy, Engaged, Working
    <3> QED
      BY <3>1, AtWork DEF IInv
  <2>3. Engaged(q) => config'[Now(q)] = init[q].existing
    BY <1>2, <2>1, <2>2 DEF AloneInv
  <2>4. \A d \in Client : Has(d, config[d]) => Has(d, config'[d])
    BY EntryStays
  <2> QED
    BY <1>1, <2>1, <2>3, <2>4 DEF AloneInv, Engaged, Now
<1> QED
  BY <1>3, <1>4

LEMMA NextInv == IInv /\ [Next]_vars => IInv'
<1> SUFFICES ASSUME IInv, [Next]_vars PROVE IInv'
  OBVIOUS
<1>1. CASE Next
  <2>1. ASSUME ~overlap' PROVE OneAtWork' /\ \A q \in Inits : AloneInv(q)'
    BY <1>1, <2>1, RunAlone, ReadAlone, OpenBakAlone, FillBakAlone, OpenTmpAlone, FillTmpAlone,
       RenameAlone, DieAlone, SaveAlone DEF Next
  <2> QED
    BY <1>1, <2>1, AlwaysStep DEF IInv
<1>2. CASE UNCHANGED vars
  BY <1>2 DEF vars, IInv, TypeOK, YamlInv, ProcessInv, OneAtWork, AloneInv, Working, Engaged, Now
<1> QED
  BY <1>1, <1>2

\* The inductive invariant of the install accelerator: what holds of a process at
\* each place it can be in, and what more holds while nothing overlaps.
THEOREM Invariance == Spec => []IInv
BY InitInv, NextInv, PTL DEF Spec

\* Every variable keeps its type.
THEOREM TypeCorrect == Spec => []TypeOK
<1>1. IInv => TypeOK
  BY DEF IInv
<1> QED
  BY <1>1, Invariance, PTL

-----------------------------------------------------------------------------
\* The backup is what was read until the rename (claude-desktop.ts:95): a kill
\* leaves the original in its place or beside it.
THEOREM BackedUpFirst == Spec => []BackupIsTheOriginal
<1>1. IInv => BackupIsTheOriginal
  BY DEF IInv, AloneInv, Engaged, BackupIsTheOriginal
<1> QED
  BY <1>1, Invariance, PTL

\* An init that ends without an error has entered hookwarden everywhere.
THEOREM Registers == Spec => []EndedMeansRegistered
<1>1. IInv => EndedMeansRegistered
  <2> SUFFICES ASSUME IInv, NEW p \in Inits, init[p].at = "ended", ~init[p].dry, ~overlap,
                      NEW c \in Client, init[p].rows[c] # "error"
               PROVE  Has(c, config[c])
    BY DEF EndedMeansRegistered
  <2>1. init[p].rows[c] # "none"
    BY DEF IInv, ProcessInv
  <2> QED
    BY <2>1 DEF IInv, AloneInv
<1> QED
  BY <1>1, Invariance, PTL

\* What a step does to a configuration, while nothing overlaps.
LEMMA NoStepCorrupts ==
  ASSUME IInv, [Next]_vars, ~overlap', NEW c \in Client
  PROVE  /\ config[c].kind = "whole" => config'[c].kind = "whole"
         /\ saves' = saves => config[c].entries \cap Servers \subseteq config'[c].entries
<1>1. CASE UNCHANGED vars
  BY <1>1 DEF vars
<1>2. CASE \E p \in Inits : Run(p) \/ Read(p) \/ OpenBak(p) \/ FillBak(p) \/ OpenTmp(p)
                              \/ FillTmp(p) \/ Rename(p) \/ Die(p)
  <2> PICK p \in Inits : Run(p) \/ Read(p) \/ OpenBak(p) \/ FillBak(p) \/ OpenTmp(p)
                           \/ FillTmp(p) \/ Rename(p) \/ Die(p)
    BY <1>2
  <2>0. ~overlap /\ TypeOK /\ YamlInv
    BY <1>2, OverlapStays DEF IInv, Next
  <2>1. CASE config' = config
    BY <2>1
  <2>2. CASE /\ Now(p) \in Client
             /\ config' = [config EXCEPT ![Now(p)] = Merged(Now(p), config[Now(p)])]
    <3>1. config[Now(p)] \in Content
      BY <2>0, <2>2 DEF TypeOK
    <3>2. /\ Merged(Now(p), config[Now(p)]).kind = "whole"
          /\ config[Now(p)].entries \cap Servers \subseteq Merged(Now(p), config[Now(p)]).entries
      BY <2>0, <2>2, <3>1, MergedText DEF YamlInv
    <3> QED
      BY <2>0, <2>2, <3>2 DEF TypeOK
  <2> QED
    BY <2>0, <2>1, <2>2, ConfigStep
<1>3. CASE \E d \in Client : Save(d)
  <2> PICK d \in Client : Save(d)
    BY <1>3
  <2>1. saves' # saves
    BY SavesAssumption DEF Save, IInv, TypeOK
  <2>2. PICK e \in SUBSET Entry : config' = [config EXCEPT ![d] = Whole(e)]
    BY SavedText DEF IInv
  <2> QED
    BY <2>1, <2>2 DEF IInv, TypeOK, Whole
<1> QED
  BY <1>1, <1>2, <1>3 DEF Next

\* No step, a crash included, makes a configuration unreadable (claude-desktop.ts,
\* cursor.ts, continue-dev.ts), while nothing overlaps.
THEOREM NeverCorrupts == Spec => NeverCorruptsAlone
<1>1. IInv /\ [Next]_vars =>
        [~overlap' => \A c \in Client : config[c].kind = "whole" => config'[c].kind = "whole"]_vars
  BY NoStepCorrupts
<1> QED
  BY <1>1, Invariance, PTL DEF Spec, NeverCorruptsAlone

\* No step of an init loses a server the user has, while nothing overlaps.
THEOREM MergesAtOnce == Spec => MergeIsAtomic
<1>1. IInv /\ [Next]_vars =>
        [~overlap' /\ saves' = saves =>
           \A c \in Client : config[c].entries \cap Servers \subseteq config'[c].entries]_vars
  BY NoStepCorrupts
<1> QED
  BY <1>1, Invariance, PTL DEF Spec, MergeIsAtomic
=============================================================================
